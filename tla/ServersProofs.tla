--------------------------- MODULE ServersProofs ----------------------------
(***************************************************************************)
(* Proofs about the servers, for any number of clients, applications,      *)
(* frames and calls: who a message to all reaches (WebsocketServer), that  *)
(* no running application is forgotten and that a timeout does not outlive *)
(* its block (AsgiServer), in which thread a function of a call runs and   *)
(* whose locals it sees (AsgiSync).                                        *)
(***************************************************************************)
EXTENDS AsgiServer, WebsocketServer, AsgiSync, FiniteSetTheorems, WellFoundedInduction, TLAPS

\* What is left of a sequence without one of its elements.
LEMMA RemoveAtFacts ==
  ASSUME NEW S, NEW s \in Seq(S), NEW p \in 1..Len(s)
  PROVE  /\ RemoveAt(s, p) \in Seq(S) /\ Len(s) \in Nat /\ Len(RemoveAt(s, p)) = Len(s) - 1
         /\ \A j \in 1..Len(s) - 1 : RemoveAt(s, p)[j] = IF j < p THEN s[j] ELSE s[j + 1]
<1> DEFINE a == SubSeq(s, 1, p - 1)
           b == SubSeq(s, p + 1, Len(s))
<1>1. Len(s) \in Nat /\ \A j \in 1..Len(s) : s[j] \in S
  OBVIOUS
<1>2. a \in Seq(S) /\ Len(a) = p - 1 /\ \A j \in 1..p - 1 : a[j] = s[j]
  BY <1>1
<1>3. b \in Seq(S) /\ Len(b) = Len(s) - p /\ \A j \in 1..Len(s) - p : b[j] = s[j + p]
  BY <1>1
<1>4. RemoveAt(s, p) = a \o b
  BY DEF RemoveAt
<1> HIDE DEF a, b
<1>5. /\ a \o b \in Seq(S) /\ Len(a \o b) = Len(s) - 1
      /\ \A j \in 1..Len(s) - 1 : (a \o b)[j] = IF j <= p - 1 THEN a[j] ELSE b[j - (p - 1)]
  BY <1>1, <1>2, <1>3
<1>6. ASSUME NEW j \in 1..Len(s) - 1
      PROVE  (a \o b)[j] = IF j < p THEN s[j] ELSE s[j + 1]
  <2>1. CASE j < p
    BY <1>2, <1>5, <2>1
  <2>2. CASE ~(j < p)
    <3>1. j - (p - 1) \in 1..Len(s) - p /\ j - (p - 1) + p = j + 1 /\ ~(j <= p - 1)
      BY <1>1, <2>2
    <3>2. b[j - (p - 1)] = s[j + 1]
      BY <1>3, <3>1
    <3>3. (a \o b)[j] = b[j - (p - 1)]
      BY <1>5, <3>1
    <3> QED
      BY <2>2, <3>2, <3>3
  <2> QED
    BY <2>1, <2>2
<1> QED
  BY <1>1, <1>4, <1>5, <1>6

LEMMA AppendFacts ==
  ASSUME NEW S, NEW s \in Seq(S), NEW x \in S
  PROVE  /\ Append(s, x) \in Seq(S) /\ Len(s) \in Nat /\ Len(Append(s, x)) = Len(s) + 1
         /\ Append(s, x)[Len(s) + 1] = x
         /\ \A i \in 1..Len(s) : s[i] \in S /\ Append(s, x)[i] = s[i]
  OBVIOUS

-----------------------------------------------------------------------------
(* The list of clients.                                                       *)

\* What taking a client out does to the list: those behind it move up by one.
LEMMA TakeOutList ==
  ASSUME WsTypeOK, NEW h \in Handlers, NEW who, TakeOut(who, h)
  PROVE  /\ clients' \in Seq(Handlers)
         /\ \/ clients' = clients /\ cast' = cast
            \/ /\ \E p \in 1..Len(clients) :
                    /\ Len(clients') = Len(clients) - 1
                    /\ \A j \in 1..Len(clients') :
                         clients'[j] = IF j < p THEN clients[j] ELSE clients[j + 1]
               /\ cast' = IF cast.pc = "go" THEN [cast EXCEPT !.removed = @ + 1] ELSE cast
<1>1. CASE ~Removes(who, h)
  BY <1>1 DEF TakeOut, WsTypeOK
<1>2. CASE Removes(who, h)
  <2>1. \E i \in DOMAIN clients : clients[i] = h
    BY <1>2 DEF Removes, InList, Contains, WsTypeOK
  <2>2. Place(h) \in 1..Len(clients)
    BY <2>1 DEF Place, WsTypeOK
  <2>3. clients \in Seq(Handlers) /\ clients' = RemoveAt(clients, Place(h))
    BY <1>2 DEF TakeOut, WsTypeOK
  <2>4. /\ clients' \in Seq(Handlers) /\ Len(clients) \in Nat /\ Len(clients') = Len(clients) - 1
        /\ \A j \in 1..Len(clients) - 1 :
             clients'[j] = IF j < Place(h) THEN clients[j] ELSE clients[j + 1]
    BY <2>2, <2>3, RemoveAtFacts
  <2>5. cast' = IF cast.pc = "go" THEN [cast EXCEPT !.removed = @ + 1] ELSE cast
    BY <1>2 DEF TakeOut
  <2> QED
    BY <2>2, <2>4, <2>5
<1> QED
  BY <1>1, <1>2

\* The multicast's record, its fields taken apart.
LEMMA CastFields ==
  ASSUME NEW c \in Casts
  PROVE  /\ c = [pc |-> c.pc, i |-> c.i, all |-> c.all, got |-> c.got, removed |-> c.removed]
         /\ c.pc \in {"idle", "go", "sent", "raised"} /\ c.i \in Nat \ {0} /\ c.all \subseteq Handlers
         /\ c.got \subseteq Handlers /\ c.removed \in Nat
  BY DEF Casts

LEMMA CastUpdates ==
  ASSUME NEW c \in Casts, NEW h
  PROVE  /\ [c EXCEPT !.removed = @ + 1]
              = [pc |-> c.pc, i |-> c.i, all |-> c.all, got |-> c.got, removed |-> c.removed + 1]
         /\ \A x \in {"sent", "raised"} : [c EXCEPT !.pc = x]
              = [pc |-> x, i |-> c.i, all |-> c.all, got |-> c.got, removed |-> c.removed]
         /\ [c EXCEPT !.i = @ + 1, !.got = @ \cup {h}]
              = [pc |-> c.pc, i |-> c.i + 1, all |-> c.all, got |-> c.got \cup {h},
                 removed |-> c.removed]
<1> DEFINE r(p, n, g, k) == [pc |-> p, i |-> n, all |-> c.all, got |-> g, removed |-> k]
<1>1. c = r(c.pc, c.i, c.got, c.removed)
  BY CastFields
<1>2. [c EXCEPT !.removed = @ + 1] = r(c.pc, c.i, c.got, c.removed + 1)
  BY <1>1
<1>3. ASSUME NEW x \in {"sent", "raised"} PROVE [c EXCEPT !.pc = x] = r(x, c.i, c.got, c.removed)
  BY <1>1
<1>4. [c EXCEPT !.i = @ + 1] = r(c.pc, c.i + 1, c.got, c.removed)
  BY <1>1
<1>5. [c EXCEPT !.i = @ + 1, !.got = @ \cup {h}] = r(c.pc, c.i + 1, c.got \cup {h}, c.removed)
  <2>1. [c EXCEPT !.i = @ + 1, !.got = @ \cup {h}]
          = [[c EXCEPT !.i = @ + 1] EXCEPT !.got = @ \cup {h}]
    BY <1>1
  <2>2. \A d : d = r(c.pc, c.i + 1, c.got, c.removed)
                 => [d EXCEPT !.got = @ \cup {h}] = r(c.pc, c.i + 1, c.got \cup {h}, c.removed)
    OBVIOUS
  <2> QED
    BY <1>4, <2>1, <2>2
<1> QED
  BY <1>2, <1>3, <1>5

LEMMA TakeOutTypes ==
  ASSUME WsTypeOK, NEW h \in Handlers, NEW who \in Finishers, TakeOut(who, h)
  PROVE  /\ clients' \in Seq(Handlers)
         /\ found' \in [Finishers \X Handlers -> BOOLEAN]
         /\ cast' \in Casts
<1>1. clients' \in Seq(Handlers)
  BY TakeOutList
<1>2. found' \in [Finishers \X Handlers -> BOOLEAN]
  BY DEF TakeOut, WsTypeOK
<1>3. cast' = cast \/ cast' = [cast EXCEPT !.removed = @ + 1]
  BY TakeOutList
<1>4. cast \in Casts
  BY DEF WsTypeOK
<1>5. [cast EXCEPT !.removed = @ + 1] \in Casts
  <2>1. /\ cast.pc \in {"idle", "go", "sent", "raised"} /\ cast.i \in Nat \ {0}
        /\ cast.all \subseteq Handlers /\ cast.got \subseteq Handlers /\ cast.removed + 1 \in Nat
    BY <1>4, CastFields
  <2>2. [cast EXCEPT !.removed = @ + 1]
          = [pc |-> cast.pc, i |-> cast.i, all |-> cast.all, got |-> cast.got,
             removed |-> cast.removed + 1]
    BY <1>4, CastUpdates
  <2> QED
    BY <2>1, <2>2 DEF Casts
<1> QED
  BY <1>1, <1>2, <1>3, <1>4, <1>5

LEMMA LookUpTypes ==
  ASSUME WsTypeOK, NEW h \in Handlers, NEW who \in Finishers, LookUp(who, h)
  PROVE  /\ look' \in [Finishers \X Handlers -> Nat \ {0}]
         /\ found' \in [Finishers \X Handlers -> BOOLEAN]
<1>1. look[<<who, h>>] + 1 \in Nat \ {0} /\ (look[<<who, h>>] <= Len(clients)) \in BOOLEAN
  BY DEF WsTypeOK
<1>2. look \in [Finishers \X Handlers -> Nat \ {0}] /\ found \in [Finishers \X Handlers -> BOOLEAN]
  BY DEF WsTypeOK
<1>3. CASE Looked(who, h)
  <2>1. PICK b \in BOOLEAN : found' = [found EXCEPT ![<<who, h>>] = b]
    BY <1>1, <1>3 DEF LookUp
  <2>2. look' = [look EXCEPT ![<<who, h>>] = 1]
    BY <1>3 DEF LookUp
  <2> QED BY <1>2, <2>1, <2>2
<1>4. CASE ~Looked(who, h)
  BY <1>1, <1>2, <1>4 DEF LookUp
<1> QED
  BY <1>3, <1>4

\* The steps of a connection.
LEMMA ConnectionTypes ==
  ASSUME WsTypeOK, NEW h \in Handlers, HandlerStep(h)
  PROVE  WsTypeOK'
<1>1. CASE Handshake(h)
  BY <1>1 DEF Handshake, WsTypeOK
<1>2. CASE Listed(h)
  <2>1. clients' \in Seq(Handlers)
    BY <1>2 DEF Listed, WsTypeOK
  <2> QED
    BY <1>2, <2>1 DEF Listed, WsTypeOK
<1>3. CASE ReadFrame(h)
  <2>1. reads' \in 0..MaxReads
    BY <1>3, WsAssumption DEF ReadFrame, WsTypeOK
  <2>2. /\ hs' \in [Handlers -> {"new", "append", "read", "lookup", "remove", "ended"}]
        /\ alive' \in [Handlers -> BOOLEAN]
    BY <1>3 DEF ReadFrame, WsTypeOK
  <2> QED
    BY <1>3, <2>1, <2>2 DEF ReadFrame, WsTypeOK
<1>4. CASE LoopEnds(h)
  BY <1>4 DEF LoopEnds, WsTypeOK
<1>5. CASE Finish1(h)
  <2>1. LookUp("own", h) /\ "own" \in Finishers
    BY <1>5 DEF Finish1, Finishers
  <2>2. hs' = hs \/ hs' = [hs EXCEPT ![h] = "remove"]
    BY <1>5 DEF Finish1
  <2> QED
    BY <1>5, <2>1, <2>2, LookUpTypes DEF Finish1, WsTypeOK
<1>6. CASE Finish2(h)
  <2>1. TakeOut("own", h) /\ "own" \in Finishers
    BY <1>6 DEF Finish2, Finishers
  <2>2. /\ hs' = [hs EXCEPT ![h] = "ended"] /\ conn' = [conn EXCEPT ![h] = FALSE]
        /\ UNCHANGED <<alive, look, down, sends, reads>>
    BY <1>6 DEF Finish2
  <2> QED
    BY <2>1, <2>2, TakeOutTypes DEF WsTypeOK
<1>7. CASE Terminated(h)
  <2>1. TakeOut("down", h) /\ "down" \in Finishers
    BY <1>7 DEF Terminated, Finishers
  <2>2. /\ conn' \in [Handlers -> BOOLEAN] /\ UNCHANGED <<hs, alive, look, sends, reads>>
        /\ down.pc = "one" /\ \E x \in {"alive", "raised"} : down' = [pc |-> x, i |-> down.i]
    BY <1>7 DEF Terminated, WsTypeOK
  <2>3. down.i \in Nat \ {0}
    BY <2>2 DEF WsTypeOK
  <2>4. down' \in [pc : {"close", "alive", "raised"}, i : Nat \ {0}]
    BY <2>2, <2>3
  <2> QED
    BY <2>1, <2>2, <2>4, TakeOutTypes DEF WsTypeOK
<1>8. CASE TerminateLook(h)
  <2>1. LookUp("down", h) /\ "down" \in Finishers
    BY <1>8 DEF TerminateLook, Finishers
  <2>2. down \in [pc : {"look", "one"}, i : Nat \ {0}, h : Handlers]
    BY <1>8 DEF TerminateLook, WsTypeOK
  <2>3. down' \in [pc : {"look", "one"}, i : Nat \ {0}, h : Handlers]
    BY <1>8, <2>2 DEF TerminateLook
  <2> QED
    BY <1>8, <2>1, <2>3, LookUpTypes DEF TerminateLook, WsTypeOK
<1> QED
  BY <1>1, <1>2, <1>3, <1>4, <1>5, <1>6, <1>7, <1>8 DEF HandlerStep

\* The threads of the program.
LEMMA ProgramTypes ==
  ASSUME WsTypeOK, CastBegin \/ CastStep \/ Shutdown \/ SendClose \/ Terminate
  PROVE  WsTypeOK'
<1>0. \A j \in 1..Len(clients) : clients[j] \in Handlers
  BY DEF WsTypeOK
<1>1. CASE CastBegin
  <2>1. Range(clients) \subseteq Handlers /\ sends' \in 0..MaxSends
    BY <1>1, WsAssumption DEF CastBegin, Range, WsTypeOK
  <2>2. cast' \in Casts
    BY <1>1, <2>1 DEF CastBegin, Casts
  <2> QED
    BY <1>1, <2>1, <2>2 DEF CastBegin, WsTypeOK
<1>2. CASE CastStep
  <2>1. cast \in Casts
    BY DEF WsTypeOK
  <2>0. /\ cast.pc \in {"idle", "go", "sent", "raised"} /\ cast.i \in Nat \ {0}
        /\ cast.all \subseteq Handlers /\ cast.got \subseteq Handlers /\ cast.removed \in Nat
    BY <2>1, CastFields
  <2>2. More => clients[cast.i] \in Handlers
    BY <1>0, <2>0 DEF More, WsTypeOK
  <2>3. cast' \in Casts
    <3>1. CASE More /\ cast' = [cast EXCEPT !.i = @ + 1, !.got = @ \cup {clients[cast.i]}]
      <4>1. cast' = [pc |-> cast.pc, i |-> cast.i + 1, all |-> cast.all,
                     got |-> cast.got \cup {clients[cast.i]}, removed |-> cast.removed]
        BY <2>1, <3>1, CastUpdates
      <4> QED
        BY <2>0, <2>2, <3>1, <4>1 DEF Casts
    <3>2. CASE \E x \in {"sent", "raised"} : cast' = [cast EXCEPT !.pc = x]
      <4>2. PICK x \in {"sent", "raised"} :
               cast' = [pc |-> x, i |-> cast.i, all |-> cast.all, got |-> cast.got,
                        removed |-> cast.removed]
        BY <2>1, <3>2, CastUpdates
      <4> QED
        BY <2>0, <4>2 DEF Casts
    <3> QED
      BY <1>2, <3>1, <3>2 DEF CastStep
  <2> QED
    BY <1>2, <2>3 DEF CastStep, WsTypeOK
<1>3. CASE Shutdown
  BY <1>3 DEF Shutdown, WsTypeOK
<1>4. CASE SendClose
  <2>1. down \in [pc : {"close", "alive", "raised"}, i : Nat \ {0}]
    BY <1>4 DEF SendClose, WsTypeOK
  <2>2. down' \in [pc : {"close", "alive", "raised"}, i : Nat \ {0}]
    BY <1>4, <2>1 DEF SendClose
  <2> QED
    BY <1>4, <2>2 DEF SendClose, WsTypeOK
<1>5. CASE Terminate
  <2>1. down \in [pc : {"close", "alive", "raised"}, i : Nat \ {0}]
    BY <1>5 DEF Terminate, WsTypeOK
  <2>2. CASE down.i > Len(clients)
    <3>1. Range(clients) \subseteq Handlers
      BY DEF Range, WsTypeOK
    <3> QED
      BY <1>5, <2>2, <3>1 DEF Terminate, WsTypeOK
  <2>3. CASE ~(down.i > Len(clients))
    <3>1. clients[down.i] \in Handlers
      BY <1>0, <2>1, <2>3 DEF WsTypeOK
    <3>2. /\ alive' = [alive EXCEPT ![clients[down.i]] = FALSE]
          /\ down' = [pc |-> "look", i |-> down.i + 1, h |-> clients[down.i]]
          /\ UNCHANGED <<hs, conn, clients, look, found, cast, sends, reads>>
      BY <1>5, <2>3 DEF Terminate
    <3>3. down' \in [pc : {"look", "one"}, i : Nat \ {0}, h : Handlers]
      BY <2>1, <3>1, <3>2
    <3> QED
      BY <3>2, <3>3 DEF WsTypeOK
  <2> QED
    BY <2>2, <2>3
<1> QED
  BY <1>1, <1>2, <1>3, <1>4, <1>5

\* The types of the websocket server's state.
THEOREM WsTypes == WsSpec => []WsTypeOK
<1>1. WsInit => WsTypeOK
  BY WsAssumption DEF WsInit, WsTypeOK, Casts
<1>2. WsTypeOK /\ [WsStep]_wsVars => WsTypeOK'
  <2>1. WsTypeOK /\ UNCHANGED wsVars => WsTypeOK'
    BY DEF wsVars, WsTypeOK
  <2> QED
    BY <2>1, ConnectionTypes, ProgramTypes DEF WsStep
<1> QED
  BY <1>1, <1>2, PTL DEF WsSpec

-----------------------------------------------------------------------------
(* Who gets a message to all.                                                 *)

LEMMA Fewer ==
  ASSUME NEW A, NEW B \in SUBSET Handlers, A \subseteq B
  PROVE  /\ IsFiniteSet(A) /\ Cardinality(A) \in Nat
         /\ Cardinality(A) <= Cardinality(B) /\ Cardinality(B) \in Nat
<1>1. IsFiniteSet(Handlers)
  BY FS_Interval, WsAssumption DEF Handlers
<1>2. IsFiniteSet(B)
  BY <1>1, FS_Subset
<1> QED
  BY <1>2, FS_Subset, FS_CardinalityType

LEMMA MissedFacts ==
  ASSUME WsTypeOK
  PROVE  /\ Missed \subseteq Handlers /\ Skipped \subseteq Handlers
         /\ \A h : InList(h) <=> \E i \in 1..Len(clients) : clients[i] = h
         /\ Len(clients) \in Nat
  BY DEF WsTypeOK, Casts, Missed, Skipped, InList, Contains

\* A handler that moves on, and nothing else about the list or the multicast.
LEMMA MovesOn ==
  ASSUME WsTypeOK, CastInvariant, UNCHANGED <<clients, cast>>,
         \A h \in Handlers : hs[h] \notin {"new", "append"} => hs'[h] \notin {"new", "append"}
  PROVE  CastInvariant'
  BY DEF CastInvariant, ReachesAll, Missed, Skipped, InList

\* A client that comes is not one the multicast is about.
LEMMA ListedKeeps ==
  ASSUME WsTypeOK, CastInvariant, NEW h \in Handlers, Listed(h)
  PROVE  CastInvariant'
<1>1. /\ clients' = Append(clients, h) /\ hs' = [hs EXCEPT ![h] = "read"] /\ hs[h] = "append"
      /\ UNCHANGED cast
  BY DEF Listed
<1>2. /\ Len(clients') = Len(clients) + 1 /\ clients'[Len(clients) + 1] = h /\ Len(clients) \in Nat
      /\ \A i \in 1..Len(clients) : clients'[i] = clients[i]
  BY <1>1, AppendFacts DEF WsTypeOK
<1>3. h \notin cast.all
  BY <1>1 DEF CastInvariant
<1>4. \A i \in 1..Len(clients') : i = Len(clients) + 1 \/ i \in 1..Len(clients)
  BY <1>2
<1>5. \A g : InList(g)' => InList(g) \/ g = h
  BY <1>2, <1>4 DEF InList, Contains
<1>6. Missed' \subseteq Missed
  BY <1>1, <1>3, <1>5 DEF Missed
<1>7. Skipped' \subseteq Skipped
  BY <1>1, <1>2, <1>3, <1>4 DEF Skipped
<1>8. /\ Cardinality(Missed') <= Cardinality(Missed) /\ Cardinality(Missed') \in Nat
      /\ Cardinality(Skipped') <= Cardinality(Skipped) /\ Cardinality(Skipped') \in Nat
      /\ Cardinality(Missed) \in Nat /\ Cardinality(Skipped) \in Nat
  BY <1>6, <1>7, MissedFacts, Fewer
<1>9. cast.removed \in Nat
  BY CastFields DEF WsTypeOK
<1>10. \A g \in Handlers : g \in cast'.all \/ InList(g)' => hs'[g] \notin {"new", "append"}
  BY <1>1, <1>5 DEF CastInvariant, WsTypeOK
<1> QED
  BY <1>1, <1>8, <1>9, <1>10 DEF CastInvariant, ReachesAll

\* A client that goes makes the loop pass over at most one other.
LEMMA TakeOutKeeps ==
  ASSUME WsTypeOK, CastInvariant, NEW h \in Handlers, NEW who, TakeOut(who, h),
         \A g \in Handlers : hs[g] \notin {"new", "append"} => hs'[g] \notin {"new", "append"}
  PROVE  CastInvariant'
<1>1. CASE UNCHANGED <<clients, cast>>
  BY <1>1, MovesOn
<1>2. CASE /\ \E p \in 1..Len(clients) :
                /\ Len(clients') = Len(clients) - 1
                /\ \A j \in 1..Len(clients') :
                     clients'[j] = IF j < p THEN clients[j] ELSE clients[j + 1]
           /\ cast' = IF cast.pc = "go" THEN [cast EXCEPT !.removed = @ + 1] ELSE cast
  <2>1. PICK p \in 1..Len(clients) :
          /\ Len(clients') = Len(clients) - 1
          /\ \A j \in 1..Len(clients') :
               clients'[j] = IF j < p THEN clients[j] ELSE clients[j + 1]
    BY <1>2
  <2>2. Len(clients) \in Nat
    BY MissedFacts
  <2>3. \A j \in 1..Len(clients') : /\ j \in 1..Len(clients) /\ j + 1 \in 1..Len(clients)
                                    /\ clients'[j] \in {clients[j], clients[j + 1]}
    BY <2>1, <2>2
  <2>4. \A g : InList(g)' => InList(g)
    BY <2>3 DEF InList, Contains
  <2>5. /\ cast.removed \in Nat /\ cast.i \in Nat
        /\ [cast EXCEPT !.removed = @ + 1]
              = [pc |-> cast.pc, i |-> cast.i, all |-> cast.all, got |-> cast.got,
                 removed |-> cast.removed + 1]
    BY CastFields, CastUpdates DEF WsTypeOK
  <2>6. /\ cast'.pc = cast.pc /\ cast'.i = cast.i /\ cast'.all = cast.all /\ cast'.got = cast.got
        /\ cast'.removed = IF cast.pc = "go" THEN cast.removed + 1 ELSE cast.removed
    BY <1>2, <2>5
  <2>7. \A g \in Handlers : g \in cast'.all \/ InList(g)' => hs'[g] \notin {"new", "append"}
    BY <2>4, <2>6 DEF CastInvariant
  <2>8. CASE cast.pc = "go"
    <3>1. Skipped' \subseteq Skipped \cup {clients[cast.i]}
      <4> SUFFICES ASSUME NEW g \in cast.all \ cast.got,
                          NEW j \in 1..Len(clients'), j < cast.i, clients'[j] = g
                   PROVE  g \in Skipped \cup {clients[cast.i]}
        BY <2>6 DEF Skipped
      <4>1. CASE g = clients[j]
        BY <2>3, <4>1 DEF Skipped
      <4>2. CASE g = clients[j + 1]
        <5>1. j + 1 < cast.i \/ j + 1 = cast.i
          BY <2>2, <2>3, <2>5
        <5> QED
          BY <2>3, <4>2, <5>1 DEF Skipped
      <4> QED
        BY <2>3, <4>1, <4>2
    <3>2. /\ IsFiniteSet(Skipped) /\ Cardinality(Skipped) \in Nat
      BY MissedFacts, Fewer
    <3>3. /\ IsFiniteSet(Skipped \cup {clients[cast.i]})
          /\ Cardinality(Skipped \cup {clients[cast.i]}) <= Cardinality(Skipped) + 1
          /\ Cardinality(Skipped \cup {clients[cast.i]}) \in Nat
      <4>1. ASSUME NEW x
            PROVE  /\ IsFiniteSet(Skipped \cup {x})
                   /\ \/ Cardinality(Skipped \cup {x}) = Cardinality(Skipped)
                      \/ Cardinality(Skipped \cup {x}) = Cardinality(Skipped) + 1
        BY <3>2, FS_AddElement
      <4>2. /\ IsFiniteSet(Skipped \cup {clients[cast.i]})
            /\ \/ Cardinality(Skipped \cup {clients[cast.i]}) = Cardinality(Skipped)
               \/ Cardinality(Skipped \cup {clients[cast.i]}) = Cardinality(Skipped) + 1
        BY <4>1
      <4>3. \A c, d \in Nat : (c = d \/ c = d + 1) => c <= d + 1
        OBVIOUS
      <4>4. Cardinality(Skipped \cup {clients[cast.i]}) \in Nat
        BY <4>2, FS_CardinalityType
      <4> QED
        BY <3>2, <4>2, <4>3, <4>4
    <3>4. Cardinality(Skipped') <= Cardinality(Skipped) + 1
      <4>1. /\ IsFiniteSet(Skipped')
            /\ Cardinality(Skipped') <= Cardinality(Skipped \cup {clients[cast.i]})
        BY <3>1, <3>3, FS_Subset
      <4>2. Cardinality(Skipped') \in Nat
        BY <4>1, FS_CardinalityType
      <4> QED
        BY <3>2, <3>3, <4>1, <4>2
    <3>5. Cardinality(Skipped) <= cast.removed /\ Cardinality(Skipped') \in Nat
      <4>1. IsFiniteSet(Skipped')
        BY <3>1, <3>3, FS_Subset
      <4> QED
        BY <2>8, <4>1, FS_CardinalityType DEF CastInvariant
    <3> QED
      BY <2>5, <2>6, <2>7, <2>8, <3>2, <3>4, <3>5 DEF CastInvariant, ReachesAll
  <2>9. CASE cast.pc # "go"
    <3>1. Missed' \subseteq Missed
      BY <2>4, <2>6 DEF Missed
    <3>2. /\ Cardinality(Missed') <= Cardinality(Missed) /\ Cardinality(Missed') \in Nat
          /\ Cardinality(Missed) \in Nat
      BY <3>1, MissedFacts, Fewer
    <3> QED
      BY <2>5, <2>6, <2>7, <2>9, <3>2 DEF CastInvariant, ReachesAll
  <2> QED
    BY <2>8, <2>9
<1> QED
  BY <1>1, <1>2, TakeOutList

\* The loop begins with nobody passed over ...
LEMMA CastBeginKeeps ==
  ASSUME WsTypeOK, CastInvariant, CastBegin
  PROVE  CastInvariant'
<1>1. /\ cast' = [pc |-> "go", i |-> 1, all |-> Range(clients), got |-> {}, removed |-> 0]
      /\ UNCHANGED <<clients, hs>>
  BY DEF CastBegin
<1>2. Skipped' = {}
  <2>1. \A i \in 1..Len(clients) : ~(i < 1)
    BY MissedFacts
  <2> QED
    BY <1>1, <2>1 DEF Skipped
<1>3. \A h \in Handlers : h \in Range(clients) => InList(h)
  BY DEF Range, InList, Contains, WsTypeOK
<1> QED
  BY <1>1, <1>2, <1>3, FS_EmptySet DEF CastInvariant, ReachesAll, InList

\* ... and at its end everybody in the list whom it did not send to was passed over.
LEMMA CastStepKeeps ==
  ASSUME WsTypeOK, CastInvariant, CastStep
  PROVE  CastInvariant'
<1>1. cast.pc = "go" /\ UNCHANGED <<clients, hs>> /\ cast \in Casts
  BY DEF CastStep, WsTypeOK
<1>2. cast.i \in Nat /\ cast.removed \in Nat /\ Len(clients) \in Nat
  BY <1>1, CastFields, MissedFacts
<1>3. Cardinality(Skipped) <= cast.removed
  BY <1>1 DEF CastInvariant
<1>4. CASE More /\ cast' = [cast EXCEPT !.i = @ + 1, !.got = @ \cup {clients[cast.i]}]
  <2>1. cast' = [pc |-> cast.pc, i |-> cast.i + 1, all |-> cast.all,
                 got |-> cast.got \cup {clients[cast.i]}, removed |-> cast.removed]
    BY <1>1, <1>4, CastUpdates
  <2>2. \A i \in 1..Len(clients) : i < cast.i + 1 => i < cast.i \/ i = cast.i
    BY <1>2
  <2>3. Skipped' \subseteq Skipped
    BY <1>1, <2>1, <2>2 DEF Skipped
  <2>4. /\ Cardinality(Skipped') <= Cardinality(Skipped) /\ Cardinality(Skipped') \in Nat
        /\ Cardinality(Skipped) \in Nat
    BY <2>3, MissedFacts, Fewer
  <2> QED
    BY <1>1, <1>2, <1>3, <2>1, <2>4 DEF CastInvariant, ReachesAll, InList
<1>5. CASE \E x \in {"sent", "raised"} : cast' = [cast EXCEPT !.pc = x] /\ (x = "sent" => ~More)
  <2>1. PICK x \in {"sent", "raised"} :
          cast' = [pc |-> x, i |-> cast.i, all |-> cast.all, got |-> cast.got,
                   removed |-> cast.removed] /\ (x = "sent" => ~More)
    BY <1>1, <1>5, CastUpdates
  <2>2. x = "sent" => ~More
    BY <2>1
  <2>3. ASSUME x = "sent" PROVE Cardinality(Missed') <= cast.removed
    <3>1. \A i \in 1..Len(clients) : i < cast.i
      BY <1>2, <2>2, <2>3 DEF More
    <3>2. Missed' \subseteq Skipped
      BY <1>1, <2>1, <3>1 DEF Missed, Skipped, InList, Contains
    <3>3. /\ Cardinality(Missed') <= Cardinality(Skipped) /\ Cardinality(Missed') \in Nat
          /\ Cardinality(Skipped) \in Nat
      BY <3>2, MissedFacts, Fewer
    <3> QED
      BY <1>2, <1>3, <3>3
  <2> QED
    BY <1>1, <2>1, <2>3 DEF CastInvariant, ReachesAll, InList
<1> QED
  BY <1>4, <1>5 DEF CastStep

\* A message to all reaches every client that is in the list before and after, except for
\* at most as many as have left it meanwhile: _client_left_ shortens the list another
\* thread iterates over by index.
THEOREM ReachesAllCorrect == WsSpec => []ReachesAll
<1>1. WsInit => CastInvariant
  BY DEF WsInit, CastInvariant, ReachesAll, InList, Contains
<1>2. WsTypeOK /\ CastInvariant /\ [WsStep]_wsVars => CastInvariant'
  <2> SUFFICES ASSUME WsTypeOK, CastInvariant, [WsStep]_wsVars PROVE CastInvariant'
    OBVIOUS
  <2>1. ASSUME NEW h \in Handlers, Handshake(h) \/ ReadFrame(h) \/ LoopEnds(h) \/ Finish1(h) \/ TerminateLook(h)
        PROVE  CastInvariant'
    <3>1. UNCHANGED <<clients, cast>>
      BY <2>1 DEF Handshake, ReadFrame, LoopEnds, Finish1, TerminateLook
    <3>2. \A g \in Handlers : hs[g] \notin {"new", "append"} => hs'[g] \notin {"new", "append"}
      BY <2>1 DEF Handshake, ReadFrame, LoopEnds, Finish1, TerminateLook, WsTypeOK
    <3> QED
      BY <3>1, <3>2, MovesOn
  <2>2. ASSUME NEW h \in Handlers, Listed(h) PROVE CastInvariant'
    BY <2>2, ListedKeeps
  <2>3. ASSUME NEW h \in Handlers, Finish2(h) PROVE CastInvariant'
    <3>1. TakeOut("own", h)
      BY <2>3 DEF Finish2
    <3>2. \A g \in Handlers : hs[g] \notin {"new", "append"} => hs'[g] \notin {"new", "append"}
      BY <2>3 DEF Finish2, WsTypeOK
    <3> QED
      BY <3>1, <3>2, TakeOutKeeps
  <2>4. ASSUME NEW h \in Handlers, Terminated(h) PROVE CastInvariant'
    <3>1. TakeOut("down", h) /\ UNCHANGED hs
      BY <2>4 DEF Terminated
    <3> QED
      BY <3>1, TakeOutKeeps
  <2>5. CASE Shutdown \/ SendClose \/ Terminate \/ UNCHANGED wsVars
    <3>1. UNCHANGED <<clients, cast, hs>>
      BY <2>5 DEF Shutdown, SendClose, Terminate, wsVars
    <3> QED
      BY <3>1, MovesOn
  <2> QED
    BY <2>1, <2>2, <2>3, <2>4, <2>5, CastBeginKeeps, CastStepKeeps, [WsStep]_wsVars
       DEF WsStep, HandlerStep
<1>3. CastInvariant => ReachesAll
  BY DEF CastInvariant
<1> QED
  BY <1>1, <1>2, <1>3, WsTypes, PTL DEF WsSpec

-----------------------------------------------------------------------------
(* The timeout of a test.                                                     *)

\* A timeout cancels the task inside its block only: every way out of receive_output and
\* wait runs _do_exit, and the callback that has no handle to cancel finds no task.
THEOREM NoStrayCancelCorrect == TestSpec => []NoStrayCancel
<1>1. TestInit => TestInvariant
  BY DEF TestInit, TestInvariant
<1>2. TestInvariant /\ [TestStep]_testVars => TestInvariant'
  <2> SUFFICES ASSUME TestInvariant, [TestStep]_testVars PROVE TestInvariant'
    OBVIOUS
  <2> USE DEF TestInvariant
  <2>1. ASSUME NEW l \in {"none", "zero", "some"}, receive_output(l) \/ WaitForEnd(l)
        PROVE  TestInvariant'
    BY <2>1 DEF receive_output, WaitForEnd, Enter
  <2>2. CASE TimerFires \/ Outside
    BY <2>2 DEF TimerFires, Outside
  <2>3. CASE Received \/ ReceiveCancelled \/ Drained
    BY <2>3 DEF Received, ReceiveCancelled, Drained, Exit
  <2>4. CASE WaitCancelled \/ Waited \/ StopApp \/ TestedApp
    BY <2>4 DEF WaitCancelled, Waited, StopApp, TestedApp, Exit
  <2>5. CASE UNCHANGED testVars
    BY <2>5 DEF testVars
  <2> QED
    BY <2>1, <2>2, <2>3, <2>4, <2>5 DEF TestStep
<1>3. TestInvariant => NoStrayCancel
  BY DEF TestInvariant, NoStrayCancel
<1> QED
  BY <1>1, <1>2, <1>3, PTL DEF TestSpec

-----------------------------------------------------------------------------
(* The table of applications.                                                 *)

\* w is t without some of its entries.
Among(w, t) ==
  /\ w \in Seq(Details) /\ Len(w) <= Len(t)
  /\ \A i \in DOMAIN w : \E j \in DOMAIN t : w[i] = t[j]
  /\ OneScope(t) => OneScope(w)

LEMMA AmongSelf ==
  ASSUME NEW t \in Seq(Details) PROVE Among(t, t)
<1>1. Len(t) <= Len(t)
  OBVIOUS
<1> QED
  BY <1>1 DEF Among

LEMMA DropFacts ==
  ASSUME NEW t \in Seq(Details), NEW p \in 1..Len(t)
  PROVE  /\ Among(RemoveAt(t, p), t) /\ Len(RemoveAt(t, p)) = Len(t) - 1
         /\ \A j \in DOMAIN t : j # p => \E i \in DOMAIN RemoveAt(t, p) : RemoveAt(t, p)[i] = t[j]
<1> DEFINE w == RemoveAt(t, p)
<1>1. /\ w \in Seq(Details) /\ Len(t) \in Nat /\ Len(w) = Len(t) - 1
      /\ \A i \in 1..Len(t) - 1 : w[i] = IF i < p THEN t[i] ELSE t[i + 1]
  BY RemoveAtFacts
<1>2. DOMAIN t = 1..Len(t) /\ DOMAIN w = 1..Len(t) - 1
  BY <1>1
<1> HIDE DEF w
<1>3. \A i \in DOMAIN w : \E j \in DOMAIN t : w[i] = t[j] /\ j = (IF i < p THEN i ELSE i + 1)
  BY <1>1, <1>2
<1>4. ASSUME NEW j \in DOMAIN t, j # p PROVE \E i \in DOMAIN w : w[i] = t[j]
  <2>1. CASE j < p
    BY <1>1, <1>2, <1>4, <2>1
  <2>2. CASE ~(j < p)
    <3>1. j - 1 \in DOMAIN w /\ ~(j - 1 < p) /\ j - 1 + 1 = j
      BY <1>1, <1>2, <1>4, <2>2
    <3> QED
      BY <1>1, <1>2, <3>1
  <2> QED
    BY <2>1, <2>2
<1>5. OneScope(t) => OneScope(w)
  <2> SUFFICES ASSUME OneScope(t), NEW i \in DOMAIN w, NEW k \in DOMAIN w,
                      w[i].scope = w[k].scope
               PROVE  i = k
    BY DEF OneScope
  <2> DEFINE at(n) == IF n < p THEN n ELSE n + 1
  <2>1. at(i) \in DOMAIN t /\ at(k) \in DOMAIN t /\ w[i] = t[at(i)] /\ w[k] = t[at(k)]
    BY <1>1, <1>2
  <2>2. at(i) = at(k)
    BY <2>1 DEF OneScope
  <2> QED
    BY <1>1, <1>2, <2>2
<1>6. Len(w) <= Len(t)
  BY <1>1
<1> QED
  BY <1>1, <1>3, <1>4, <1>5, <1>6 DEF Among, w

\* del of a scope leaves the entries of the others.
LEMMA WithoutFacts ==
  ASSUME NEW t \in Seq(Details), NEW s
  PROVE  /\ Among(Without(t, s), t)
         /\ \A j \in DOMAIN t : t[j].scope # s =>
              \E i \in DOMAIN Without(t, s) : Without(t, s)[i] = t[j]
<1>1. CASE \E i \in DOMAIN t : t[i].scope = s
  <2> DEFINE p == CHOOSE i \in DOMAIN t : t[i].scope = s
  <2>1. p \in DOMAIN t /\ t[p].scope = s /\ DOMAIN t = 1..Len(t)
    BY <1>1
  <2>2. Without(t, s) = RemoveAt(t, p)
    BY <1>1 DEF Without
  <2> HIDE DEF p
  <2>3. /\ Among(RemoveAt(t, p), t)
        /\ \A j \in DOMAIN t : j # p => \E i \in DOMAIN RemoveAt(t, p) : RemoveAt(t, p)[i] = t[j]
    BY <2>1, DropFacts
  <2> QED
    BY <2>1, <2>2, <2>3
<1>2. CASE ~ \E i \in DOMAIN t : t[i].scope = s
  BY <1>2, AmongSelf DEF Without
<1> QED
  BY <1>1, <1>2

\* delete_oldest_application_instance stops what it forgets.
LEMMA ReclaimFacts ==
  ASSUME ServerTypeOK, ServerInvariant, NEW r \in Reclaim(table, future)
  PROVE  /\ Among(r[1], table) /\ Len(r[1]) \in Nat /\ Len(r[1]) <= MaxApplications
         /\ r[2] \in Seq(States) /\ Len(r[2]) = Len(future)
         /\ \A f \in DOMAIN future : r[2][f] = future[f] \/ (~Over(f) /\ r[2][f] = "stop")
         /\ \A j \in DOMAIN table : \/ \E i \in DOMAIN r[1] : r[1][i] = table[j]
                                    \/ r[2][table[j].fut] # "run"
<1>0. /\ table \in Seq(Details) /\ future \in Seq(States) /\ Len(table) \in Nat /\ Len(future) \in Nat
      /\ MaxApplications \in Nat /\ Len(table) <= MaxApplications + 1
  BY ServerAssumption DEF ServerTypeOK, ServerInvariant
<1>1. CASE Len(table) <= MaxApplications
  <2>1. r[1] = table /\ r[2] = future
    BY <1>1 DEF Reclaim
  <2> QED
    BY <1>0, <1>1, <2>1, AmongSelf
<1>2. CASE ~(Len(table) <= MaxApplications)
  <2>1. PICK p \in DOMAIN table : r = <<RemoveAt(table, p), Stopped(future, table[p].fut)>>
    BY <1>2 DEF Reclaim, Oldest
  <2>2. r[1] = RemoveAt(table, p) /\ r[2] = Stopped(future, table[p].fut) /\ p \in 1..Len(table)
    BY <1>0, <2>1
  <2>3. /\ Among(r[1], table) /\ Len(r[1]) = Len(table) - 1
        /\ \A j \in DOMAIN table : j # p => \E i \in DOMAIN r[1] : r[1][i] = table[j]
    BY <1>0, <2>2, DropFacts
  <2>4. Len(r[1]) \in Nat /\ Len(r[1]) <= MaxApplications
    BY <1>0, <1>2, <2>3
  <2>5. table[p].fut \in DOMAIN future
    BY DEF ServerInvariant
  <2>6. /\ r[2] \in Seq(States) /\ Len(r[2]) = Len(future) /\ r[2][table[p].fut] # "run"
        /\ \A f \in DOMAIN future : r[2][f] = future[f] \/ (~Over(f) /\ r[2][f] = "stop")
    BY SMTT(30), <1>0, <2>2, <2>5 DEF Stopped, Over, States
  <2> QED
    BY <2>3, <2>4, <2>6
<1> QED
  BY <1>1, <1>2

\* A request for a scope that has an application.
LEMMA FoundKeeps ==
  ASSUME ServerTypeOK, ServerInvariant, NEW s \in Scopes, GetOrCreate(s), InTable(s) # {}
  PROVE  ServerTypeOK' /\ ServerInvariant'
<1>1. /\ table' = [i \in DOMAIN table |->
                     IF i \in InTable(s) THEN [table[i] EXCEPT !.used = clock] ELSE table[i]]
      /\ UNCHANGED <<future, overtaken, clock, scan, handling, checker>>
  BY DEF GetOrCreate
<1>2. /\ table \in Seq(Details) /\ DOMAIN table = 1..Len(table) /\ Len(table) \in Nat
      /\ clock \in 0..MaxClock /\ \A i \in DOMAIN table : table[i] \in Details
  BY DEF ServerTypeOK
<1>3. \A d \in Details : /\ [d EXCEPT !.used = clock] \in Details
                         /\ [d EXCEPT !.used = clock].scope = d.scope
                         /\ [d EXCEPT !.used = clock].fut = d.fut
  BY <1>2 DEF Details
<1>4. /\ DOMAIN table' = DOMAIN table
      /\ \A i \in DOMAIN table : /\ table'[i] \in Details /\ table'[i].scope = table[i].scope
                                 /\ table'[i].fut = table[i].fut
  BY <1>1, <1>2, <1>3
<1>5. table' \in Seq(Details) /\ Len(table') = Len(table)
  BY <1>1, <1>2, <1>4
<1>6. ServerTypeOK'
  BY <1>1, <1>5 DEF ServerTypeOK
<1>7. OneScope(table)'
  BY <1>4 DEF ServerInvariant, OneScope
<1>8. RunningIsKept'
  BY <1>1, <1>4 DEF ServerInvariant, RunningIsKept
<1> QED
  BY <1>1, <1>4, <1>5, <1>6, <1>7, <1>8 DEF ServerInvariant

\* A request that starts an application, in place of the oldest when there are too many.
LEMMA CreatedKeeps ==
  ASSUME ServerTypeOK, ServerInvariant, NEW s \in Scopes, GetOrCreate(s), InTable(s) = {}
  PROVE  ServerTypeOK' /\ ServerInvariant'
<1> DEFINE new == [scope |-> s, fut |-> Len(future) + 1, used |-> clock]
<1>1. /\ Free /\ Len(future) < MaxFutures
      /\ overtaken' = (IF handling = 0 THEN overtaken ELSE overtaken \cup {Len(future) + 1})
      /\ UNCHANGED <<clock, scan, handling, checker>>
  BY DEF GetOrCreate
<1>2. PICK r \in Reclaim(table, future) :
        future' = Append(r[2], "run") /\ table' = Append(r[1], new)
  BY DEF GetOrCreate
<1>3. /\ Among(r[1], table) /\ Len(r[1]) \in Nat /\ Len(r[1]) <= MaxApplications
      /\ r[2] \in Seq(States) /\ Len(r[2]) = Len(future)
      /\ \A f \in DOMAIN future : r[2][f] = future[f] \/ (~Over(f) /\ r[2][f] = "stop")
      /\ \A j \in DOMAIN table : \/ \E i \in DOMAIN r[1] : r[1][i] = table[j]
                                 \/ r[2][table[j].fut] # "run"
  BY <1>2, ReclaimFacts
<1>4. /\ Len(future) \in Nat /\ DOMAIN future = 1..Len(future) /\ MaxApplications \in Nat
      /\ MaxFutures \in Nat /\ DOMAIN table = 1..Len(table) /\ overtaken \subseteq 1..MaxFutures
      /\ clock \in 0..MaxClock /\ DOMAIN scan = 1..Len(scan)
  BY ServerAssumption DEF ServerTypeOK
<1>5. new \in Details /\ Len(future) + 1 \in 1..MaxFutures /\ "run" \in States
  BY <1>1, <1>4 DEF Details, States
<1>6. /\ table' \in Seq(Details) /\ Len(table') = Len(r[1]) + 1 /\ table'[Len(r[1]) + 1] = new
      /\ \A i \in 1..Len(r[1]) : table'[i] = r[1][i]
  BY <1>2, <1>3, <1>5, AppendFacts DEF Among
<1>7. /\ future' \in Seq(States) /\ Len(future') = Len(future) + 1
      /\ future'[Len(future) + 1] = "run"
      /\ \A f \in 1..Len(future) : future'[f] = r[2][f]
  <2>1. /\ Append(r[2], "run") \in Seq(States) /\ Len(Append(r[2], "run")) = Len(r[2]) + 1
        /\ Append(r[2], "run")[Len(r[2]) + 1] = "run"
        /\ \A f \in 1..Len(r[2]) : Append(r[2], "run")[f] = r[2][f]
    BY <1>3, <1>5, AppendFacts
  <2> QED
    BY <1>2, <1>3, <2>1
<1>8. /\ DOMAIN table' = 1..Len(r[1]) + 1 /\ DOMAIN r[1] = 1..Len(r[1])
      /\ DOMAIN future' = 1..Len(future) + 1
  BY <1>3, <1>6, <1>7 DEF Among
<1>9. \A i \in DOMAIN r[1] : \E j \in DOMAIN table : r[1][i] = table[j]
  BY <1>3 DEF Among
<1>10. \A i \in DOMAIN table' : \/ i = Len(r[1]) + 1 /\ table'[i] = new
                                \/ \E j \in DOMAIN table : table'[i] = table[j] /\ i \in 1..Len(r[1])
  <2>1. \A i \in DOMAIN table' : i = Len(r[1]) + 1 \/ i \in 1..Len(r[1])
    BY <1>3, <1>8
  <2> QED
    BY <1>6, <1>8, <1>9, <2>1
<1>11. \A j \in DOMAIN table : table[j].scope # s
  BY DEF InTable
<1>12. new.scope = s /\ new.fut = Len(future) + 1
  OBVIOUS
<1> HIDE DEF new
<1>13. ServerTypeOK'
  <2>1. overtaken' \subseteq 1..MaxFutures
    BY <1>1, <1>4, <1>5
  <2> QED
    BY <1>1, <1>6, <1>7, <2>1 DEF ServerTypeOK
<1>14. Len(table') <= MaxApplications + 1
  BY <1>3, <1>4, <1>6
<1>15. \A i \in DOMAIN table' : table'[i].fut \in DOMAIN future'
  <2>1. \A j \in DOMAIN table : table[j].fut \in 1..Len(future)
    BY <1>4 DEF ServerInvariant
  <2>2. Len(future) + 1 \in DOMAIN future' /\ \A f \in 1..Len(future) : f \in DOMAIN future'
    BY <1>4, <1>8
  <2> QED
    BY <1>10, <1>12, <2>1, <2>2
<1>16. \A i \in DOMAIN scan' : scan'[i].fut \in DOMAIN future'
  BY <1>1, <1>4, <1>8 DEF ServerInvariant
<1>17. OneScope(table)'
  <2>1. OneScope(r[1])
    BY <1>3 DEF Among, ServerInvariant
  <2> SUFFICES ASSUME NEW i \in DOMAIN table', NEW j \in DOMAIN table',
                      table'[i].scope = table'[j].scope
               PROVE  i = j
    BY DEF OneScope
  <2>2. CASE i \in 1..Len(r[1]) /\ j \in 1..Len(r[1])
    BY <1>6, <1>8, <2>1, <2>2 DEF OneScope
  <2> QED
    BY <1>10, <1>11, <1>12, <2>2
<1>18. handling' # 0 => scan' # <<>> /\ future'[Head(scan').fut] = "error"
  <2> SUFFICES ASSUME handling # 0 PROVE scan # <<>> /\ future'[Head(scan).fut] = "error"
    BY <1>1
  <2>1. scan # <<>> /\ future[Head(scan).fut] = "error"
    BY DEF ServerInvariant
  <2>2. Head(scan) = scan[1] /\ 1 \in DOMAIN scan
    BY <2>1 DEF ServerTypeOK
  <2>3. Head(scan).fut \in 1..Len(future)
    BY <1>4, <2>2 DEF ServerInvariant
  <2> QED
    BY <1>3, <1>4, <1>7, <2>1, <2>3 DEF Over
<1>19. \A i \in DOMAIN scan', j \in DOMAIN table' : scan'[i].scope = table'[j].scope =>
         table'[j].fut = scan'[i].fut \/ table'[j].fut \in overtaken'
  <2> SUFFICES ASSUME NEW i \in DOMAIN scan, NEW j \in DOMAIN table',
                      scan[i].scope = table'[j].scope
               PROVE  table'[j].fut = scan[i].fut \/ table'[j].fut \in overtaken'
    BY <1>1
  <2>1. CASE table'[j] = new
    <3>1. scan # <<>>
      BY DEF ServerTypeOK
    <3>2. handling # 0
      BY <1>1, <3>1 DEF Free
    <3> QED
      BY <1>1, <1>12, <2>1, <3>2
  <2>2. ASSUME NEW k \in DOMAIN table, table'[j] = table[k]
        PROVE  table'[j].fut = scan[i].fut \/ table'[j].fut \in overtaken'
    BY <1>1, <2>2 DEF ServerInvariant
  <2> QED
    BY <1>10, <2>1, <2>2
<1>20. RunningIsKept'
  <2> SUFFICES ASSUME NEW f \in DOMAIN future', future'[f] = "run", f \notin overtaken'
               PROVE  \E i \in DOMAIN table' : table'[i].fut = f
    BY DEF RunningIsKept
  <2>1. CASE f = Len(future) + 1
    BY <1>3, <1>6, <1>8, <1>12, <2>1
  <2>2. CASE f # Len(future) + 1
    <3>1. f \in 1..Len(future) /\ r[2][f] = "run"
      BY <1>4, <1>7, <1>8, <2>2
    <3>2. future[f] = "run" /\ f \notin overtaken /\ f \in DOMAIN future
      BY <1>1, <1>3, <1>4, <3>1
    <3>3. PICK j \in DOMAIN table : table[j].fut = f
      BY <3>2 DEF ServerInvariant, RunningIsKept
    <3>4. PICK i \in DOMAIN r[1] : r[1][i] = table[j]
      BY <1>3, <3>1, <3>3
    <3>5. i \in DOMAIN table' /\ table'[i] = table[j]
      BY <1>3, <1>6, <1>8, <3>4
    <3> QED
      BY <3>3, <3>5
  <2> QED
    BY <2>1, <2>2
<1> QED
  BY <1>13, <1>14, <1>15, <1>16, <1>17, <1>18, <1>19, <1>20 DEF ServerInvariant

\* An application that ends: what has ended stays as it is.
LEMMA EndsKeeps ==
  ASSUME ServerTypeOK, ServerInvariant, NEW f \in 1..MaxFutures, AppEnds(f)
  PROVE  ServerTypeOK' /\ ServerInvariant'
<1>1. /\ f \in DOMAIN future /\ future[f] \in {"run", "stop"}
      /\ \E x \in {"done", "error", "cancelled"} : future' = [future EXCEPT ![f] = x]
      /\ UNCHANGED <<table, clock, scan, handling, checker, overtaken>>
  BY DEF AppEnds
<1>2. future \in Seq(States)
  BY DEF ServerTypeOK
<1>3. /\ future' \in Seq(States) /\ DOMAIN future' = DOMAIN future
      /\ \A g \in DOMAIN future : future'[g] = future[g] \/ (g = f /\ future'[g] # "run")
  BY <1>1, <1>2 DEF States
<1>4. ServerTypeOK'
  BY <1>1, <1>3 DEF ServerTypeOK
<1>5. handling' # 0 => scan' # <<>> /\ future'[Head(scan').fut] = "error"
  <2> SUFFICES ASSUME handling # 0 PROVE scan # <<>> /\ future'[Head(scan).fut] = "error"
    BY <1>1
  <2>1. scan # <<>> /\ future[Head(scan).fut] = "error"
    BY DEF ServerInvariant
  <2>2. Head(scan) = scan[1] /\ 1 \in DOMAIN scan
    BY <2>1 DEF ServerTypeOK
  <2>3. Head(scan).fut \in DOMAIN future /\ Head(scan).fut # f
    BY <1>1, <2>1, <2>2 DEF ServerInvariant
  <2> QED
    BY <1>3, <2>1, <2>3
<1>6. RunningIsKept'
  BY <1>1, <1>3 DEF ServerInvariant, RunningIsKept
<1> QED
  BY <1>1, <1>3, <1>4, <1>5, <1>6 DEF ServerInvariant, OneScope

\* What the checker deletes: by the scope of the entry of its copy, which has ended.
LEMMA ForgetKeeps ==
  ASSUME ServerTypeOK, ServerInvariant, scan # <<>>, future[Head(scan).fut] \in {"done", "error"},
         table' = Without(table, Head(scan).scope), scan' = Tail(scan), handling' = 0,
         UNCHANGED <<future, clock, checker, overtaken>>
  PROVE  ServerTypeOK' /\ ServerInvariant'
<1> DEFINE e == Head(scan)
           w == Without(table, e.scope)
<1>1. /\ Among(w, table)
      /\ \A j \in DOMAIN table : table[j].scope # e.scope => \E i \in DOMAIN w : w[i] = table[j]
  BY WithoutFacts DEF ServerTypeOK
<1>2. table' = w
  OBVIOUS
<1> HIDE DEF w
<1>3. /\ scan \in Seq(Details) /\ e = scan[1] /\ 1 \in DOMAIN scan
      /\ scan' \in Seq(Details) /\ \A i \in DOMAIN scan' : i + 1 \in DOMAIN scan /\ scan'[i] = scan[i + 1]
  BY DEF ServerTypeOK
<1>4. ServerTypeOK'
  <2>1. handling' \in 0..MaxFutures
    BY ServerAssumption
  <2> QED
    BY <1>1, <1>2, <1>3, <2>1 DEF ServerTypeOK, Among
<1>5. \A i \in DOMAIN table' : \E j \in DOMAIN table : table'[i] = table[j]
  BY <1>1, <1>2 DEF Among
<1>6. /\ Len(table') <= MaxApplications + 1 /\ OneScope(table)'
      /\ \A i \in DOMAIN table' : table'[i].fut \in DOMAIN future'
  <2>1. Len(table') <= MaxApplications + 1
    <3>1. Len(w) \in Nat /\ Len(table) \in Nat /\ Len(w) <= Len(table)
      BY <1>1 DEF Among, ServerTypeOK
    <3> QED
      BY <1>2, <3>1, ServerAssumption DEF ServerInvariant
  <2>2. OneScope(table)'
    BY <1>1, <1>2 DEF Among, ServerInvariant, OneScope
  <2> QED
    BY <1>5, <2>1, <2>2 DEF ServerInvariant
<1>7. /\ \A i \in DOMAIN scan' : scan'[i].fut \in DOMAIN future'
      /\ \A i \in DOMAIN scan', j \in DOMAIN table' : scan'[i].scope = table'[j].scope =>
           table'[j].fut = scan'[i].fut \/ table'[j].fut \in overtaken'
  BY <1>3, <1>5 DEF ServerInvariant
<1>8. RunningIsKept'
  <2> SUFFICES ASSUME NEW f \in DOMAIN future, future[f] = "run", f \notin overtaken
               PROVE  \E i \in DOMAIN w : w[i].fut = f
    BY <1>2 DEF RunningIsKept
  <2>1. PICK j \in DOMAIN table : table[j].fut = f
    BY DEF ServerInvariant, RunningIsKept
  <2>2. table[j].scope # e.scope
    BY <1>3, <2>1 DEF ServerInvariant
  <2> QED
    BY <1>1, <2>1, <2>2
<1> QED
  BY <1>4, <1>6, <1>7, <1>8 DEF ServerInvariant

\* The checker's steps.
LEMMA CheckKeeps ==
  ASSUME ServerTypeOK, ServerInvariant, CheckBegin \/ CheckStep \/ Handled \/ Tick
  PROVE  ServerTypeOK' /\ ServerInvariant'
<1>1. CASE CheckBegin
  <2>1. scan' = table /\ handling = 0
        /\ UNCHANGED <<table, future, clock, handling, checker, overtaken>>
    BY <1>1 DEF CheckBegin
  <2>2. ServerTypeOK'
    BY <2>1 DEF ServerTypeOK
  <2>3. RunningIsKept' /\ OneScope(table)'
    BY <2>1 DEF ServerInvariant, RunningIsKept, OneScope
  <2> QED
    BY <2>1, <2>2, <2>3 DEF ServerInvariant, OneScope
<1>2. CASE CheckStep
  <2> DEFINE e == Head(scan)
  <2>1. scan # <<>> /\ handling = 0 /\ UNCHANGED <<future, clock, overtaken>>
    BY <1>2 DEF CheckStep
  <2>2. /\ scan \in Seq(Details) /\ e = scan[1] /\ 1 \in DOMAIN scan /\ e \in Details
        /\ Tail(scan) \in Seq(Details)
        /\ \A i \in DOMAIN Tail(scan) : i + 1 \in DOMAIN scan /\ Tail(scan)[i] = scan[i + 1]
    BY <2>1 DEF ServerTypeOK
  <2>3. CASE ~Over(e.fut) /\ scan' = Tail(scan) /\ UNCHANGED <<table, handling, checker>>
    <3>1. ServerTypeOK'
      BY <2>1, <2>2, <2>3 DEF ServerTypeOK
    <3>2. RunningIsKept' /\ OneScope(table)'
      BY <2>1, <2>3 DEF ServerInvariant, RunningIsKept, OneScope
    <3>3. \A i \in DOMAIN scan' : i + 1 \in DOMAIN scan /\ scan'[i] = scan[i + 1]
      BY <2>2, <2>3
    <3>4. /\ \A i \in DOMAIN scan' : scan'[i].fut \in DOMAIN future'
          /\ \A i \in DOMAIN scan', j \in DOMAIN table' : scan'[i].scope = table'[j].scope =>
               table'[j].fut = scan'[i].fut \/ table'[j].fut \in overtaken'
      <4> SUFFICES ASSUME NEW i \in DOMAIN scan'
                   PROVE  /\ scan'[i].fut \in DOMAIN future
                          /\ \A j \in DOMAIN table : scan'[i].scope = table[j].scope =>
                               table[j].fut = scan'[i].fut \/ table[j].fut \in overtaken
        BY <2>1, <2>3
      <4>1. i + 1 \in DOMAIN scan /\ scan'[i] = scan[i + 1]
        BY <3>3
      <4> HIDE DEF e
      <4> QED
        BY <4>1 DEF ServerInvariant
    <3>5. handling' = 0 /\ table' = table /\ future' = future
      BY <2>1, <2>3
    <3> QED
      BY <3>1, <3>2, <3>4, <3>5 DEF ServerInvariant
  <2>4. CASE /\ future[e.fut] = "done" /\ scan' = Tail(scan)
             /\ table' = Without(table, e.scope) /\ UNCHANGED <<handling, checker>>
    BY <2>1, <2>4, ForgetKeeps
  <2>5. CASE future[e.fut] = "error" /\ handling' = e.fut /\ UNCHANGED <<table, scan, checker>>
    <3>1. e.fut \in 0..MaxFutures
      BY <2>2, ServerAssumption DEF Details
    <3>2. ServerTypeOK'
      BY <2>1, <2>5, <3>1 DEF ServerTypeOK
    <3>3. RunningIsKept' /\ OneScope(table)'
      BY <2>1, <2>5 DEF ServerInvariant, RunningIsKept, OneScope
    <3> QED
      BY <2>1, <2>5, <3>2, <3>3 DEF ServerInvariant
  <2>6. CASE future[e.fut] = "cancelled" /\ checker' = "dead" /\ UNCHANGED <<table, scan, handling>>
    <3>1. ServerTypeOK'
      BY <2>1, <2>6 DEF ServerTypeOK
    <3>2. RunningIsKept' /\ OneScope(table)'
      BY <2>1, <2>6 DEF ServerInvariant, RunningIsKept, OneScope
    <3> QED
      BY <2>1, <2>6, <3>1, <3>2 DEF ServerInvariant
  <2> QED
    BY <1>2, <2>3, <2>4, <2>5, <2>6 DEF CheckStep
<1>3. CASE Handled
  <2>1. /\ scan # <<>> /\ future[Head(scan).fut] = "error"
        /\ handling' = 0 /\ scan' = Tail(scan) /\ table' = Without(table, Head(scan).scope)
        /\ UNCHANGED <<future, clock, checker, overtaken>>
    BY <1>3 DEF Handled, ServerInvariant
  <2> QED
    BY <2>1, ForgetKeeps
<1>4. CASE Tick
  <2>1. clock' \in 0..MaxClock /\ UNCHANGED <<table, future, scan, handling, checker, overtaken>>
    BY <1>4, ServerAssumption DEF Tick, ServerTypeOK
  <2>2. ServerTypeOK'
    BY <2>1 DEF ServerTypeOK
  <2>3. RunningIsKept' /\ OneScope(table)'
    BY <2>1 DEF ServerInvariant, RunningIsKept, OneScope
  <2> QED
    BY <2>1, <2>2, <2>3 DEF ServerInvariant
<1> QED
  BY <1>1, <1>2, <1>3, <1>4

\* An application that runs is in the table of StatelessServer, unless it was started
\* while the checker awaited application_exception: the checker deletes by scope what it
\* has seen under that scope, and delete_application_instance cancels what it deletes.
THEOREM RunningIsKeptCorrect == ServerSpec => []RunningIsKept
<1>1. ServerInit => ServerTypeOK /\ ServerInvariant
  <2> SUFFICES ASSUME ServerInit PROVE ServerTypeOK /\ ServerInvariant
    OBVIOUS
  <2>1. ServerTypeOK
    BY ServerAssumption DEF ServerInit, ServerTypeOK
  <2>2. Len(table) <= MaxApplications + 1
    BY ServerAssumption DEF ServerInit
  <2> QED
    BY <2>1, <2>2 DEF ServerInit, ServerInvariant, OneScope, RunningIsKept
<1>2. ServerTypeOK /\ ServerInvariant /\ [ServerStep]_serverVars => (ServerTypeOK /\ ServerInvariant)'
  <2> SUFFICES ASSUME ServerTypeOK, ServerInvariant, [ServerStep]_serverVars
               PROVE  ServerTypeOK' /\ ServerInvariant'
    OBVIOUS
  <2>1. CASE UNCHANGED serverVars
    BY <2>1 DEF serverVars, ServerTypeOK, ServerInvariant, OneScope, RunningIsKept
  <2> QED
    BY <2>1, FoundKeeps, CreatedKeeps, EndsKeeps, CheckKeeps DEF ServerStep
<1>3. ServerInvariant => RunningIsKept
  BY DEF ServerInvariant
<1> QED
  BY <1>1, <1>2, <1>3, PTL DEF ServerSpec

-----------------------------------------------------------------------------
(* asgiref: calls between threads and event loops *)

\* Every set of numbers that is not empty has a least one.
LEMMA LeastNumber ==
  ASSUME NEW T, T \subseteq Nat, T # {}
  PROVE  \E x \in T : \A y \in T : x <= y
<1> DEFINE R == OpToRel(<, Nat)
<1>1. \E x \in T : \A y \in T : ~(<<y, x>> \in R)
  <2>1. IsWellFoundedOn(R, Nat)
    BY NatLessThanWellFounded
  <2> HIDE DEF R
  <2> QED BY <2>1, WFMin
<1>2. PICK x \in T : \A y \in T : ~(<<y, x>> \in R)
  BY <1>1
<1>3. ASSUME NEW y \in T PROVE x <= y
  <2>1. x \in Nat /\ y \in Nat /\ ~(<<y, x>> \in R)
    BY <1>2
  <2> QED BY <2>1 DEF OpToRel
<1> QED BY <1>3

\* What holds for 0, and for a number when it holds for the one before, holds for all.
LEMMA AllNumbers ==
  ASSUME NEW T, 0 \in T, \A n \in Nat : n \in T => n + 1 \in T
  PROVE  Nat \subseteq T
<1> SUFFICES ASSUME Nat \ T # {}
             PROVE  FALSE
  OBVIOUS
<1>1. PICK x \in Nat \ T : \A y \in Nat \ T : x <= y
  <2>1. Nat \ T \subseteq Nat
    OBVIOUS
  <2> QED BY <2>1, LeastNumber
<1>2. x # 0 /\ x - 1 \in Nat /\ x - 1 + 1 = x
  OBVIOUS
<1>3. x - 1 \in T
  BY <1>1, <1>2
<1> QED
  BY <1>2, <1>3

\* one step of the search through the launch maps, by what the rest of it finds
Found(k, g) ==
  [o \in Objects |-> IF Leads(o) = NoThread THEN o ELSE IF k = 0 THEN NoThread ELSE g[Leads(o)]]
Search(g, k) == \A j \in 0..k : g[j] = Found(j, g[j - 1])

\* The search has as many steps as one likes.
LEMMA SearchExists == \A k \in Nat : \E g : Search(g, k)
<1> DEFINE T == {k \in Nat : \E g : Search(g, k)}
<1>1. 0 \in T
  <2> DEFINE g == [j \in {0} |-> Found(0, 0)]
  <2>1. Found(0, 0) = Found(0, g[0 - 1])
    BY DEF Found
  <2>2. g[0] = Found(0, 0)
    OBVIOUS
  <2> HIDE DEF g
  <2>3. Search(g, 0)
    BY <2>1, <2>2 DEF Search
  <2> QED BY <2>3
<1>2. ASSUME NEW n \in Nat, n \in T PROVE n + 1 \in T
  <2>1. PICK g : Search(g, n)
    BY <1>2
  <2> DEFINE h == [j \in 0..n + 1 |-> IF j = n + 1 THEN Found(n + 1, g[n]) ELSE g[j]]
  <2>2. ASSUME NEW j \in 0..n + 1 PROVE h[j] = Found(j, h[j - 1])
    <3>1. CASE j = n + 1
      <4>1. h[j - 1] = g[n] /\ h[j] = Found(n + 1, g[n])
        BY <3>1
      <4> QED BY <3>1, <4>1
    <3>2. CASE j # n + 1 /\ j # 0
      <4>1. j \in 0..n /\ h[j] = g[j] /\ h[j - 1] = g[j - 1]
        BY <3>2
      <4> QED BY <2>1, <4>1 DEF Search
    <3>3. CASE j = 0
      <4>1. 0 \in 0..n /\ h[j] = g[0]
        BY <3>3
      <4>2. g[0] = Found(0, g[0 - 1])
        BY <2>1, <4>1 DEF Search
      <4>3. Found(0, g[0 - 1]) = Found(0, h[j - 1])
        BY DEF Found
      <4> HIDE DEF h
      <4> QED BY <3>3, <4>1, <4>2, <4>3
    <3> QED BY <3>1, <3>2, <3>3
  <2>3. Search(h, n + 1)
    BY <2>2 DEF Search
  <2> QED BY <2>3
<1>3. Nat \subseteq T
  BY <1>1, <1>2, AllNumbers
<1> QED BY <1>3 DEF T

\* Two searches find the same.
LEMMA SearchUnique ==
  ASSUME NEW g, NEW h, NEW k \in Nat, Search(g, k), Search(h, k)
  PROVE  \A j \in 0..k : g[j] = h[j]
<1> DEFINE T == {j \in Nat : j <= k => g[j] = h[j]}
<1>1. 0 \in T
  <2>1. g[0] = Found(0, g[0 - 1]) /\ h[0] = Found(0, h[0 - 1])
    BY DEF Search
  <2>2. Found(0, g[0 - 1]) = Found(0, h[0 - 1])
    BY DEF Found
  <2> QED BY <2>1, <2>2
<1>2. ASSUME NEW n \in Nat, n \in T PROVE n + 1 \in T
  <2> SUFFICES ASSUME n + 1 <= k PROVE g[n + 1] = h[n + 1]
    OBVIOUS
  <2>1. g[n] = h[n] /\ n + 1 \in 0..k /\ (n + 1) - 1 = n
    BY <1>2
  <2>2. g[n + 1] = Found(n + 1, g[n])
    BY <2>1 DEF Search
  <2>3. h[n + 1] = Found(n + 1, h[n])
    BY <2>1 DEF Search
  <2> QED BY <2>1, <2>2, <2>3
<1>3. Nat \subseteq T
  BY <1>1, <1>2, AllNumbers
<1> QED BY <1>3 DEF T

\* The recursive function is one: its equation holds for every number.
LEMMA ResolveStep == \A k \in Nat : Resolve[k] = Found(k, Resolve[k - 1])
<1> DEFINE some(k) == CHOOSE g : Search(g, k)
           F == [k \in Nat |-> some(k)[k]]
<1>1. \A k \in Nat : Search(some(k), k)
  BY SearchExists
<1> HIDE DEF some
<1>2. ASSUME NEW k \in Nat PROVE F[k] = Found(k, F[k - 1])
  <2>1. CASE k = 0
    <3>1. Search(some(0), 0) /\ 0 \in 0..0
      BY <1>1
    <3>2. some(0)[0] = Found(0, some(0)[0 - 1])
      BY <3>1 DEF Search
    <3>3. Found(0, some(0)[0 - 1]) = Found(0, F[k - 1])
      BY DEF Found
    <3>4. F[k] = some(0)[0]
      BY <2>1
    <3> HIDE DEF F
    <3> QED BY <2>1, <3>2, <3>3, <3>4
  <2>2. CASE k # 0
    <3>1. k - 1 \in Nat /\ k \in 0..k /\ k - 1 \in 0..k - 1
      BY <2>2
    <3>2. some(k)[k] = Found(k, some(k)[k - 1])
      BY <1>1, <3>1 DEF Search
    <3>3. Search(some(k), k - 1) /\ Search(some(k - 1), k - 1)
      BY <1>1, <3>1 DEF Search
    <3>4. some(k)[k - 1] = some(k - 1)[k - 1]
      BY <3>1, <3>3, SearchUnique
    <3>5. F[k] = some(k)[k] /\ F[k - 1] = some(k - 1)[k - 1]
      BY <3>1
    <3> HIDE DEF F
    <3> QED BY <3>2, <3>4, <3>5
  <2> QED BY <2>1, <2>2
<1> HIDE DEF F
<1>3. F = [k \in Nat |-> Found(k, F[k - 1])]
  <2>1. F = [k \in Nat |-> F[k]]
    BY DEF F
  <2> QED BY <1>2, <2>1
<1>4. \E g : g = [k \in Nat |-> Found(k, g[k - 1])]
  BY <1>3
<1>5. Resolve = [k \in Nat |-> Found(k, Resolve[k - 1])]
  BY <1>4 DEF Resolve, Found
<1> QED BY <1>5
-----------------------------------------------------------------------------
Kinds == {"sync", "task"}
Up == {"run", "sched", "idle"}              \* a function that is on a stack
Busy == {"run", "await", "join", "block"}   \* a coroutine that was begun
FrameStates == {"new", "wait", "done"} \cup Up \cup Busy
Phases == {"none", "running", "gather", "ending", "closed"}
Called(n) == fr[n].link = "call"

FrameType ==
  [kind : Kinds, by : Loops, link : {"root", "call", "spawn"}, loop : Loops,
   thread : Threads \cup {NoThread}, above : SUBSET Ids, sens : BOOLEAN, st : FrameStates, sub : Loops,
   old : Loops, set : BOOLEAN, dead : BOOLEAN, ctx : Loops, used : BOOLEAN, entered : {0, 1}]

CallTypes ==
  /\ fr \in Seq(FrameType) /\ Len(fr) \in 1..MaxFrames
  /\ stack \in [Threads -> Seq(Ids)]
  /\ phase \in [Loops -> Phases]
  /\ q \in [Ids -> Seq(Loops)] /\ pool \in [Loops -> Seq(Ids)]
  /\ cur \in [Objects -> Loops]
  /\ a2s \in [Ids -> Threads \cup {NoThread}] /\ s2a \in [Threads -> Loops]
  /\ main \in [Threads -> {-1} \cup Loops] /\ owned \subseteq Ids

\* what a call is, from the moment it is made: where it hangs in the tree of calls, and that a
\* function of a thread-sensitive call shares its thread with the function further up
InTree(n) ==
  /\ n \in fr[n].above /\ fr[n].above \subseteq 1..n
  /\ \A c \in fr[n].above : fr[c].above \subseteq fr[n].above
  /\ \A c \in fr[n].above : c # n => \E g \in fr[n].above : Called(g) /\ fr[g].by = c
  /\ \E r \in fr[n].above : ~Called(r)
Linked(n) ==
  /\ Called(n) => /\ fr[n].by \in 1..n - 1 /\ fr[fr[n].by].kind # fr[n].kind
                  /\ fr[n].above = fr[fr[n].by].above \cup {n}
  /\ ~Called(n) => fr[n].above = {n}
  /\ fr[n].link = "root" => n = 1 /\ fr[n].by = 0 /\ fr[n].loop = 0 /\ fr[n].thread = Main
  /\ fr[n].link = "spawn" => fr[n].kind = "task"
Placed(n) ==
  /\ fr[n].sens => fr[n].kind = "sync"
  /\ fr[n].kind = "sync" => fr[n].thread \in Threads
  /\ fr[n].kind = "sync" /\ Called(n) =>
       IF ~fr[n].sens THEN fr[n].thread = <<"pool", n>>
       ELSE IF Called(fr[n].by) THEN fr[n].thread = fr[fr[fr[n].by].by].thread
       ELSE fr[n].thread \in {<<"single", 0>>} \cup {<<"context", c>> : c \in Ids}
Shape == \A n \in DOMAIN fr : InTree(n) /\ Linked(n) /\ Placed(n)

\* who waits for whom; what is "set" of a task was cancelled
WaitsOf(n) ==
  /\ fr[n].st \in IF fr[n].kind = "sync" THEN {"new", "done"} \cup Up ELSE {"new", "wait", "done"} \cup Busy
  /\ fr[n].kind = "sync" /\ fr[n].st = "new" => Called(n) /\ fr[fr[n].by].st = "await" /\ fr[fr[n].by].sub = n
  /\ fr[n].st \in {"sched", "idle"} =>
       /\ fr[n].sub \in DOMAIN fr /\ Called(fr[n].sub) /\ fr[fr[n].sub].by = n
       /\ fr[fr[n].sub].st = "wait" <=> fr[n].st = "sched"
  /\ fr[n].st = "wait" => Called(n)
  /\ fr[n].kind = "task" /\ Called(n) /\ fr[n].st # "done" =>
       fr[fr[n].by].st \in {"sched", "idle"} /\ fr[fr[n].by].sub = n
  /\ fr[n].kind = "sync" /\ Called(n) /\ fr[n].st # "done" =>
       \/ fr[fr[n].by].st = "done" \/ fr[fr[n].by].set
       \/ fr[fr[n].by].st = "await" /\ fr[fr[n].by].sub = n
  /\ fr[n].kind = "task" /\ fr[n].set => fr[n].st \in {"run", "join", "block", "done"}
  /\ fr[n].used => fr[n].kind = "task" /\ fr[n].st \notin {"new", "wait"}

Waits == \A n \in DOMAIN fr : WaitsOf(n)

\* the queue of an executor holds the end of its call, and calls of its call
ToldBy(e, m) ==
  IF m = 0 THEN e \in DOMAIN fr /\ fr[e].st = "done"
  ELSE m \in DOMAIN fr /\ fr[m].kind = "sync" /\ Called(m) /\ fr[m].sens /\ fr[m].by = e /\ e \in DOMAIN fr /\ Called(e)
Tells == \A e \in Ids : \A i \in 1..Len(q[e]) : ToldBy(e, q[e][i])

\* only a program that is a coroutine uses the threads of the process and of contexts itself
Pools == \A c \in Loops : \A i \in 1..Len(pool[c]) :
  LET m == pool[c][i]
  IN  /\ m \in DOMAIN fr /\ fr[m].kind = "sync" /\ Called(m) /\ fr[m].sens /\ ~Called(fr[m].by)
      /\ fr[m].thread = PoolThread(c)

Ends == \A l \in Ids : phase[l] \in {"gather", "ending", "closed"} => l \in DOMAIN fr /\ fr[l].st = "done"

\* on the stack of a thread each function but the last idles for a call that led to the next
\* one; the launch map has the task of the first
OnStack(t, i) ==
  LET f == stack[t][i]
      m == stack[t][i + 1]
  IN  /\ f \in DOMAIN fr /\ fr[f].kind = "sync" /\ fr[f].thread = t /\ fr[f].st \in Up
      /\ \A j \in 1..i - 1 : stack[t][j] < f
      /\ i = 1 => s2a[t] = fr[f].by /\ (Called(f) => fr[f].set /\ ~(fr[f].sens /\ Called(fr[f].by)))
      /\ i > 1 => ~fr[f].set
      /\ i < Len(stack[t]) => fr[f].st = "idle" /\ Called(m) /\ fr[f].sub = fr[m].by
Stacks ==
  /\ \A t \in Threads : Len(stack[t]) = 0 => s2a[t] = 0
  /\ \A t \in Threads : \A i \in 1..Len(stack[t]) : OnStack(t, i)
  /\ \A f \in DOMAIN fr : fr[f].kind = "sync" /\ fr[f].st \in Up =>
       \E i \in 1..Len(stack[fr[f].thread]) : stack[fr[f].thread][i] = f

\* the other launch map has the thread that called a task
Launched == \A n \in Ids :
  a2s[n] = IF n \in DOMAIN fr /\ fr[n].kind = "task" /\ Called(n) /\ fr[n].st \in Busy
           THEN fr[fr[n].by].thread ELSE NoThread

\* the object of a root, the frame of which work is asked next, and what applies to it
Obj(r) == IF fr[r].kind = "task" THEN Task(r) ELSE fr[r].thread
Frontier(n) == fr[n].st \in {"new", "wait", "run", "join", "block"}
Applies(n) == IF fr[n].kind = "task" THEN (IF Called(n) THEN n ELSE 0)
              ELSE IF Called(n) THEN (IF Called(fr[n].by) THEN fr[n].by ELSE 0) ELSE 0

\* executors.current is the executor of the innermost call above
Currents ==
  /\ \A n \in Ids \ DOMAIN fr : cur[Task(n)] = 0
  /\ \A n \in DOMAIN fr : Intact(n) /\ Frontier(n) => \A r \in fr[n].above : ~Called(r) => cur[Obj(r)] = Applies(n)
  /\ \A n \in DOMAIN fr : Intact(n) /\ fr[n].st \in {"sched", "idle"} => fr[n].old = Applies(n)

CallParts == CallTypes /\ Shape /\ Waits /\ Tells /\ Pools /\ Ends /\ Stacks /\ Launched /\ Currents
CallInv == Calm => CallParts

-----------------------------------------------------------------------------
\* what a frame keeps from the call on
SameCall(x, y) == /\ y.kind = x.kind /\ y.by = x.by /\ y.link = x.link /\ y.loop = x.loop
                  /\ y.thread = x.thread /\ y.above = x.above /\ y.sens = x.sens

\* A sequence changed at some of its places is a sequence of the same length.
LEMMA FrameSeq ==
  ASSUME NEW S, NEW s \in Seq(S), NEW r, r = [k \in DOMAIN s |-> r[k]], \A k \in DOMAIN s : r[k] \in S
  PROVE  r \in Seq(S) /\ Len(r) = Len(s) /\ DOMAIN r = DOMAIN s
<1>1. DOMAIN s = 1..Len(s) /\ Len(s) \in Nat
  OBVIOUS
<1>2. r \in [1..Len(s) -> S]
  BY <1>1
<1> QED BY <1>1, <1>2

\* the frame one longer
LEMMA FrameAppend ==
  ASSUME NEW S, NEW s \in Seq(S), NEW x \in S
  PROVE  LET r == Append(s, x)
         IN  /\ r \in Seq(S) /\ Len(r) = Len(s) + 1 /\ DOMAIN r = DOMAIN s \cup {Len(s) + 1}
             /\ \A k \in DOMAIN s : r[k] = s[k]
             /\ r[Len(s) + 1] = x /\ Len(s) + 1 \notin DOMAIN s
OBVIOUS

\* No step takes a call back, or makes it again what it was before it ended or was cancelled.
Grown == /\ fr' \in Seq(FrameType) /\ DOMAIN fr \subseteq DOMAIN fr'
         /\ \A k \in DOMAIN fr : SameCall(fr[k], fr'[k])
Added == DOMAIN fr' \ DOMAIN fr
Ahead == /\ Grown
         /\ \A k \in DOMAIN fr : /\ fr[k].st = "done" => fr'[k].st = "done"
                                 /\ fr[k].kind = "task" /\ fr[k].set => fr'[k].set

\* most steps add no call
Steady == /\ fr' \in Seq(FrameType) /\ Len(fr') = Len(fr) /\ DOMAIN fr' = DOMAIN fr
          /\ \A k \in DOMAIN fr : SameCall(fr[k], fr'[k])
Onward == /\ Steady
          /\ \A k \in DOMAIN fr : /\ fr[k].st = "done" => fr'[k].st = "done"
                                  /\ fr[k].kind = "task" /\ fr[k].set => fr'[k].set

\* A step that adds no call is one that adds none but adds to the calls.
LEMMA SteadyIsGrown ==
  /\ Steady => Grown /\ Added = {}
  /\ Onward => Ahead /\ Added = {}
BY DEF Steady, Onward, Grown, Ahead, Added

\* Frames are numbers up to the bound.
LEMMA FramesAreIds ==
  ASSUME CallTypes
  PROVE  /\ MaxFrames \in Nat /\ DOMAIN fr = 1..Len(fr) /\ Len(fr) \in Nat /\ DOMAIN fr \subseteq Ids
         /\ \A n \in DOMAIN fr : n \in Ids /\ n \in Nat /\ fr[n] \in FrameType
<1>1. fr \in Seq(FrameType) /\ Len(fr) \in Nat /\ Len(fr) <= MaxFrames /\ MaxFrames \in Nat
  BY CallAssumption DEF CallTypes
<1>2. DOMAIN fr = 1..Len(fr)
  BY <1>1
<1>3. \A n \in DOMAIN fr : fr[n] \in FrameType
  BY <1>1
<1> QED BY <1>1, <1>2, <1>3 DEF Ids

\* Where frame n hangs in the tree of calls.
LEMMA ShapeUses ==
  ASSUME CallTypes, Shape, NEW n \in DOMAIN fr
  PROVE  /\ DOMAIN fr = 1..Len(fr) /\ Len(fr) \in Nat /\ DOMAIN fr \subseteq Ids /\ n \in Ids
         /\ fr[n] \in FrameType
         /\ fr[n].above \subseteq DOMAIN fr /\ n \in fr[n].above
         /\ Called(n) => /\ fr[n].by \in DOMAIN fr /\ fr[n].by < n /\ fr[fr[n].by].kind # fr[n].kind
                         /\ fr[n].above = fr[fr[n].by].above \cup {n}
<1>1. DOMAIN fr = 1..Len(fr) /\ Len(fr) \in Nat /\ DOMAIN fr \subseteq Ids /\ n \in Ids
  BY FramesAreIds
<1>2. fr[n] \in FrameType
  BY FramesAreIds
<1>3. InTree(n) /\ Linked(n)
  BY DEF Shape
<1> QED BY <1>1, <1>2, <1>3 DEF InTree, Linked

\* Shape is about what a frame keeps.
LEMMA ShapeGrown ==
  ASSUME CallTypes, Shape, Grown, \A e \in Added : (InTree(e) /\ Linked(e) /\ Placed(e))'
  PROVE  Shape'
<1> SUFFICES ASSUME NEW n \in DOMAIN fr
             PROVE  InTree(n)' /\ Linked(n)' /\ Placed(n)'
  BY DEF Shape, Grown, Added
<1>0. DOMAIN fr = 1..Len(fr) /\ Len(fr) \in Nat
  BY DEF CallTypes
<1>1. \A k \in DOMAIN fr : SameCall(fr[k], fr'[k])
  BY DEF Grown
<1>2. InTree(n) /\ Linked(n) /\ Placed(n)
  BY DEF Shape
<1>3. fr[n].above \subseteq DOMAIN fr
  BY <1>0, <1>2 DEF InTree
<1>4. Called(n) => fr[n].by \in DOMAIN fr /\ (Called(fr[n].by) => fr[fr[n].by].by \in DOMAIN fr)
  BY <1>0 DEF Shape, Linked
<1>5. SameCall(fr[n], fr'[n])
  BY <1>1
<1>6. n \in fr'[n].above /\ fr'[n].above \subseteq 1..n
  BY <1>2, <1>5 DEF InTree, SameCall
<1>7. \A c \in fr'[n].above : fr'[c].above \subseteq fr'[n].above
  BY <1>1, <1>2, <1>3, <1>5 DEF InTree, SameCall
<1>8. ASSUME NEW c \in fr'[n].above, c # n
      PROVE  \E g \in fr'[n].above : fr'[g].link = "call" /\ fr'[g].by = c
  <2>1. c \in fr[n].above
    BY <1>5 DEF SameCall
  <2>2. PICK g \in fr[n].above : Called(g) /\ fr[g].by = c
    BY <1>2, <1>8, <2>1 DEF InTree
  <2>3. g \in fr'[n].above /\ fr'[g].link = "call" /\ fr'[g].by = c
    BY <1>1, <1>3, <1>5, <2>2 DEF SameCall, Called
  <2> QED BY <2>3
<1>9. \E r \in fr'[n].above : ~(fr'[r].link = "call")
  BY <1>1, <1>2, <1>3, <1>5 DEF InTree, SameCall, Called
<1>10. InTree(n)'
  BY <1>6, <1>7, <1>8, <1>9 DEF InTree, Called
<1>11. Linked(n)'
  BY <1>1, <1>2, <1>4, <1>5 DEF Linked, SameCall, Called
<1>12. Placed(n)'
  BY <1>1, <1>2, <1>4, <1>5 DEF Placed, SameCall, Called
<1> QED BY <1>10, <1>11, <1>12

LEMMA ShapeKept == ASSUME CallTypes, Shape, Steady PROVE Shape'
BY ShapeGrown, SteadyIsGrown

\* A call that is intact after a step was so before.
LEMMA IntactBefore ==
  ASSUME CallTypes, Shape, Ahead, NEW n \in DOMAIN fr, Intact(n)'
  PROVE  Intact(n)
<1>1. fr[n].above \subseteq DOMAIN fr
  BY ShapeUses
<1>2. SameCall(fr[n], fr'[n]) /\ \A k \in DOMAIN fr : SameCall(fr[k], fr'[k])
  BY DEF Ahead, Grown
<1>3. fr'[n].above = fr[n].above
  BY <1>2 DEF SameCall
<1>4. ASSUME NEW m \in fr[n].above
      PROVE  fr[m].st # "done" /\ (fr[m].kind = "task" => ~fr[m].set)
  <2>1. m \in DOMAIN fr /\ m \in fr'[n].above
    BY <1>1, <1>3
  <2>2. fr'[m].st # "done" /\ (fr'[m].kind = "task" => ~fr'[m].set)
    BY <2>1 DEF Intact, Attached
  <2> QED BY <1>2, <2>1, <2>2 DEF Ahead, SameCall
<1> QED BY <1>4 DEF Intact, Attached

\* What applies to a frame stays the same.
LEMMA SameApplies ==
  ASSUME CallTypes, Shape, Grown, NEW n \in DOMAIN fr
  PROVE  Applies(n)' = Applies(n)
<1>1. SameCall(fr[n], fr'[n]) /\ \A k \in DOMAIN fr : SameCall(fr[k], fr'[k])
  BY DEF Grown
<1>2. Called(n) => fr[n].by \in DOMAIN fr
  BY ShapeUses
<1> QED BY <1>1, <1>2 DEF Applies, Called, SameCall

\* executors.current is right after a step that does not set it, if it is so for the new frames.
LEMMA CurrentsGrown ==
  ASSUME CallTypes, Shape, Currents, Ahead, cur' = cur,
         \A k \in DOMAIN fr : /\ Frontier(k)' /\ ~(fr'[k].kind = "task" /\ fr'[k].set) => Frontier(k)
                              /\ fr'[k].st \in {"sched", "idle"} => fr[k].st \in {"sched", "idle"} /\ fr'[k].old = fr[k].old,
         \A k \in Added : /\ fr'[k].st \notin {"sched", "idle"}
                          /\ Intact(k)' => \A r \in fr'[k].above : ~Called(r)' => cur[Obj(r)'] = Applies(k)'
  PROVE  Currents'
<1>1. DOMAIN fr \subseteq DOMAIN fr' /\ \A k \in DOMAIN fr : SameCall(fr[k], fr'[k])
  BY DEF Ahead, Grown
<1>2. \A n \in Ids \ DOMAIN fr' : cur'[Task(n)] = 0
  BY <1>1 DEF Currents
<1>3. ASSUME NEW n \in DOMAIN fr PROVE Applies(n)' = Applies(n)
  BY SameApplies DEF Ahead
<1>4. ASSUME NEW n \in DOMAIN fr, Intact(n)', Frontier(n)', NEW r \in fr'[n].above, ~Called(r)'
      PROVE  cur'[Obj(r)'] = Applies(n)'
  <2>1. Intact(n)
    BY <1>4, IntactBefore
  <2>2. n \in fr'[n].above /\ r \in fr[n].above /\ r \in DOMAIN fr
    BY <1>1, ShapeUses DEF SameCall
  <2>3. ~(fr'[n].kind = "task" /\ fr'[n].set)
    BY <1>4, <2>2 DEF Intact
  <2>4. Frontier(n) /\ ~Called(r) /\ Obj(r)' = Obj(r)
    BY <1>1, <1>4, <2>2, <2>3 DEF Called, SameCall, Obj
  <2>5. cur[Obj(r)] = Applies(n)
    BY <2>1, <2>2, <2>4 DEF Currents
  <2> QED BY <1>3, <2>4, <2>5
<1>5. ASSUME NEW n \in DOMAIN fr, Intact(n)', fr'[n].st \in {"sched", "idle"}
      PROVE  fr'[n].old = Applies(n)'
  <2>1. Intact(n)
    BY <1>5, IntactBefore
  <2> QED BY <1>3, <1>5, <2>1 DEF Currents
<1>6. ASSUME NEW n \in DOMAIN fr', Intact(n)', Frontier(n)', NEW r \in fr'[n].above, ~Called(r)'
      PROVE  cur'[Obj(r)'] = Applies(n)'
  <2>1. CASE n \in DOMAIN fr
    BY <1>4, <1>6, <2>1
  <2>2. CASE n \in Added
    BY <1>6, <2>2
  <2> QED BY <2>1, <2>2 DEF Added
<1>7. ASSUME NEW n \in DOMAIN fr', Intact(n)', fr'[n].st \in {"sched", "idle"}
      PROVE  fr'[n].old = Applies(n)'
  BY <1>5, <1>7 DEF Added
<1> QED BY <1>2, <1>6, <1>7 DEF Currents

LEMMA CurrentsKept ==
  ASSUME CallTypes, Shape, Currents, Onward, cur' = cur,
         \A k \in DOMAIN fr : /\ Frontier(k)' /\ ~(fr'[k].kind = "task" /\ fr'[k].set) => Frontier(k)
                              /\ fr'[k].st \in {"sched", "idle"} => fr[k].st \in {"sched", "idle"} /\ fr'[k].old = fr[k].old
  PROVE  Currents'
<1>1. Ahead /\ Added = {}
  BY SteadyIsGrown
<1>2. \A k \in Added : /\ fr'[k].st \notin {"sched", "idle"}
                       /\ Intact(k)' => \A r \in fr'[k].above : ~Called(r)' => cur[Obj(r)'] = Applies(k)'
  BY <1>1
<1> QED BY <1>1, <1>2, CurrentsGrown

\* The stacks are right after a step that leaves them and the functions on them as they are.
LEMMA StacksGrown ==
  ASSUME CallTypes, Shape, Stacks, Grown, stack' = stack, s2a' = s2a,
         \A k \in DOMAIN fr : fr[k].kind = "sync" =>
           /\ fr'[k].set = fr[k].set /\ (fr'[k].st \in Up <=> fr[k].st \in Up)
           /\ fr[k].st = "idle" => \/ fr'[k].st = "idle" /\ fr'[k].sub = fr[k].sub
                                  \/ stack[fr[k].thread][Len(stack[fr[k].thread])] = k,
         \A k \in Added : fr'[k].kind = "sync" => fr'[k].st \notin Up
  PROVE  Stacks'
<1>1. DOMAIN fr \subseteq DOMAIN fr' /\ \A k \in DOMAIN fr : SameCall(fr[k], fr'[k])
  BY DEF Grown
<1>2. ASSUME NEW t \in Threads, NEW i \in 1..Len(stack[t])
      PROVE  OnStack(t, i)'
  <2> DEFINE f == stack[t][i]
             m == stack[t][i + 1]
  <2>1. OnStack(t, i) /\ Len(stack[t]) \in Nat
    BY <1>2 DEF Stacks, CallTypes
  <2>2. f \in DOMAIN fr /\ fr[f].kind = "sync" /\ SameCall(fr[f], fr'[f]) /\ (Called(f) => fr[f].by \in DOMAIN fr)
    BY <1>1, <2>1, ShapeUses DEF OnStack
  <2>3. i < Len(stack[t]) => m \in DOMAIN fr /\ SameCall(fr[m], fr'[m])
    <3>1. i < Len(stack[t]) => i + 1 \in 1..Len(stack[t])
      BY <2>1
    <3>2. i < Len(stack[t]) => OnStack(t, i + 1)
      BY <3>1 DEF Stacks
    <3> QED BY <1>1, <3>2 DEF OnStack
  <2>4. (Called(f) => fr'[f].link = "call") /\ (fr'[f].link = "call" => Called(f))
        /\ (Called(f) => (fr'[fr'[f].by].link = "call" => Called(fr[f].by)))
    BY <1>1, <2>2 DEF SameCall, Called
  <2>5. f \in DOMAIN fr' /\ fr'[f].kind = "sync" /\ fr'[f].thread = t /\ fr'[f].st \in Up
        /\ \A j \in 1..i - 1 : stack[t][j] < f
    BY <1>1, <2>1, <2>2 DEF SameCall, OnStack
  <2>6. i = 1 => s2a'[t] = fr'[f].by /\ (fr'[f].link = "call" => fr'[f].set /\ ~(fr'[f].sens /\ fr'[fr'[f].by].link = "call"))
    BY <2>1, <2>2, <2>4 DEF SameCall, OnStack
  <2>7. i > 1 => ~fr'[f].set
    BY <2>1, <2>2 DEF OnStack
  <2>8. i < Len(stack[t]) => fr'[f].st = "idle" /\ fr'[m].link = "call" /\ fr'[f].sub = fr'[m].by
    <3> SUFFICES ASSUME i < Len(stack[t])
                 PROVE  fr'[f].st = "idle" /\ fr'[m].link = "call" /\ fr'[f].sub = fr'[m].by
      OBVIOUS
    <3>1. Len(stack[t]) \in 1..Len(stack[t]) /\ i \in 1..Len(stack[t]) - 1
      BY <2>1
    <3>2. OnStack(t, Len(stack[t]))
      BY <3>1 DEF Stacks
    <3>3. f < stack[t][Len(stack[t])] /\ f \in Nat
      BY <2>2, <3>1, <3>2, FramesAreIds DEF OnStack
    <3>4. f # stack[t][Len(stack[t])]
      BY <3>3
    <3>5. fr[f].st = "idle" /\ fr[f].thread = t /\ Called(m) /\ fr[f].sub = fr[m].by
      BY <2>1 DEF OnStack
    <3> QED BY <2>2, <2>3, <3>4, <3>5 DEF SameCall, Called
  <2> HIDE DEF f, m
  <2>9. stack'[t][i] = f /\ stack'[t][i + 1] = m /\ stack'[t] = stack[t]
    BY DEF f, m
  <2> QED BY <2>5, <2>6, <2>7, <2>8, <2>9 DEF OnStack, Called
<1>3. \A t \in Threads : Len(stack'[t]) = 0 => s2a'[t] = 0
  BY DEF Stacks
<1>4. ASSUME NEW f \in DOMAIN fr', fr'[f].kind = "sync", fr'[f].st \in Up
      PROVE  \E i \in 1..Len(stack'[fr'[f].thread]) : stack'[fr'[f].thread][i] = f
  <2>1. f \in DOMAIN fr
    BY <1>4 DEF Added
  <2> QED BY <1>1, <1>4, <2>1 DEF Stacks, SameCall
<1> QED BY <1>2, <1>3, <1>4 DEF Stacks

LEMMA StacksKept ==
  ASSUME CallTypes, Shape, Stacks, Steady, stack' = stack, s2a' = s2a,
         \A k \in DOMAIN fr : fr[k].kind = "sync" =>
           /\ fr'[k].set = fr[k].set /\ (fr'[k].st \in Up <=> fr[k].st \in Up)
           /\ fr[k].st = "idle" => fr'[k].st = "idle" /\ fr'[k].sub = fr[k].sub
  PROVE  Stacks'
BY StacksGrown, SteadyIsGrown

\* The launch map of AsyncToSync is right after a step that begins and ends no coroutine.
LEMMA LaunchedGrown ==
  ASSUME CallTypes, Shape, Launched, Grown, a2s' = a2s,
         \A k \in DOMAIN fr : fr[k].kind = "task" /\ Called(k) => (fr'[k].st \in Busy <=> fr[k].st \in Busy),
         \A k \in Added : fr'[k].st \notin Busy \/ fr'[k].kind # "task"
  PROVE  Launched'
<1>1. DOMAIN fr \subseteq DOMAIN fr' /\ \A k \in DOMAIN fr : SameCall(fr[k], fr'[k])
  BY DEF Grown
<1>2. \A k \in DOMAIN fr : Called(k) => fr[k].by \in DOMAIN fr
  BY ShapeUses
<1> QED BY <1>1, <1>2 DEF Launched, SameCall, Called, Added

LEMMA LaunchedKept ==
  ASSUME CallTypes, Shape, Launched, Steady, a2s' = a2s,
         \A k \in DOMAIN fr : fr[k].kind = "task" /\ Called(k) => (fr'[k].st \in Busy <=> fr[k].st \in Busy)
  PROVE  Launched'
BY LaunchedGrown, SteadyIsGrown

\* What is in a queue stays true of it.
LEMMA TellsGrown ==
  ASSUME CallTypes, Tells, Ahead,
         \A e \in Ids : \A i \in 1..Len(q'[e]) :
           \/ \E j \in 1..Len(q[e]) : q'[e][i] = q[e][j]
           \/ q'[e][i] = 0 /\ e \in DOMAIN fr' /\ fr'[e].st = "done"
           \/ /\ q'[e][i] # 0 /\ q'[e][i] \in DOMAIN fr' /\ fr'[q'[e][i]].kind = "sync" /\ fr'[q'[e][i]].link = "call"
              /\ fr'[q'[e][i]].sens /\ fr'[q'[e][i]].by = e /\ e \in DOMAIN fr' /\ fr'[e].link = "call"
  PROVE  Tells'
<1>1. DOMAIN fr \subseteq DOMAIN fr' /\ \A k \in DOMAIN fr : SameCall(fr[k], fr'[k])
  BY DEF Ahead, Grown
<1>2. ASSUME NEW e \in Ids, NEW i \in 1..Len(q'[e]) PROVE ToldBy(e, q[e][i])'
  <2>1. CASE \E j \in 1..Len(q[e]) : q'[e][i] = q[e][j]
    <3>1. PICK j \in 1..Len(q[e]) : q'[e][i] = q[e][j]
      BY <2>1
    <3>2. ToldBy(e, q[e][j])
      BY DEF Tells
    <3>3. e \in DOMAIN fr => SameCall(fr[e], fr'[e]) /\ (fr[e].st = "done" => fr'[e].st = "done")
      BY <1>1 DEF Ahead
    <3>4. q[e][j] \in DOMAIN fr => SameCall(fr[q[e][j]], fr'[q[e][j]])
      BY <1>1
    <3> QED BY <1>1, <3>1, <3>2, <3>3, <3>4 DEF ToldBy, SameCall, Called
  <2>2. CASE ~\E j \in 1..Len(q[e]) : q'[e][i] = q[e][j]
    BY <1>2, <2>2 DEF ToldBy, Called
  <2> QED BY <2>1, <2>2
<1> QED BY <1>2 DEF Tells

\* What comes into a queue is the end of its call.
LEMMA TellsMore ==
  ASSUME CallTypes, Tells, Onward,
         \A e \in Ids : \A i \in 1..Len(q'[e]) :
           \/ \E j \in 1..Len(q[e]) : q'[e][i] = q[e][j]
           \/ q'[e][i] = 0 /\ e \in DOMAIN fr /\ fr'[e].st = "done"
  PROVE  Tells'
<1>1. Ahead /\ DOMAIN fr \subseteq DOMAIN fr'
  BY SteadyIsGrown DEF Ahead, Grown
<1> QED BY <1>1, TellsGrown

LEMMA TellsKept == ASSUME CallTypes, Tells, Onward, q' = q PROVE Tells'
BY TellsMore

\* What is in a queue that one element was put to.
LEMMA QueueMore ==
  ASSUME NEW S, NEW s \in Seq(S), NEW x \in S
  PROVE  /\ Append(s, x) \in Seq(S)
         /\ \A i \in 1..Len(Append(s, x)) : Append(s, x)[i] = x \/ (i \in 1..Len(s) /\ Append(s, x)[i] = s[i])
OBVIOUS

\* What is in a queue that one element was taken from.
LEMMA QueueLess ==
  ASSUME NEW S, NEW s \in Seq(S), s # <<>>
  PROVE  /\ Tail(s) \in Seq(S) /\ Head(s) = s[1] /\ 1 \in 1..Len(s) /\ Head(s) \in S
         /\ \A i \in 1..Len(Tail(s)) : i + 1 \in 1..Len(s) /\ Tail(s)[i] = s[i + 1]
OBVIOUS

\* What is in the queue of a thread stays true of it.
LEMMA PoolsGrown ==
  ASSUME CallTypes, Shape, Pools, Grown,
         \A c \in Loops : \A i \in 1..Len(pool'[c]) :
           \/ \E j \in 1..Len(pool[c]) : pool'[c][i] = pool[c][j]
           \/ /\ pool'[c][i] \in DOMAIN fr' /\ fr'[pool'[c][i]].kind = "sync" /\ fr'[pool'[c][i]].link = "call"
              /\ fr'[pool'[c][i]].sens /\ fr'[fr'[pool'[c][i]].by].link # "call" /\ fr'[pool'[c][i]].thread = PoolThread(c)
  PROVE  Pools'
<1>1. DOMAIN fr \subseteq DOMAIN fr' /\ \A k \in DOMAIN fr : SameCall(fr[k], fr'[k])
  BY DEF Grown
<1>2. \A k \in DOMAIN fr : Called(k) => fr[k].by \in DOMAIN fr
  BY ShapeUses
<1>3. ASSUME NEW c \in Loops, NEW i \in 1..Len(pool'[c]), NEW m, m = pool'[c][i]
      PROVE  /\ m \in DOMAIN fr' /\ fr'[m].kind = "sync" /\ fr'[m].link = "call" /\ fr'[m].sens
             /\ fr'[fr'[m].by].link # "call" /\ fr'[m].thread = PoolThread(c)
  <2>1. CASE \E j \in 1..Len(pool[c]) : m = pool[c][j]
    <3>1. PICK j \in 1..Len(pool[c]) : m = pool[c][j]
      BY <2>1
    <3>2. m \in DOMAIN fr /\ fr[m].kind = "sync" /\ Called(m) /\ fr[m].sens /\ ~Called(fr[m].by) /\ fr[m].thread = PoolThread(c)
      BY <3>1 DEF Pools
    <3>3. SameCall(fr[m], fr'[m]) /\ fr[m].by \in DOMAIN fr /\ SameCall(fr[fr[m].by], fr'[fr[m].by])
      BY <1>1, <1>2, <3>2
    <3> QED BY <1>1, <3>2, <3>3 DEF SameCall, Called
  <2>2. CASE ~\E j \in 1..Len(pool[c]) : m = pool[c][j]
    BY <1>3, <2>2
  <2> QED BY <2>1, <2>2
<1> QED BY <1>3 DEF Pools, Called

LEMMA PoolsKept == ASSUME CallTypes, Shape, Pools, Steady, pool' = pool PROVE Pools'
<1>1. Grown
  BY SteadyIsGrown
<1> QED BY <1>1, PoolsGrown

\* The loops that have ended stay so.
LEMMA EndsGrown == ASSUME Ends, Ahead, phase' = phase PROVE Ends'
BY DEF Ends, Ahead, Grown

LEMMA EndsKept == ASSUME Ends, Onward, phase' = phase PROVE Ends'
BY EndsGrown, SteadyIsGrown

\* A step that changes one frame and nothing a call keeps.
LEMMA SetFrame ==
  ASSUME CallTypes, NEW n \in DOMAIN fr, NEW v \in FrameType, SameCall(fr[n], v), fr' = [fr EXCEPT ![n] = v]
  PROVE  Steady /\ \A k \in DOMAIN fr : fr'[k] = IF k = n THEN v ELSE fr[k]
<1>1. \A k \in DOMAIN fr : fr'[k] = IF k = n THEN v ELSE fr[k]
  OBVIOUS
<1>2. fr' = [k \in DOMAIN fr |-> fr'[k]]
  OBVIOUS
<1>3. \A k \in DOMAIN fr : fr'[k] \in FrameType
  BY <1>1, FramesAreIds
<1>4. fr \in Seq(FrameType)
  BY DEF CallTypes
<1>5. fr' \in Seq(FrameType) /\ Len(fr') = Len(fr) /\ DOMAIN fr' = DOMAIN fr
  BY <1>2, <1>3, <1>4, FrameSeq
<1>6. \A k \in DOMAIN fr : SameCall(fr[k], fr'[k])
  BY <1>1 DEF SameCall
<1> QED BY <1>1, <1>5, <1>6 DEF Steady

\* A task that goes on by itself: only its own state changes.
LEMMA QuietKeeps ==
  ASSUME CallParts, NEW n \in DOMAIN fr, NEW v \in FrameType, SameCall(fr[n], v), fr' = [fr EXCEPT ![n] = v],
         fr[n].kind = "task", {fr[n].st, v.st} \subseteq {"run", "join", "block"}, v.set = fr[n].set,
         UNCHANGED <<stack, phase, q, pool, cur, a2s, s2a, main, owned>>
  PROVE  CallParts'
<1> USE DEF CallParts
<1>1. Steady /\ \A k \in DOMAIN fr : fr'[k] = IF k = n THEN v ELSE fr[k]
  BY SetFrame
<1>2. DOMAIN fr' = DOMAIN fr /\ \A k \in DOMAIN fr : SameCall(fr[k], fr'[k])
  BY <1>1 DEF Steady
<1>3. Onward
  BY <1>1 DEF Onward
<1>4. CallTypes'
  BY <1>1 DEF CallTypes, Steady
<1>5. Shape'
  BY <1>1, ShapeKept
<1>6. ASSUME NEW k \in DOMAIN fr PROVE WaitsOf(k)'
  <2>1. WaitsOf(k)
    BY DEF Waits
  <2>2. Called(k) => fr[k].by \in DOMAIN fr /\ fr[fr[k].by].kind # fr[k].kind
    BY ShapeUses
  <2>3. SameCall(fr[k], fr'[k])
    BY <1>2
  <2> QED BY <1>1, <1>2, <2>1, <2>2, <2>3 DEF WaitsOf, Called, SameCall, Up, Busy
<1>7. Waits'
  BY <1>2, <1>6 DEF Waits
<1>8. Tells' /\ Pools' /\ Ends'
  BY <1>1, <1>3, TellsKept, PoolsKept, EndsKept
<1>9. Stacks'
  BY <1>1, StacksKept
<1>10. Launched'
  BY <1>1, LaunchedKept DEF Busy
<1>11. Currents'
  BY <1>1, <1>3, CurrentsKept DEF Frontier
<1> QED BY <1>4, <1>5, <1>7, <1>8, <1>9, <1>10, <1>11

\* The invariant, one action after the other.
LEMMA JoinKeeps == ASSUME CallParts, NEW n \in Ids, Join(n) PROVE CallParts'
<1> DEFINE s == IF fr[n].st = "join" THEN "run" ELSE "join"
           b == IF fr[n].st = "join" THEN 0 ELSE fr[n].sub
           v == [fr[n] EXCEPT !.st = s, !.sub = b]
<1>1. n \in DOMAIN fr /\ fr[n].kind = "task" /\ fr[n].st \in {"run", "join"}
  BY DEF Join, Running
<1>2. fr[n] \in FrameType /\ 0 \in Loops
  BY <1>1, FramesAreIds DEF CallParts, Loops
<1>3. s \in FrameStates /\ b \in Loops
  BY <1>2 DEF FrameStates, Up, Busy, FrameType
<1>4. v \in FrameType /\ SameCall(fr[n], v) /\ v.st = s /\ v.set = fr[n].set
  BY <1>2, <1>3 DEF FrameType, SameCall
<1>5. fr' = [fr EXCEPT ![n] = v]
  <2>1. CASE fr[n].st = "join"
    <3>1. fr' = [fr EXCEPT ![n].st = "run", ![n].sub = 0]
      BY <2>1 DEF Join, Running
    <3> QED BY <2>1, <3>1
  <2>2. CASE fr[n].st = "run"
    <3>1. fr' = [fr EXCEPT ![n].st = "join"]
      BY <2>2 DEF Join
    <3>2. [fr[n] EXCEPT !.st = "join"] = [fr[n] EXCEPT !.st = "join", !.sub = fr[n].sub]
      BY <1>2 DEF FrameType
    <3>3. v = [fr[n] EXCEPT !.st = "join"]
      BY <2>2, <3>2
    <3> QED BY <3>1, <3>3
  <2> QED BY <1>1, <2>1, <2>2
<1>6. UNCHANGED <<stack, phase, q, pool, cur, a2s, s2a, main, owned>>
  BY DEF Join
<1>7. {fr[n].st, v.st} \subseteq {"run", "join", "block"}
  BY <1>1, <1>4
<1> HIDE DEF v
<1> QED BY <1>1, <1>4, <1>5, <1>6, <1>7, QuietKeeps

LEMMA EnterContextKeeps == ASSUME CallParts, NEW n \in Ids, EnterContext(n) PROVE CallParts'
<1> DEFINE v == [fr[n] EXCEPT !.ctx = n, !.used = TRUE, !.entered = 1]
<1>1. n \in DOMAIN fr /\ fr[n].kind = "task" /\ fr[n].st = "run"
  BY DEF EnterContext, Running
<1>2. fr[n] \in FrameType /\ n \in Loops /\ TRUE \in BOOLEAN /\ 1 \in {0, 1}
  BY <1>1, FramesAreIds DEF CallParts, Loops, Ids
<1>3. v \in FrameType /\ SameCall(fr[n], v) /\ v.st = fr[n].st /\ v.set = fr[n].set
  BY <1>2 DEF FrameType, SameCall
<1>4. fr' = [fr EXCEPT ![n] = v] /\ UNCHANGED <<stack, phase, q, pool, cur, a2s, s2a, main, owned>>
  BY DEF EnterContext
<1>5. {fr[n].st, v.st} \subseteq {"run", "join", "block"}
  BY <1>1, <1>3
<1> HIDE DEF v
<1> QED BY <1>1, <1>3, <1>4, <1>5, QuietKeeps

LEMMA ExitContextKeeps == ASSUME CallParts, NEW n \in Ids, ExitContext(n) PROVE CallParts'
<1>1. n \in DOMAIN fr /\ fr[n].kind = "task" /\ fr[n].st = "run"
  BY DEF ExitContext, Running, CallParts, Waits, WaitsOf
<1>2. fr[n] \in FrameType /\ 0 \in Loops
  BY <1>1, FramesAreIds DEF CallParts, Loops
<1>3. UNCHANGED <<stack, phase, q, pool, cur, a2s, s2a, main, owned>>
  BY DEF ExitContext
<1>4. CASE n \in live
  <2> DEFINE v == [fr[n] EXCEPT !.st = "block"]
  <2>1. v \in FrameType /\ SameCall(fr[n], v) /\ v.st = "block" /\ v.set = fr[n].set
    BY <1>2 DEF FrameType, SameCall, FrameStates, Busy
  <2>2. fr' = [fr EXCEPT ![n] = v]
    BY <1>4 DEF ExitContext
  <2>3. {fr[n].st, v.st} \subseteq {"run", "join", "block"}
    BY <1>1, <2>1
  <2> HIDE DEF v
  <2> QED BY <1>1, <1>3, <2>1, <2>2, <2>3, QuietKeeps
<1>5. CASE n \notin live
  <2> DEFINE v == [fr[n] EXCEPT !.ctx = 0, !.used = FALSE]
  <2>1. v \in FrameType /\ SameCall(fr[n], v) /\ v.st = fr[n].st /\ v.set = fr[n].set
    BY <1>2 DEF FrameType, SameCall
  <2>2. fr' = [fr EXCEPT ![n] = v]
    BY <1>5 DEF ExitContext
  <2>3. {fr[n].st, v.st} \subseteq {"run", "join", "block"}
    BY <1>1, <2>1
  <2> HIDE DEF v
  <2> QED BY <1>1, <1>3, <2>1, <2>2, <2>3, QuietKeeps
<1> QED BY <1>4, <1>5

LEMMA ShutdownDoneKeeps == ASSUME CallParts, NEW n \in Ids, ShutdownDone(n) PROVE CallParts'
<1> DEFINE v == [fr[n] EXCEPT !.st = "run", !.ctx = 0, !.used = FALSE]
<1>1. n \in DOMAIN fr /\ fr[n].kind = "task" /\ fr[n].st = "block"
  <2>1. n \in DOMAIN fr /\ fr[n].st = "block"
    BY DEF ShutdownDone
  <2>2. WaitsOf(n) /\ fr[n] \in FrameType
    BY <2>1, FramesAreIds DEF CallParts, Waits
  <2> QED BY <2>1, <2>2 DEF WaitsOf, Up, Kinds, FrameType
<1>2. fr[n] \in FrameType /\ 0 \in Loops
  BY <1>1, FramesAreIds DEF CallParts, Loops
<1>3. v \in FrameType /\ SameCall(fr[n], v) /\ v.st = "run" /\ v.set = fr[n].set
  BY <1>2 DEF FrameType, SameCall, FrameStates, Busy
<1>4. fr' = [fr EXCEPT ![n] = v] /\ UNCHANGED <<stack, phase, q, pool, cur, a2s, s2a, main, owned>>
  BY DEF ShutdownDone
<1>5. {fr[n].st, v.st} \subseteq {"run", "join", "block"}
  BY <1>1, <1>3
<1> HIDE DEF v
<1> QED BY <1>1, <1>3, <1>4, <1>5, QuietKeeps

LEMMA LoopCloseKeeps == ASSUME CallParts, NEW l \in Loops, LoopClose(l) PROVE CallParts'
<1> USE DEF CallParts
<1>1. phase[l] = "ending" /\ phase' = [phase EXCEPT ![l] = "closed"]
      /\ q' = (IF l = 0 THEN q ELSE [q EXCEPT ![l] = Append(@, 0)])
      /\ UNCHANGED <<fr, stack, pool, cur, a2s, s2a, main, owned>>
  BY DEF LoopClose
<1>2. l # 0 => l \in Ids /\ l \in DOMAIN fr /\ fr[l].st = "done"
  BY <1>1 DEF Ends, Loops, Ids
<1>3. CallTypes'
  <2>1. phase' \in [Loops -> Phases]
    BY <1>1 DEF CallTypes, Phases
  <2>2. q' \in [Ids -> Seq(Loops)]
    <3>1. 0 \in Loops
      BY SMTT(30), CallAssumption DEF Loops
    <3> QED BY <1>1, <1>2, <3>1 DEF CallTypes
  <2> QED BY <1>1, <2>1, <2>2 DEF CallTypes
<1>4. Shape' /\ Waits' /\ Pools' /\ Stacks' /\ Launched' /\ Currents'
  BY <1>1 DEF Shape, InTree, Linked, Placed, Called, Waits, WaitsOf, Pools, Stacks, OnStack, Launched, Currents,
     Applies, Frontier, Obj, Intact, Attached
<1>5. Ends'
  BY <1>1, <1>2 DEF Ends, CallTypes
<1>6. ASSUME NEW e \in Ids, NEW i \in 1..Len(q'[e]) PROVE ToldBy(e, q'[e][i])
  <2>1. q[e] \in Seq(Loops)
    BY DEF CallTypes
  <2>2. CASE e = l /\ i = Len(q[e]) + 1
    <3>1. q'[e][i] = 0
      BY <1>1, <2>1, <2>2 DEF CallTypes, Ids
    <3> QED BY <1>2, <2>2, <3>1 DEF ToldBy, Ids
  <2>3. CASE ~(e = l /\ i = Len(q[e]) + 1)
    <3>1. i \in 1..Len(q[e]) /\ q'[e][i] = q[e][i]
      BY <1>1, <2>1, <2>3 DEF CallTypes
    <3> QED BY <3>1 DEF Tells
  <2> QED BY <2>2, <2>3
<1>7. Tells'
  BY <1>1, <1>6 DEF Tells, ToldBy, Called
<1> QED BY <1>3, <1>4, <1>5, <1>7

LEMMA TaskStartKeeps == ASSUME CallParts, NEW n \in Ids, TaskStart(n) PROVE CallParts'
<1> USE DEF CallParts
<1> DEFINE v == [fr[n] EXCEPT !.st = "run"]
<1>1. n \in DOMAIN fr /\ fr[n].kind = "task" /\ fr[n].st = "new"
  BY DEF TaskStart
<1>2. fr[n] \in FrameType
  BY <1>1, FramesAreIds
<1>3. v \in FrameType /\ SameCall(fr[n], v) /\ v.st = "run" /\ v.sub = fr[n].sub /\ v.set = fr[n].set /\ v.used = fr[n].used
  BY <1>2 DEF FrameType, SameCall, FrameStates, Up
<1>4. fr' = [fr EXCEPT ![n] = v] /\ UNCHANGED <<stack, phase, q, pool, cur, s2a, main, owned>>
  BY DEF TaskStart
<1> HIDE DEF v
<1>5. Steady /\ \A k \in DOMAIN fr : fr'[k] = IF k = n THEN v ELSE fr[k]
  BY <1>1, <1>3, <1>4, SetFrame
<1>6. DOMAIN fr' = DOMAIN fr /\ \A k \in DOMAIN fr : SameCall(fr[k], fr'[k])
  BY <1>5 DEF Steady
<1>7. Onward
  BY <1>1, <1>3, <1>5 DEF Onward
<1>8. a2s' = (IF Called(n) THEN [a2s EXCEPT ![n] = fr[fr[n].by].thread] ELSE a2s)
  BY DEF TaskStart, Called
<1>9. Called(n) => fr[n].by \in DOMAIN fr /\ fr[fr[n].by] \in FrameType
  BY <1>1, ShapeUses, FramesAreIds
<1>10. CallTypes'
  <2>1. a2s' \in [Ids -> Threads \cup {NoThread}]
    BY <1>8, <1>9 DEF CallTypes, FrameType
  <2> QED BY <1>4, <1>5, <2>1 DEF CallTypes, Steady
<1>11. Shape'
  BY <1>5, ShapeKept
<1>12. ASSUME NEW k \in DOMAIN fr PROVE WaitsOf(k)'
  <2>1. WaitsOf(k) /\ WaitsOf(n)
    BY <1>1 DEF Waits
  <2>2. Called(k) => fr[k].by \in DOMAIN fr /\ fr[fr[k].by].kind # fr[k].kind
    BY ShapeUses
  <2>3. SameCall(fr[k], fr'[k])
    BY <1>6
  <2> QED BY <1>1, <1>3, <1>5, <1>6, <2>1, <2>2, <2>3 DEF WaitsOf, Called, SameCall, Up, Busy
<1>13. Waits'
  BY <1>6, <1>12 DEF Waits
<1>14. Tells' /\ Pools' /\ Ends'
  BY <1>4, <1>5, <1>7, TellsKept, PoolsKept, EndsKept
<1>15. Stacks'
  BY <1>1, <1>4, <1>5, StacksKept
<1>16. Launched'
  <2>1. \A k \in DOMAIN fr : Called(k) => fr[k].by \in DOMAIN fr
    BY ShapeUses
  <2>2. ASSUME NEW k \in Ids
        PROVE  a2s'[k] = IF k \in DOMAIN fr' /\ fr'[k].kind = "task" /\ fr'[k].link = "call" /\ fr'[k].st \in Busy
                         THEN fr'[fr'[k].by].thread ELSE NoThread
    <3>1. k # n => a2s'[k] = a2s[k]
      BY <1>8 DEF CallTypes
    <3>2. k = n => a2s'[k] = IF Called(n) THEN fr[fr[n].by].thread ELSE a2s[n]
      BY <1>8 DEF CallTypes
    <3>3. k # n /\ k \in DOMAIN fr => fr'[k] = fr[k]
      BY <1>5
    <3>4. k = n => fr'[k].st = "run" /\ fr[k].st = "new"
      BY <1>1, <1>3, <1>5
    <3>5. k \in DOMAIN fr /\ Called(k) => fr'[fr[k].by].thread = fr[fr[k].by].thread
      BY <1>6, <2>1 DEF SameCall
    <3>6. k \in DOMAIN fr => fr'[k].kind = fr[k].kind /\ fr'[k].link = fr[k].link /\ fr'[k].by = fr[k].by
      BY <1>6 DEF SameCall
    <3>7. a2s[k] = IF k \in DOMAIN fr /\ fr[k].kind = "task" /\ Called(k) /\ fr[k].st \in Busy
           THEN fr[fr[k].by].thread ELSE NoThread
      BY DEF Launched
    <3> QED BY <1>1, <1>6, <3>1, <3>2, <3>3, <3>4, <3>5, <3>6, <3>7 DEF Called, Busy
  <2> QED BY <2>2 DEF Launched, Called
<1>17. Currents'
  BY <1>1, <1>3, <1>4, <1>5, <1>7, CurrentsKept DEF Frontier
<1> QED BY <1>10, <1>11, <1>13, <1>14, <1>15, <1>16, <1>17

LEMMA TaskEndKeeps == ASSUME CallParts, NEW n \in Ids, TaskEnd(n) PROVE CallParts'
<1> USE DEF CallParts
<1> DEFINE v == [fr[n] EXCEPT !.st = "done"]
<1>1. n \in DOMAIN fr /\ fr[n].kind = "task" /\ fr[n].st = "run"
  BY DEF TaskEnd, Running
<1>2. fr[n] \in FrameType
  BY <1>1, FramesAreIds
<1>3. v \in FrameType /\ SameCall(fr[n], v) /\ v.st = "done" /\ v.sub = fr[n].sub /\ v.set = fr[n].set /\ v.used = fr[n].used
  BY <1>2 DEF FrameType, SameCall, FrameStates, Up
<1>4. fr' = [fr EXCEPT ![n] = v] /\ UNCHANGED <<stack, pool, cur, s2a, main, owned>>
  BY DEF TaskEnd
<1> HIDE DEF v
<1>5. Steady /\ \A k \in DOMAIN fr : fr'[k] = IF k = n THEN v ELSE fr[k]
  BY <1>1, <1>3, <1>4, SetFrame
<1>6. DOMAIN fr' = DOMAIN fr /\ \A k \in DOMAIN fr : SameCall(fr[k], fr'[k])
  BY <1>5 DEF Steady
<1>7. Onward
  BY <1>1, <1>3, <1>5 DEF Onward
<1>8. \A e \in Ids : q'[e] = (IF e = n /\ fr[e].link = "call" /\ fr[e].loop # e THEN Append(q[e], 0) ELSE q[e])
  BY DEF TaskEnd, Told
<1>9. a2s' = [a2s EXCEPT ![n] = NoThread]
  BY DEF TaskEnd
<1>10. phase' = IF fr[n].link = "root" \/ fr[n].loop = n THEN [phase EXCEPT ![fr[n].loop] = "gather"] ELSE phase
  BY DEF TaskEnd
<1>11. 0 \in Loops /\ "gather" \in Phases
  BY CallAssumption DEF Loops, Phases
<1>12. CallTypes'
  <2>1. a2s' \in [Ids -> Threads \cup {NoThread}]
    BY <1>9 DEF CallTypes
  <2>2. phase' \in [Loops -> Phases]
    BY <1>2, <1>10, <1>11 DEF CallTypes, FrameType
  <2>3. \A e \in Ids : q[e] \in Seq(Loops)
    BY DEF CallTypes
  <2>4. \A e \in Ids : Append(q[e], 0) \in Seq(Loops)
    BY <1>11, <2>3
  <2>5. q' = [e \in Ids |-> q'[e]]
    BY DEF TaskEnd, Told
  <2>6. q' \in [Ids -> Seq(Loops)]
    BY <1>8, <2>3, <2>4, <2>5
  <2> QED BY <1>4, <1>5, <2>1, <2>2, <2>6 DEF CallTypes, Steady
<1>13. Shape'
  BY <1>5, ShapeKept
<1>14. ASSUME NEW k \in DOMAIN fr PROVE WaitsOf(k)'
  <2>1. WaitsOf(k) /\ WaitsOf(n)
    BY <1>1 DEF Waits
  <2>2. Called(k) => fr[k].by \in DOMAIN fr /\ fr[fr[k].by].kind # fr[k].kind
    BY ShapeUses
  <2>3. SameCall(fr[k], fr'[k])
    BY <1>6
  <2> QED BY <1>1, <1>3, <1>5, <1>6, <2>1, <2>2, <2>3 DEF WaitsOf, Called, SameCall, Up, Busy
<1>15. Waits'
  BY <1>6, <1>14 DEF Waits
<1>16. Pools'
  BY <1>4, <1>5, PoolsKept
<1>17. Ends'
  <2>1. fr[n].link = "root" => fr[n].loop = 0
    BY <1>1 DEF Shape, Linked
  <2>2. fr[n].loop \in Loops
    BY <1>2 DEF FrameType
  <2>3. \A l \in Ids : l # n => phase'[l] = phase[l]
    BY <1>10, <2>1, <2>2 DEF CallTypes, Ids, Loops
  <2>4. n \in DOMAIN fr' /\ fr'[n].st = "done"
    BY <1>1, <1>3, <1>5, <1>6
  <2> QED BY <1>6, <1>7, <2>3, <2>4 DEF Ends, Onward
<1>18. Tells'
  <2>1. ASSUME NEW e \in Ids, NEW i \in 1..Len(q'[e])
        PROVE  \/ \E j \in 1..Len(q[e]) : q'[e][i] = q[e][j]
               \/ q'[e][i] = 0 /\ e \in DOMAIN fr /\ fr'[e].st = "done"
    <3>1. CASE q'[e] = q[e]
      BY <2>1, <3>1
    <3>2. CASE e = n /\ q'[e] = Append(q[e], 0)
      <4>1. q[e] \in Seq(Loops)
        BY DEF CallTypes
      <4>2. q'[e][i] = 0 \/ (i \in 1..Len(q[e]) /\ q'[e][i] = q[e][i])
        BY <1>11, <2>1, <3>2, <4>1, QueueMore
      <4>3. e \in DOMAIN fr /\ fr'[e].st = "done"
        BY <1>1, <1>3, <1>5, <3>2
      <4> QED BY <4>2, <4>3
    <3> QED BY <1>8, <3>1, <3>2
  <2> QED BY <1>7, <2>1, TellsMore
<1>19. Stacks'
  BY <1>1, <1>4, <1>5, StacksKept
<1>20. Launched'
  <2>1. \A k \in DOMAIN fr : Called(k) => fr[k].by \in DOMAIN fr
    BY ShapeUses
  <2>2. ASSUME NEW k \in Ids
        PROVE  a2s'[k] = IF k \in DOMAIN fr' /\ fr'[k].kind = "task" /\ fr'[k].link = "call" /\ fr'[k].st \in Busy
                         THEN fr'[fr'[k].by].thread ELSE NoThread
    <3>1. k # n => a2s'[k] = a2s[k]
      BY <1>9 DEF CallTypes
    <3>2. k = n => a2s'[k] = NoThread
      BY <1>9 DEF CallTypes
    <3>3. k # n /\ k \in DOMAIN fr => fr'[k] = fr[k]
      BY <1>5
    <3>4. k = n => fr'[k].st = "done"
      BY <1>1, <1>3, <1>5
    <3>5. k \in DOMAIN fr /\ Called(k) => fr'[fr[k].by].thread = fr[fr[k].by].thread
      BY <1>6, <2>1 DEF SameCall
    <3>6. a2s[k] = IF k \in DOMAIN fr /\ fr[k].kind = "task" /\ Called(k) /\ fr[k].st \in Busy
           THEN fr[fr[k].by].thread ELSE NoThread
      BY DEF Launched
    <3> QED BY <1>1, <1>6, <3>1, <3>2, <3>3, <3>4, <3>5, <3>6 DEF Called, Busy
  <2> QED BY <2>2 DEF Launched, Called
<1>21. Currents'
  BY <1>1, <1>3, <1>4, <1>5, <1>7, CurrentsKept DEF Frontier
<1> QED BY <1>12, <1>13, <1>15, <1>16, <1>17, <1>18, <1>19, <1>20, <1>21

\* The same for two frames.
LEMMA SetTwoFrames ==
  ASSUME CallTypes, NEW n \in DOMAIN fr, NEW e \in DOMAIN fr, n # e, NEW u \in FrameType, NEW v \in FrameType,
         SameCall(fr[n], u), SameCall(fr[e], v), fr' = [fr EXCEPT ![n] = u, ![e] = v]
  PROVE  Steady /\ \A k \in DOMAIN fr : fr'[k] = IF k = n THEN u ELSE IF k = e THEN v ELSE fr[k]
<1>1. \A k \in DOMAIN fr : fr'[k] = IF k = n THEN u ELSE IF k = e THEN v ELSE fr[k]
  OBVIOUS
<1>2. fr' = [k \in DOMAIN fr |-> fr'[k]]
  OBVIOUS
<1>3. \A k \in DOMAIN fr : fr'[k] \in FrameType
  BY <1>1, FramesAreIds
<1>4. fr \in Seq(FrameType)
  BY DEF CallTypes
<1>5. fr' \in Seq(FrameType) /\ Len(fr') = Len(fr) /\ DOMAIN fr' = DOMAIN fr
  BY <1>2, <1>3, <1>4, FrameSeq
<1>6. \A k \in DOMAIN fr : SameCall(fr[k], fr'[k])
  BY <1>1 DEF SameCall
<1> QED BY <1>1, <1>5, <1>6 DEF Steady

LEMMA ScheduleKeeps == ASSUME CallParts, NEW n \in Ids, Schedule(n) PROVE CallParts'
<1> USE DEF CallParts
<1> DEFINE e == fr[n].sub
           w == IF fr[e].loop # e /\ phase[fr[e].loop] = "closed" THEN "done" ELSE "new"
           u == [fr[n] EXCEPT !.st = "idle"]
           v == [fr[e] EXCEPT !.st = w]
<1>1. n \in DOMAIN fr /\ fr[n].st = "sched"
  BY DEF Schedule
<1>2. WaitsOf(n) /\ fr[n] \in FrameType
  BY <1>1, FramesAreIds DEF Waits
<1>3. fr[n].kind = "sync" /\ e \in DOMAIN fr /\ Called(e) /\ fr[e].by = n /\ fr[e].st = "wait"
  BY <1>1, <1>2 DEF WaitsOf, Busy, FrameType, Kinds
<1>4. fr[e] \in FrameType /\ e # n /\ fr[e].kind = "task"
  BY <1>3, ShapeUses, FramesAreIds DEF FrameType, Kinds
<1>5. w \in {"new", "done"}
  OBVIOUS
<1>6. fr' = [fr EXCEPT ![n] = u, ![e] = v]
  <2>1. CASE fr[e].loop = e
    <3>1. fr' = [fr EXCEPT ![n].st = "idle", ![e].st = "new"]
      BY <2>1 DEF Schedule
    <3> QED BY <2>1, <3>1, <1>3, <1>4
  <2>2. CASE fr[e].loop # e /\ phase[fr[e].loop] # "closed"
    <3>1. fr' = [fr EXCEPT ![n].st = "idle", ![e].st = "new"]
      BY <2>2 DEF Schedule
    <3> QED BY <2>2, <3>1, <1>3, <1>4
  <2>3. CASE fr[e].loop # e /\ phase[fr[e].loop] = "closed"
    <3>1. fr' = [fr EXCEPT ![n].st = "idle", ![e].st = "done"]
      BY <2>3 DEF Schedule
    <3> QED BY <2>3, <3>1, <1>3, <1>4
  <2> QED BY <2>1, <2>2, <2>3
<1>7. phase' = (IF fr[e].loop = e THEN [phase EXCEPT ![e] = "running"] ELSE phase)
      /\ q' = (IF w = "done" THEN [q EXCEPT ![e] = Append(@, 0)] ELSE q)
  BY DEF Schedule
<1>8. owned' \subseteq owned \cup {e} /\ UNCHANGED <<stack, pool, cur, a2s, s2a, main>>
  BY DEF Schedule
<1> HIDE DEF w
<1>9. u \in FrameType /\ SameCall(fr[n], u) /\ u.st = "idle" /\ u.sub = e /\ u.set = fr[n].set /\ u.used = fr[n].used
      /\ u.old = fr[n].old
  BY <1>2 DEF FrameType, SameCall, FrameStates, Up
<1>10. v \in FrameType /\ SameCall(fr[e], v) /\ v.st = w /\ v.sub = fr[e].sub /\ v.set = fr[e].set /\ v.used = fr[e].used
  BY <1>4, <1>5 DEF FrameType, SameCall, FrameStates
<1> HIDE DEF u, v
<1>11. Steady /\ \A k \in DOMAIN fr : fr'[k] = IF k = n THEN u ELSE IF k = e THEN v ELSE fr[k]
  BY <1>1, <1>3, <1>4, <1>6, <1>9, <1>10, SetTwoFrames
<1>12. DOMAIN fr' = DOMAIN fr /\ \A k \in DOMAIN fr : SameCall(fr[k], fr'[k])
  BY <1>11 DEF Steady
<1>13. Onward
  BY <1>1, <1>3, <1>4, <1>9, <1>10, <1>11 DEF Onward
<1>14. e \in Ids
  BY <1>3, FramesAreIds
<1>15. CallTypes'
  <2>1. phase' \in [Loops -> Phases]
    BY <1>7, <1>14 DEF CallTypes, Loops, Ids, Phases
  <2>2. 0 \in Loops
    BY CallAssumption DEF Loops
  <2>3. q' \in [Ids -> Seq(Loops)]
    BY <1>7, <1>14, <2>2 DEF CallTypes
  <2>4. owned' \subseteq Ids
    BY <1>8, <1>14 DEF CallTypes
  <2> QED BY <1>8, <1>11, <2>1, <2>3, <2>4 DEF CallTypes, Steady
<1>16. Shape'
  BY <1>11, ShapeKept
<1>17. ASSUME NEW k \in DOMAIN fr PROVE WaitsOf(k)'
  <2>1. WaitsOf(k) /\ WaitsOf(e)
    BY <1>3 DEF Waits
  <2>2. Called(k) => fr[k].by \in DOMAIN fr /\ fr[fr[k].by].kind # fr[k].kind
    BY ShapeUses
  <2>3. SameCall(fr[k], fr'[k])
    BY <1>12
  <2>4. fr[k].st \in {"sched", "idle"} => fr[k].sub \in DOMAIN fr /\ fr[fr[k].sub].by = k
    BY <2>1 DEF WaitsOf
  <2>5. fr[k].st \in {"sched", "idle"} /\ k # n => fr[k].sub # e /\ fr[k].sub \in DOMAIN fr /\ fr'[fr[k].sub].st = fr[fr[k].sub].st
    <3>1. fr[k].st \in {"sched", "idle"} /\ k # n => fr[k].sub # e
      BY <1>3, <2>4
    <3> SUFFICES ASSUME fr[k].st \in {"sched", "idle"}, k # n
                 PROVE  fr'[fr[k].sub].st = fr[fr[k].sub].st
      BY <2>4, <3>1
    <3>2. CASE fr[k].sub = n
      <4>1. fr[n].by = k /\ fr[n].link = "call"
        BY <2>1, <3>2 DEF WaitsOf, Called
      <4>2. fr[k].kind = "sync" /\ fr[k].kind # fr[n].kind
        BY <1>1, <2>1, <4>1, ShapeUses, FramesAreIds DEF WaitsOf, Busy, FrameType, Kinds, Called
      <4> QED BY <1>3, <4>2
    <3>3. CASE fr[k].sub # n
      BY <1>11, <2>4, <3>1, <3>3
    <3> QED BY <3>2, <3>3
  <2>6. CASE k = n
    <3>1. fr'[k] = u /\ fr'[e] = v
      BY <1>1, <1>3, <1>4, <1>11, <2>6
    <3>2. /\ fr'[k].st \in {"new", "done"} \cup Up
          /\ fr'[k].sub \in DOMAIN fr' /\ fr'[fr'[k].sub].link = "call" /\ fr'[fr'[k].sub].by = k
          /\ (fr'[fr'[k].sub].st = "wait" <=> fr'[k].st = "sched")
          /\ fr'[k].st = "idle" /\ fr'[k].kind = "sync"
      BY <1>3, <1>5, <1>9, <1>10, <1>12, <2>6, <3>1 DEF Up, Called, SameCall
    <3>3. Called(k) => fr[k].by # n /\ fr[k].by # e /\ fr'[fr[k].by] = fr[fr[k].by]
      BY <1>3, <1>4, <1>11, <2>2, <2>6, ShapeUses
    <3>4. fr'[k].by = fr[k].by /\ (fr'[k].link = "call" => Called(k)) /\ fr'[k].used = fr[k].used
      BY <1>9, <2>3, <2>6, <3>1 DEF SameCall, Called
    <3>5. fr'[k].kind = "sync" /\ fr'[k].link = "call" /\ fr'[k].st # "done" =>
       \/ fr'[fr'[k].by].st = "done" \/ fr'[fr'[k].by].set
       \/ fr'[fr'[k].by].st = "await" /\ fr'[fr'[k].by].sub = k
      BY <1>1, <1>3, <2>1, <2>6, <3>3, <3>4 DEF WaitsOf
    <3> QED BY <1>1, <1>3, <2>1, <2>6, <3>2, <3>4, <3>5 DEF WaitsOf, Called
  <2>7. CASE k = e
    <3>1. fr'[n] = u /\ fr'[k] = v
      BY <1>1, <1>3, <1>4, <1>11, <2>7
    <3> QED BY <1>3, <1>4, <1>5, <1>9, <1>10, <1>12, <2>1, <2>7, <3>1 DEF WaitsOf, Up, Busy, Called, SameCall
  <2>8. CASE k # n /\ k # e
    <3>1. fr'[k] = fr[k]
      BY <1>11, <2>8
    <3>2. Called(k) /\ fr[k].kind = "task" => fr[k].by # e /\ (fr[k].by # n \/ fr[k].st = "done")
      BY <1>1, <1>3, <1>4, <2>1, <2>2, <2>8 DEF WaitsOf
    <3>3. Called(k) /\ fr[k].kind = "sync" => fr[k].by # n
      BY <1>3, <2>2
    <3> QED BY <1>1, <1>3, <1>4, <1>5, <1>9, <1>10, <1>11, <1>12, <2>1, <2>2, <2>5, <2>8, <3>1, <3>2, <3>3
            DEF WaitsOf, Called, SameCall
  <2> QED BY <2>6, <2>7, <2>8
<1>18. Waits'
  BY <1>12, <1>17 DEF Waits
<1>19. Pools'
  BY <1>8, <1>11, PoolsKept
<1>20. Ends'
  <2>1. \A l \in Ids : phase'[l] = phase[l] \/ phase'[l] = "running"
    BY <1>7, <1>14 DEF CallTypes, Ids, Loops
  <2> QED BY <1>12, <1>13, <2>1 DEF Ends, Onward
<1>21. Tells'
  <2>1. ASSUME NEW j \in Ids, NEW i \in 1..Len(q'[j])
        PROVE  \/ \E h \in 1..Len(q[j]) : q'[j][i] = q[j][h]
               \/ q'[j][i] = 0 /\ j \in DOMAIN fr /\ fr'[j].st = "done"
    <3>1. CASE q'[j] = q[j]
      BY <2>1, <3>1
    <3>2. CASE j = e /\ q'[j] = Append(q[j], 0) /\ w = "done"
      <4>1. q[j] \in Seq(Loops) /\ 0 \in Loops
        BY CallAssumption DEF CallTypes, Loops
      <4>2. q'[j][i] = 0 \/ (i \in 1..Len(q[j]) /\ q'[j][i] = q[j][i])
        BY <2>1, <3>2, <4>1, QueueMore
      <4>3. j \in DOMAIN fr /\ fr'[j].st = "done"
        BY <1>3, <1>4, <1>10, <1>11, <3>2
      <4> QED BY <4>2, <4>3
    <3>3. q'[j] = q[j] \/ (j = e /\ q'[j] = Append(q[j], 0) /\ w = "done")
      BY <1>7 DEF CallTypes
    <3> QED BY <3>1, <3>2, <3>3
  <2> QED BY <1>13, <2>1, TellsMore
<1>22. Stacks'
  BY <1>1, <1>3, <1>4, <1>8, <1>9, <1>10, <1>11, StacksKept DEF Up
<1>23. Launched'
  BY <1>1, <1>3, <1>4, <1>5, <1>8, <1>9, <1>10, <1>11, LaunchedKept DEF Busy
<1>24. Currents'
  BY SMTT(30), <1>1, <1>3, <1>4, <1>5, <1>8, <1>9, <1>10, <1>11, <1>13, CurrentsKept DEF Frontier
<1> QED BY <1>15, <1>16, <1>18, <1>19, <1>20, <1>21, <1>22, <1>23, <1>24

LEMMA CancelAllKeeps == ASSUME CallParts, NEW l \in Loops, CancelAll(l) PROVE CallParts'
<1> USE DEF CallParts
<1> DEFINE S == {n \in DOMAIN fr : fr[n].kind = "task" /\ fr[n].loop = l /\ fr[n].st \notin {"done", "wait"}}
           W == {m \in DOMAIN fr : fr[m].kind = "sync" /\ fr[m].by \in S /\ fr[m].st = "new"}
           inside == {n \in S : fr[n].used}
           unbegun == {n \in S : fr[n].st = "new"}
           u(k) == [fr[k] EXCEPT !.st = "run", !.sub = 0, !.set = TRUE]
           v(k) == [fr[k] EXCEPT !.st = "done"]
<1>1. fr' = [k \in DOMAIN fr |-> IF k \in inside THEN u(k) ELSE IF k \in S \cup W THEN v(k) ELSE fr[k]]
  BY DEF CancelAll
<1>2. q' = Told((S \ inside) \ unbegun) /\ a2s' = [n \in Ids |-> IF n \in S \ inside THEN NoThread ELSE a2s[n]]
      /\ phase[l] = "gather" /\ phase' = [phase EXCEPT ![l] = "ending"]
      /\ UNCHANGED <<stack, pool, cur, s2a, main, owned>>
  BY DEF CancelAll
<1>3. ASSUME NEW k \in DOMAIN fr
      PROVE  /\ u(k) \in FrameType /\ SameCall(fr[k], u(k)) /\ u(k).st = "run" /\ u(k).set
             /\ v(k) \in FrameType /\ SameCall(fr[k], v(k)) /\ v(k).st = "done" /\ v(k).set = fr[k].set
             /\ u(k).used = fr[k].used /\ v(k).used = fr[k].used
  <2>1. fr[k] \in FrameType /\ 0 \in Loops
    BY FramesAreIds DEF Loops
  <2> QED BY <2>1 DEF FrameType, SameCall, FrameStates, Up
<1>4. ASSUME NEW k \in DOMAIN fr
      PROVE  /\ k \in inside => fr'[k] = u(k) /\ fr[k].kind = "task" /\ fr[k].used /\ fr[k].st \in Busy
             /\ k \in S \ inside => fr'[k] = v(k) /\ fr[k].kind = "task"
             /\ k \in W => fr'[k] = v(k) /\ fr[k].kind = "sync" /\ fr[k].st = "new"
             /\ k \notin S \cup W => fr'[k] = fr[k]
             /\ k \in S => fr[k].st \notin {"done", "wait"}
  <2>1. WaitsOf(k)
    BY DEF Waits
  <2> QED BY <1>1, <2>1 DEF WaitsOf
<1>5. inside \subseteq S /\ S \subseteq DOMAIN fr
  OBVIOUS
<1>6. \A k \in DOMAIN fr : fr[k].kind = "sync" /\ fr[k].st = "new" /\ k \notin W => fr[k].by \notin S
  OBVIOUS
<1> HIDE DEF S, W, inside, unbegun, u, v
<1>7. \A k \in DOMAIN fr : fr'[k] \in FrameType /\ SameCall(fr[k], fr'[k])
  BY <1>3, <1>4, <1>5, FramesAreIds DEF SameCall
<1>8. Steady
  <2>1. fr' = [k \in DOMAIN fr |-> fr'[k]]
    BY <1>1
  <2>2. fr \in Seq(FrameType)
    BY DEF CallTypes
  <2> QED BY <1>7, <2>1, <2>2, FrameSeq DEF Steady
<1>9. DOMAIN fr' = DOMAIN fr
  BY <1>8 DEF Steady
<1>10. \A k \in DOMAIN fr : fr'[k] = u(k) \/ fr'[k] = v(k) \/ fr'[k] = fr[k]
  BY <1>4, <1>5
<1>11. Onward
  <2>1. ASSUME NEW k \in DOMAIN fr
        PROVE  (fr[k].st = "done" => fr'[k].st = "done") /\ (fr[k].kind = "task" /\ fr[k].set => fr'[k].set)
    BY <1>3, <1>4, <1>5
  <2> QED BY <1>8, <2>1 DEF Onward
<1>12. CallTypes'
  <2>1. phase' \in [Loops -> Phases]
    BY <1>2 DEF CallTypes, Phases
  <2>2. \A e \in Ids : q[e] \in Seq(Loops) /\ Append(q[e], 0) \in Seq(Loops)
    <3>1. 0 \in Loops
      BY CallAssumption DEF Loops
    <3>2. \A e \in Ids : q[e] \in Seq(Loops)
      BY DEF CallTypes
    <3> QED BY <3>1, <3>2
  <2>3. q' \in [Ids -> Seq(Loops)]
    BY <1>2, <2>2 DEF Told
  <2>4. a2s' \in [Ids -> Threads \cup {NoThread}]
    BY <1>2 DEF CallTypes
  <2> QED BY <1>2, <1>8, <2>1, <2>3, <2>4 DEF CallTypes, Steady
<1>13. Shape'
  BY <1>8, ShapeKept
<1>14. ASSUME NEW k \in DOMAIN fr PROVE WaitsOf(k)'
  <2>1. WaitsOf(k)
    BY DEF Waits
  <2>2. Called(k) => fr[k].by \in DOMAIN fr /\ fr[fr[k].by].kind # fr[k].kind
    BY ShapeUses
  <2>3. SameCall(fr[k], fr'[k]) /\ fr[k].kind \in Kinds
    BY <1>7, FramesAreIds DEF FrameType
  <2>4. CASE k \in inside
    <3>1. fr'[k] = u(k) /\ fr[k].kind = "task" /\ fr[k].used /\ k \in S
      BY <1>4, <1>5, <2>4
    <3>2. fr'[k].st = "run" /\ fr'[k].kind = "task"
      BY <1>3, <2>3, <3>1 DEF SameCall
    <3>3. Called(k) => /\ fr[fr[k].by].st \in {"sched", "idle"} /\ fr[fr[k].by].sub = k
                       /\ fr'[fr[k].by] = fr[fr[k].by]
      <4>1. Called(k) => fr[fr[k].by].st \in {"sched", "idle"} /\ fr[fr[k].by].sub = k
        BY <1>4, <2>1, <3>1 DEF WaitsOf
      <4>2. Called(k) => fr[k].by \notin S \cup W
        BY <1>4, <1>5, <2>2, <3>1, <4>1
      <4> QED BY <1>4, <2>2, <4>1, <4>2
    <3> QED BY <1>9, <2>3, <3>2, <3>3 DEF WaitsOf, Called, SameCall, Busy, Up
  <2>5. CASE k \in (S \ inside) \cup W
    <3>1. fr'[k].st = "done" /\ fr'[k].used = fr[k].used
      BY <1>3, <1>4, <2>5
    <3> QED BY <1>9, <2>1, <2>3, <3>1 DEF WaitsOf, Called, SameCall
  <2>6. CASE k \notin S \cup W
    <3>1. fr'[k] = fr[k]
      BY <1>4, <2>6
    <3>2. CASE fr[k].kind = "sync"
      <4>1. Called(k) => \/ fr'[fr[k].by] = fr[fr[k].by] /\ fr[k].by \notin S
                         \/ fr'[fr[k].by].st = "done"
                         \/ fr'[fr[k].by].set
        BY <1>3, <1>4, <2>2, <3>2
      <4>2. fr[k].st = "new" => fr'[fr[k].by] = fr[fr[k].by]
        BY <1>4, <1>6, <2>1, <2>2, <2>6, <3>2 DEF WaitsOf
      <4>3. fr[k].st \in {"sched", "idle"} =>
              /\ fr[k].sub \in DOMAIN fr' /\ fr'[fr[k].sub].link = "call" /\ fr'[fr[k].sub].by = k
              /\ (fr'[fr[k].sub].st = "wait" <=> fr[k].st = "sched")
        <5> SUFFICES ASSUME fr[k].st \in {"sched", "idle"}
                     PROVE  /\ fr[k].sub \in DOMAIN fr' /\ fr'[fr[k].sub].link = "call" /\ fr'[fr[k].sub].by = k
                            /\ (fr'[fr[k].sub].st = "wait" <=> fr[k].st = "sched")
          OBVIOUS
        <5> DEFINE e == fr[k].sub
        <5>1. e \in DOMAIN fr /\ fr[e].link = "call" /\ fr[e].by = k /\ (fr[e].st = "wait" <=> fr[k].st = "sched")
          BY <2>1 DEF WaitsOf, Called
        <5>2. fr'[e].link = "call" /\ fr'[e].by = k
          BY <1>7, <5>1 DEF SameCall
        <5>3. fr'[e].st = "wait" <=> fr[e].st = "wait"
          BY <1>3, <1>4, <1>5, <5>1
        <5> QED BY <1>9, <5>1, <5>2, <5>3
      <4> QED BY <1>9, <2>1, <2>2, <2>3, <3>1, <3>2, <4>1, <4>2, <4>3 DEF WaitsOf, Called, SameCall
    <3>3. CASE fr[k].kind = "task"
      <4>1. Called(k) /\ fr[k].st # "done" => fr'[fr[k].by] = fr[fr[k].by]
        <5>1. Called(k) /\ fr[k].st # "done" => fr[k].by \notin S \cup W
          BY <1>4, <1>5, <2>1, <2>2, <3>3 DEF WaitsOf
        <5> QED BY <1>4, <2>2, <5>1
      <4>2. fr[k].st \notin {"sched", "idle"}
        BY <2>1, <3>3 DEF WaitsOf, Busy
      <4> QED BY <1>9, <2>1, <2>2, <2>3, <3>1, <3>3, <4>1, <4>2 DEF WaitsOf, Called, SameCall
    <3> QED BY <2>3, <3>2, <3>3 DEF Kinds
  <2> QED BY <1>5, <2>4, <2>5, <2>6
<1>15. Waits'
  BY <1>9, <1>14 DEF Waits
<1>16. Pools'
  BY <1>2, <1>8, PoolsKept
<1>17. Ends'
  <2>1. \A j \in Ids : phase'[j] \in {"gather", "ending", "closed"} => phase[j] \in {"gather", "ending", "closed"}
    BY <1>2 DEF CallTypes, Ids, Loops
  <2> QED BY <1>9, <1>11, <2>1 DEF Ends, Onward
<1>18. Tells'
  <2>1. ASSUME NEW e \in Ids, NEW i \in 1..Len(q'[e])
        PROVE  \/ \E j \in 1..Len(q[e]) : q'[e][i] = q[e][j]
               \/ q'[e][i] = 0 /\ e \in DOMAIN fr /\ fr'[e].st = "done"
    <3>1. CASE q'[e] = q[e]
      BY <2>1, <3>1
    <3>2. CASE e \in S \ inside /\ q'[e] = Append(q[e], 0)
      <4>1. q[e] \in Seq(Loops) /\ 0 \in Loops
        BY CallAssumption DEF CallTypes, Loops
      <4>2. q'[e][i] = 0 \/ (i \in 1..Len(q[e]) /\ q'[e][i] = q[e][i])
        BY <2>1, <3>2, <4>1, QueueMore
      <4>3. e \in DOMAIN fr /\ fr'[e].st = "done"
        BY <1>3, <1>4, <1>5, <3>2
      <4> QED BY <4>2, <4>3
    <3>3. q'[e] = q[e] \/ (e \in S \ inside /\ q'[e] = Append(q[e], 0))
      BY <1>2 DEF Told
    <3> QED BY <3>1, <3>2, <3>3
  <2> QED BY <1>11, <2>1, TellsMore
<1>19. Stacks'
  <2>1. ASSUME NEW k \in DOMAIN fr, fr[k].kind = "sync"
        PROVE  /\ fr'[k].set = fr[k].set /\ (fr'[k].st \in Up <=> fr[k].st \in Up)
               /\ fr[k].st = "idle" => fr'[k].st = "idle" /\ fr'[k].sub = fr[k].sub
    BY <1>3, <1>4, <1>5, <2>1 DEF Up
  <2> QED BY <1>2, <1>8, <2>1, StacksKept
<1>20. Launched'
  <2>1. \A k \in DOMAIN fr : Called(k) => fr[k].by \in DOMAIN fr
    BY ShapeUses
  <2>2. ASSUME NEW k \in Ids
        PROVE  a2s'[k] = IF k \in DOMAIN fr' /\ fr'[k].kind = "task" /\ fr'[k].link = "call" /\ fr'[k].st \in Busy
                         THEN fr'[fr'[k].by].thread ELSE NoThread
    <3>1. a2s'[k] = IF k \in S \ inside THEN NoThread ELSE a2s[k]
      BY <1>2
    <3>2. a2s[k] = IF k \in DOMAIN fr /\ fr[k].kind = "task" /\ Called(k) /\ fr[k].st \in Busy
           THEN fr[fr[k].by].thread ELSE NoThread
      BY DEF Launched
    <3>3. CASE k \in S \ inside
      <4>1. fr'[k].st = "done"
        BY <1>3, <1>4, <1>5, <3>3
      <4> QED BY <3>1, <3>3, <4>1 DEF Busy
    <3>4. CASE k \in DOMAIN fr /\ k \notin S \ inside
      <4>1. fr[k].kind = "task" => (fr'[k].st \in Busy <=> fr[k].st \in Busy)
        BY <1>3, <1>4, <1>5, <3>4 DEF Busy
      <4>2. fr'[k].kind = fr[k].kind /\ fr'[k].link = fr[k].link /\ fr'[k].by = fr[k].by
        BY <1>7, <3>4 DEF SameCall
      <4>3. Called(k) => fr'[fr[k].by].thread = fr[fr[k].by].thread
        BY <1>7, <2>1, <3>4 DEF SameCall
      <4> QED BY <1>9, <3>1, <3>2, <3>4, <4>1, <4>2, <4>3 DEF Called
    <3>5. CASE k \notin DOMAIN fr
      BY <1>5, <1>9, <3>1, <3>2, <3>5
    <3> QED BY <3>3, <3>4, <3>5
  <2> QED BY <2>2 DEF Launched, Called
<1>21. Currents'
  <2>1. ASSUME NEW k \in DOMAIN fr
        PROVE  /\ Frontier(k)' /\ ~(fr'[k].kind = "task" /\ fr'[k].set) => Frontier(k)
               /\ fr'[k].st \in {"sched", "idle"} => fr[k].st \in {"sched", "idle"} /\ fr'[k].old = fr[k].old
    BY <1>3, <1>4, <1>5, <1>7 DEF Frontier, SameCall
  <2> QED BY <1>2, <1>11, <2>1, CurrentsKept
<1> QED BY <1>12, <1>13, <1>15, <1>16, <1>17, <1>18, <1>19, <1>20, <1>21

-----------------------------------------------------------------------------
(* What the launch maps lead to *)

Deep(o) == IF o[1] = "task" THEN o[2] ELSE IF Len(stack[o]) = 0 THEN 0 ELSE stack[o][1]

\* The objects of contexts are threads and tasks.
LEMMA ObjectKinds ==
  /\ \A n \in Ids : Task(n) \in Objects /\ Task(n)[1] = "task" /\ Task(n)[2] = n /\ Task(n) # NoThread
  /\ \A t \in Threads : t \in Objects /\ t[1] # "task" /\ t # NoThread
  /\ \A o \in Objects : o \in Threads \/ \E n \in Ids : o = Task(n)
BY DEF Objects, Threads, Task, Main, NoThread

\* A function that was begun and has not returned is on the stack of its thread.
LEMMA OnItsStack ==
  ASSUME CallParts, NEW f \in DOMAIN fr, fr[f].kind = "sync", fr[f].st \in Up
  PROVE  /\ fr[f].thread \in Threads /\ Len(stack[fr[f].thread]) \in Nat
         /\ \E i \in 1..Len(stack[fr[f].thread]) : stack[fr[f].thread][i] = f /\ OnStack(fr[f].thread, i)
         /\ 1 \in 1..Len(stack[fr[f].thread]) /\ stack[fr[f].thread][1] \in Nat
         /\ stack[fr[f].thread][1] <= f /\ OnStack(fr[f].thread, 1)
<1> USE DEF CallParts
<1> DEFINE t == fr[f].thread
<1>1. t \in Threads
  BY DEF Shape, Placed
<1>2. stack[t] \in Seq(Ids)
  BY <1>1 DEF CallTypes
<1>3. PICK i \in 1..Len(stack[t]) : stack[t][i] = f
  BY DEF Stacks
<1>4. OnStack(t, i)
  BY <1>1, <1>3 DEF Stacks
<1> HIDE DEF t
<1>5. Len(stack[t]) \in Nat /\ 1 \in 1..Len(stack[t]) /\ stack[t][1] \in Ids
  BY <1>2, <1>3
<1>6. OnStack(t, 1)
  BY <1>1, <1>5 DEF Stacks
<1>7. stack[t][1] \in Nat /\ f \in Nat
  BY <1>5, FramesAreIds DEF Ids
<1>8. i = 1 \/ 1 \in 1..i - 1
  BY <1>3, <1>5
<1>9. 1 \in 1..i - 1 => stack[t][1] < f
  BY <1>3, <1>4 DEF OnStack
<1>10. stack[t][1] <= f
  BY <1>3, <1>7, <1>8, <1>9
<1> QED BY <1>1, <1>3, <1>4, <1>5, <1>6, <1>7, <1>10 DEF t

\* The launch maps lead to an earlier frame.
LEMMA LeadsDown ==
  ASSUME CallParts, NEW o \in Objects
  PROVE  /\ Deep(o) \in 0..MaxFrames
         /\ Leads(o) # NoThread => Leads(o) \in Objects /\ Deep(Leads(o)) < Deep(o)
<1> USE DEF CallParts
<1>1. CASE o \in Threads
  <2>1. o[1] # "task" /\ stack[o] \in Seq(Ids) /\ s2a[o] \in Loops /\ MaxFrames \in Nat
    BY <1>1, ObjectKinds, FramesAreIds DEF CallTypes
  <2>2. CASE Len(stack[o]) = 0
    BY <1>1, <2>1, <2>2 DEF Deep, Leads, Stacks
  <2>3. CASE Len(stack[o]) # 0
    <3> DEFINE f == stack[o][1]
    <3>1. 1 \in 1..Len(stack[o]) /\ f \in Ids /\ Deep(o) = f
      BY <2>1, <2>3 DEF Deep
    <3>2. OnStack(o, 1)
      BY <1>1, <3>1 DEF Stacks
    <3>3. f \in DOMAIN fr /\ fr[f].kind = "sync" /\ s2a[o] = fr[f].by /\ fr[f] \in FrameType
      BY <3>2, FramesAreIds DEF OnStack
    <3>4. ~Called(f) => fr[f].by = 0
      BY <3>3 DEF Shape, Linked, Called, FrameType
    <3>5. Called(f) => fr[f].by \in Ids /\ fr[f].by < f
      BY <3>3, ShapeUses
    <3>6. Leads(o) # NoThread => Leads(o) = Task(fr[f].by) /\ Called(f)
      BY <2>1, <3>3, <3>4 DEF Leads
    <3>7. Called(f) => Deep(Task(fr[f].by)) = fr[f].by /\ Task(fr[f].by) \in Objects
      BY <3>5, ObjectKinds DEF Deep
    <3> QED BY <2>1, <3>1, <3>5, <3>6, <3>7 DEF Ids
  <2> QED BY <2>2, <2>3
<1>2. ASSUME NEW n \in Ids, o = Task(n)
      PROVE  /\ Deep(o) \in 0..MaxFrames
             /\ Leads(o) # NoThread => Leads(o) \in Objects /\ Deep(Leads(o)) < Deep(o)
  <2>1. Deep(o) = n /\ Leads(o) = a2s[n] /\ n \in 0..MaxFrames
    BY <1>2, ObjectKinds DEF Deep, Leads, Ids
  <2>2. CASE a2s[n] # NoThread
    <3> DEFINE c == fr[n].by
               t == fr[c].thread
    <3>1. n \in DOMAIN fr /\ fr[n].kind = "task" /\ Called(n) /\ fr[n].st \in Busy /\ a2s[n] = t
      BY <2>2 DEF Launched
    <3>2. c \in DOMAIN fr /\ c < n /\ fr[c].kind = "sync"
      BY <3>1, ShapeUses DEF FrameType, Kinds
    <3>3. fr[c].st \in Up
      BY <3>1 DEF Waits, WaitsOf, Busy, Up
    <3>4. t \in Threads /\ Len(stack[t]) \in Nat /\ 1 \in 1..Len(stack[t]) /\ stack[t][1] <= c /\ stack[t][1] \in Nat
      BY <3>2, <3>3, OnItsStack
    <3>5. t \in Objects /\ Deep(t) = stack[t][1]
      BY <3>4, ObjectKinds DEF Deep
    <3>6. c \in Nat /\ n \in Nat
      BY <3>1, <3>2, FramesAreIds
    <3> HIDE DEF c, t
    <3>7. Deep(t) < n
      BY <3>2, <3>4, <3>5, <3>6
    <3> QED BY <2>1, <3>1, <3>5, <3>7
  <2> QED BY <2>1, <2>2
<1> QED BY <1>1, <1>2, ObjectKinds

\* The search gives up late enough: it ends where nothing leads on.
LEMMA ResolveIs ==
  ASSUME CallParts
  PROVE  \A o \in Objects : Resolve[2 * MaxFrames][o] =
           IF Leads(o) = NoThread THEN o ELSE Resolve[2 * MaxFrames][Leads(o)]
<1> DEFINE T == {k \in Nat : \A o \in Objects : Deep(o) <= k => Resolve[k + 1][o] = Resolve[k][o]}
<1>1. ASSUME NEW k \in Nat, NEW o \in Objects
      PROVE  Resolve[k][o] = IF Leads(o) = NoThread THEN o ELSE IF k = 0 THEN NoThread ELSE Resolve[k - 1][Leads(o)]
  BY ZenonT(40), ResolveStep DEF Found
<1>2. ASSUME NEW k \in Nat, NEW o \in Objects
      PROVE  Resolve[k + 1][o] = IF Leads(o) = NoThread THEN o ELSE Resolve[k][Leads(o)]
  <2>1. k + 1 \in Nat /\ k + 1 # 0 /\ (k + 1) - 1 = k
    OBVIOUS
  <2>2. Resolve[k + 1][o] = IF Leads(o) = NoThread THEN o ELSE IF k + 1 = 0 THEN NoThread ELSE Resolve[(k + 1) - 1][Leads(o)]
    BY <1>1, <2>1
  <2> QED BY <2>1, <2>2
<1>3. 0 \in T
  <2>1. ASSUME NEW o \in Objects, Deep(o) <= 0 PROVE Resolve[0 + 1][o] = Resolve[0][o]
    <3>1. Leads(o) # NoThread => Deep(Leads(o)) < Deep(o) /\ Deep(Leads(o)) \in 0..MaxFrames
      BY LeadsDown
    <3>2. Leads(o) = NoThread
      BY <2>1, <3>1, LeadsDown, CallAssumption
    <3>3. Resolve[0 + 1][o] = o
      BY <1>2, <3>2
    <3>4. Resolve[0][o] = o
      BY <1>1, <3>2
    <3> QED BY <3>3, <3>4
  <2> QED BY <2>1
<1>4. ASSUME NEW k \in Nat, k \in T PROVE k + 1 \in T
  <2>1. ASSUME NEW o \in Objects, Deep(o) <= k + 1 PROVE Resolve[(k + 1) + 1][o] = Resolve[k + 1][o]
    <3>1. k + 1 \in Nat
      OBVIOUS
    <3>2. Resolve[(k + 1) + 1][o] = IF Leads(o) = NoThread THEN o ELSE Resolve[k + 1][Leads(o)]
      BY <1>2, <3>1
    <3>3. Resolve[k + 1][o] = IF Leads(o) = NoThread THEN o ELSE Resolve[k][Leads(o)]
      BY <1>2
    <3>4. CASE Leads(o) # NoThread
      <4>1. Leads(o) \in Objects /\ Deep(Leads(o)) < Deep(o) /\ Deep(o) \in 0..MaxFrames
        BY <3>4, LeadsDown
      <4>2. Deep(Leads(o)) \in 0..MaxFrames
        BY <4>1, LeadsDown
      <4>3. Deep(Leads(o)) <= k
        BY <2>1, <4>1, <4>2, CallAssumption
      <4>4. Resolve[k + 1][Leads(o)] = Resolve[k][Leads(o)]
        BY <1>4, <4>1, <4>3
      <4> QED BY <3>2, <3>3, <4>4
    <3> QED BY <3>2, <3>3, <3>4
  <2>2. k + 1 \in Nat
    OBVIOUS
  <2> QED BY <2>1, <2>2
<1>5. Nat \subseteq T
  BY <1>3, <1>4, AllNumbers
<1>6. ASSUME NEW o \in Objects
      PROVE  Resolve[2 * MaxFrames][o] = IF Leads(o) = NoThread THEN o ELSE Resolve[2 * MaxFrames][Leads(o)]
  <2> DEFINE k == 2 * MaxFrames - 1
  <2>1. k \in Nat /\ k + 1 = 2 * MaxFrames /\ MaxFrames <= k
    BY CallAssumption
  <2> HIDE DEF k
  <2>2. Resolve[k + 1][o] = IF Leads(o) = NoThread THEN o ELSE Resolve[k][Leads(o)]
    BY <1>2, <2>1
  <2>3. CASE Leads(o) # NoThread
    <3>1. Leads(o) \in Objects
      BY <2>3, LeadsDown
    <3>2. Deep(Leads(o)) \in 0..MaxFrames
      BY <3>1, LeadsDown
    <3>3. Deep(Leads(o)) <= k
      BY <2>1, <3>2, CallAssumption
    <3>4. k \in T
      BY <1>5, <2>1
    <3>5. Resolve[k + 1][Leads(o)] = Resolve[k][Leads(o)]
      BY <3>1, <3>3, <3>4 DEF T
    <3> QED BY <2>1, <2>2, <3>5
  <2> QED BY <2>1, <2>2, <2>3
<1> QED BY <1>6

\* a function that was begun, or a coroutine, that has not ended
Live(n) == n \in DOMAIN fr /\ fr[n].st \in (IF fr[n].kind = "sync" THEN Up ELSE Busy)

\* The context of a frame is that of the frame before it on the stack, or of its caller; it is
\* its own for a root, and its caller's for a function whose caller was cancelled.
LEMMA Traced ==
  ASSUME CallParts, NEW n \in DOMAIN fr, Live(n)
  PROVE  \/ ~Called(n) /\ Context(n) = Obj(n)
         \/ /\ Called(n) /\ fr[n].kind = "sync" /\ fr[fr[n].by].st = "done" /\ Context(n) = Task(fr[n].by)
         \/ /\ Called(n) /\ fr[fr[n].by].st # "done" /\ Live(fr[n].by) /\ Context(n) = Context(fr[n].by)
         \/ /\ Called(n) /\ fr[n].kind = "sync" /\ Called(fr[n].by)
            /\ LET s == fr[fr[n].by].by
               IN  Live(s) /\ fr[s].st = "idle" /\ fr[s].sub = fr[n].by /\ Context(n) = Context(s)
<1> USE DEF CallParts
<1> DEFINE p == fr[n].by
           C(o) == Resolve[2 * MaxFrames][o]
<1>1. \A o \in Objects : C(o) = IF Leads(o) = NoThread THEN o ELSE C(Leads(o))
  BY ResolveIs
<1>2. fr[n].kind \in Kinds /\ n \in Ids /\ WaitsOf(n)
  BY FramesAreIds DEF FrameType, Waits
<1>3. \A k \in DOMAIN fr : Context(k) = IF fr[k].kind = "task" THEN C(Task(k)) ELSE C(fr[k].thread)
  BY DEF Context
<1> HIDE DEF C
<1>4. CASE fr[n].kind = "task"
  <2>1. Context(n) = C(Task(n)) /\ Task(n) \in Objects /\ Leads(Task(n)) = a2s[n]
    BY <1>2, <1>3, <1>4, ObjectKinds DEF Leads
  <2>2. CASE ~Called(n)
    <3>1. a2s[n] = NoThread
      BY <1>2, <2>2 DEF Launched
    <3> QED BY <1>1, <1>4, <2>1, <2>2, <3>1 DEF Obj
  <2>3. CASE Called(n)
    <3>1. fr[n].st \in Busy
      BY <1>4 DEF Live
    <3>2. a2s[n] = fr[p].thread
      BY <1>2, <1>4, <2>3, <3>1 DEF Launched
    <3>3. p \in DOMAIN fr /\ fr[p].kind = "sync"
      BY <1>4, <2>3, ShapeUses, FramesAreIds DEF FrameType, Kinds
    <3>4. fr[p].st \in {"sched", "idle"}
      BY <1>2, <1>4, <2>3, <3>1 DEF WaitsOf, Busy
    <3>5. fr[p].thread \in Threads
      BY <3>3 DEF Shape, Placed
    <3>6. Context(n) = C(fr[p].thread)
      BY <1>1, <2>1, <3>2, <3>5, ObjectKinds
    <3>7. Context(n) = Context(p)
      BY <1>3, <3>3, <3>6
    <3>8. Live(p) /\ fr[p].st # "done"
      BY <3>3, <3>4 DEF Live, Up
    <3> QED BY <2>3, <3>7, <3>8
  <2> QED BY <2>2, <2>3
<1>5. CASE fr[n].kind = "sync"
  <2> DEFINE t == fr[n].thread
  <2>1. fr[n].st \in Up /\ Context(n) = C(t)
    BY <1>3, <1>5 DEF Live
  <2>2. t \in Threads /\ t \in Objects /\ t[1] # "task"
    BY <1>5, <2>1, OnItsStack, ObjectKinds
  <2>3. PICK i \in 1..Len(stack[t]) : stack[t][i] = n /\ OnStack(t, i)
    BY <1>5, <2>1, OnItsStack
  <2> HIDE DEF t
  <2>4. Len(stack[t]) \in Nat
    BY <2>2 DEF CallTypes
  <2>5. CASE i = 1
    <3>1. s2a[t] = p
      BY <2>3, <2>5 DEF OnStack
    <3>2. CASE ~Called(n)
      <4>1. p = 0
        BY <1>2, <1>5, <3>2, FramesAreIds DEF Shape, Linked, Called, FrameType
      <4>2. Leads(t) = NoThread
        BY <2>2, <3>1, <4>1 DEF Leads
      <4>3. Context(n) = t
        BY <1>1, <2>1, <2>2, <4>2
      <4> QED BY <1>5, <3>2, <4>3 DEF Obj, t
    <3>3. CASE Called(n)
      <4>1. p \in DOMAIN fr /\ fr[p].kind = "task" /\ p \in Ids /\ p # 0
        BY <1>5, <3>3, ShapeUses, FramesAreIds DEF FrameType, Kinds, Ids
      <4>2. Leads(t) = Task(p) /\ Task(p) # NoThread /\ Task(p) \in Objects
        BY <2>2, <3>1, <4>1, ObjectKinds DEF Leads
      <4>3. Context(n) = C(Task(p))
        BY <1>1, <2>1, <2>2, <4>2
      <4>4. CASE fr[p].st = "done"
        <5>1. a2s[p] = NoThread
          BY <4>1, <4>4 DEF Launched, Busy
        <5>2. Leads(Task(p)) = NoThread
          BY <4>1, <5>1, ObjectKinds DEF Leads
        <5>3. Context(n) = Task(p)
          BY <1>1, <4>2, <4>3, <5>2
        <5> QED BY <1>5, <3>3, <4>4, <5>3
      <4>5. CASE fr[p].st # "done"
        <5>1. fr[p].set \/ fr[p].st = "await"
          BY <1>2, <1>5, <2>1, <3>3, <4>5 DEF WaitsOf, Up
        <5>2. fr[p].st \in Busy
          BY <4>1, <4>5, <5>1 DEF Waits, WaitsOf, Busy
        <5>3. Live(p)
          BY <4>1, <5>2 DEF Live
        <5>4. Context(n) = Context(p)
          BY <1>3, <4>1, <4>3
        <5> QED BY <3>3, <4>5, <5>3, <5>4
      <4> QED BY <4>4, <4>5
    <3> QED BY <3>2, <3>3
  <2>6. CASE i > 1
    <3> DEFINE s == stack[t][i - 1]
    <3>1. i - 1 \in 1..Len(stack[t]) /\ i - 1 < Len(stack[t]) /\ (i - 1) + 1 = i
      BY <2>3, <2>4, <2>6
    <3>2. OnStack(t, i - 1)
      BY <2>2, <3>1 DEF Stacks
    <3>3. s \in DOMAIN fr /\ fr[s].kind = "sync" /\ fr[s].thread = t /\ fr[s].st = "idle" /\ Called(n) /\ fr[s].sub = p
      BY <2>3, <3>1, <3>2 DEF OnStack
    <3> HIDE DEF s
    <3>4. Called(p) /\ fr[p].by = s
      BY <3>3 DEF Waits, WaitsOf
    <3>5. Context(n) = Context(s)
      BY <1>3, <2>1, <3>3
    <3>6. Live(s)
      BY <3>3 DEF Live, Up
    <3> QED BY <1>5, <3>3, <3>4, <3>5, <3>6
  <2> QED BY <2>3, <2>4, <2>5, <2>6
<1> QED BY <1>2, <1>4, <1>5 DEF Kinds

\* A frame above one that is intact waits for the next one down.
LEMMA NextDown ==
  ASSUME CallParts, NEW f \in DOMAIN fr, Intact(f), NEW c \in fr[f].above, c # f
  PROVE  c \in DOMAIN fr /\ fr[c].sub \in fr[f].above /\ Called(fr[c].sub) /\ fr[fr[c].sub].by = c
         /\ fr[c].st \in {"sched", "idle", "await"}
<1> USE DEF CallParts
<1>1. PICK g \in fr[f].above : Called(g) /\ fr[g].by = c
  BY DEF Shape, InTree
<1>2. fr[f].above \subseteq DOMAIN fr
  BY ShapeUses
<1>3. c \in DOMAIN fr /\ g \in DOMAIN fr /\ fr[g].kind \in Kinds /\ WaitsOf(g) /\ fr[c].kind # fr[g].kind /\ fr[c].kind \in Kinds
  BY <1>1, <1>2, ShapeUses, FramesAreIds DEF FrameType, Waits
<1>4. fr[g].st # "done" /\ fr[c].st # "done" /\ (fr[c].kind = "task" => ~fr[c].set)
  BY DEF Intact, Attached
<1>5. fr[c].sub = g /\ fr[c].st \in {"sched", "idle", "await"}
  BY <1>1, <1>3, <1>4 DEF WaitsOf, Kinds
<1> QED BY <1>1, <1>3, <1>5

\* who shares a context with frame n and is intact: a frame above, which waits, or one below
Near(n) == \A f \in DOMAIN fr : Intact(f) =>
  \A r \in fr[f].above : ~Called(r) /\ Obj(r) = Context(n) =>
    \/ f \in fr[n].above /\ (f # n => ~Frontier(f))
    \/ n \in fr[f].above
Own(n) == Attached(n) => \A r \in fr[n].above : ~Called(r) => Context(n) = Obj(r)
Known(n) == Context(n) \in Threads \cup {Task(k) : k \in DOMAIN fr}

\* Contexts of a frame from those of the frames before it.
LEMMA ContextsStep ==
  ASSUME CallParts, NEW n \in DOMAIN fr, Live(n),
         \A k \in DOMAIN fr : k < n /\ Live(k) => Near(k) /\ Own(k) /\ Known(k)
  PROVE  Near(n) /\ Own(n) /\ Known(n)
<1> USE DEF CallParts
<1> DEFINE p == fr[n].by
<1>1. n \in fr[n].above /\ n \in Ids /\ n \in Nat /\ fr[n].kind \in Kinds /\ WaitsOf(n)
  BY ShapeUses, FramesAreIds DEF FrameType, Waits
<1>2. Called(n) => /\ p \in DOMAIN fr /\ p \in Nat /\ p < n /\ fr[n].above = fr[p].above \cup {n} /\ p \in fr[p].above
                   /\ fr[p].kind # fr[n].kind /\ fr[p].kind \in Kinds /\ WaitsOf(p)
  BY ShapeUses, FramesAreIds DEF FrameType, Waits
<1>3. CASE ~Called(n) /\ Context(n) = Obj(n)
  <2>1. fr[n].above = {n}
    BY <1>3 DEF Shape, Linked
  <2>2. ASSUME NEW f \in DOMAIN fr, NEW r \in fr[f].above, ~Called(r), Obj(r) = Obj(n) PROVE r = n
    <3>1. r \in DOMAIN fr /\ fr[r].kind \in Kinds /\ r \in Ids
      BY ShapeUses, FramesAreIds DEF FrameType
    <3>2. fr[r].kind = "sync" => r = 1 /\ fr[r].thread \in Threads
      BY <2>2, <3>1, FramesAreIds DEF Shape, Linked, Placed, Called, FrameType
    <3>3. fr[n].kind = "sync" => n = 1 /\ fr[n].thread \in Threads
      BY <1>3, FramesAreIds DEF Shape, Linked, Placed, Called, FrameType
    <3> QED BY <1>1, <2>2, <3>1, <3>2, <3>3, ObjectKinds DEF Obj, Kinds
  <2>3. Near(n)
    BY <1>3, <2>2 DEF Near
  <2>4. Own(n)
    BY <1>3, <2>1 DEF Own
  <2>5. Known(n)
    BY <1>1, <1>3 DEF Known, Obj, Kinds, Shape, Placed
  <2> QED BY <2>3, <2>4, <2>5
<1>4. CASE Called(n) /\ fr[n].kind = "sync" /\ fr[p].st = "done" /\ Context(n) = Task(p)
  <2>1. Own(n)
    BY <1>2, <1>4 DEF Own, Attached
  <2>2. Known(n)
    BY <1>2, <1>4 DEF Known
  <2>3. ASSUME NEW f \in DOMAIN fr, Intact(f), NEW r \in fr[f].above, ~Called(r), Obj(r) = Context(n) PROVE FALSE
    <3>1. r \in DOMAIN fr /\ fr[r].kind \in Kinds /\ r \in Ids /\ p \in Ids
      BY <1>2, <1>4, ShapeUses, FramesAreIds DEF FrameType
    <3>2. fr[r].kind = "sync" => fr[r].thread \in Threads
      BY <3>1 DEF Shape, Placed
    <3>3. r = p
      BY <1>4, <2>3, <3>1, <3>2, ObjectKinds DEF Obj, Kinds
    <3> QED BY <1>4, <2>3, <3>3 DEF Intact, Attached
  <2> QED BY <2>1, <2>2, <2>3 DEF Near
<1>5. CASE Called(n) /\ fr[p].st # "done" /\ Live(p) /\ Context(n) = Context(p)
  <2>1. Near(p) /\ Own(p) /\ Known(p)
    BY <1>2, <1>5
  <2>2. Own(n)
    <3> SUFFICES ASSUME Attached(n), NEW r \in fr[n].above, ~Called(r) PROVE Context(n) = Obj(r)
      BY DEF Own
    <3>1. r \in fr[p].above /\ Attached(p)
      BY <1>2, <1>5 DEF Attached
    <3> QED BY <1>5, <2>1, <3>1 DEF Own
  <2>3. Known(n)
    BY <1>5, <2>1 DEF Known
  <2>4. ASSUME NEW f \in DOMAIN fr, Intact(f), NEW r \in fr[f].above, ~Called(r), Obj(r) = Context(n)
        PROVE  (f \in fr[n].above /\ (f # n => ~Frontier(f))) \/ n \in fr[f].above
    <3>1. (f \in fr[p].above /\ (f # p => ~Frontier(f))) \/ p \in fr[f].above
      BY <1>5, <2>1, <2>4 DEF Near
    <3>2. fr[n].st # "done"
      BY DEF Live, Up, Busy
    <3>3. CASE f = p
      <4>1. fr[p].kind = "task" => ~fr[p].set
        BY <2>4, <3>3, <1>2, <1>5 DEF Intact
      <4>2. ~Frontier(p)
        BY <1>1, <1>2, <1>5, <3>2, <4>1 DEF WaitsOf, Frontier, Kinds
      <4> QED BY <1>2, <1>5, <3>3, <4>2
    <3>4. CASE f # p /\ p \in fr[f].above
      <4>1. fr[p].sub \in fr[f].above /\ (fr[p].kind = "task" => ~fr[p].set)
        BY <2>4, <3>4, NextDown DEF Intact
      <4>2. fr[p].sub = n
        BY <1>1, <1>2, <1>5, <3>2, <4>1 DEF WaitsOf, Kinds
      <4> QED BY <4>1, <4>2
    <3>5. CASE f # p /\ f \in fr[p].above /\ ~Frontier(f)
      BY <1>2, <1>5, <3>5
    <3> QED BY <3>1, <3>3, <3>4, <3>5
  <2> QED BY <2>2, <2>3, <2>4 DEF Near
<1>6. CASE /\ Called(n) /\ fr[n].kind = "sync" /\ Called(p)
           /\ Live(fr[p].by) /\ fr[fr[p].by].st = "idle" /\ fr[fr[p].by].sub = p /\ Context(n) = Context(fr[p].by)
  <2> DEFINE s == fr[p].by
  <2>1. s \in DOMAIN fr /\ s \in Nat /\ s < p /\ fr[p].above = fr[s].above \cup {p} /\ s \in fr[s].above
    BY <1>2, <1>6, ShapeUses, FramesAreIds
  <2>2. Live(s) /\ fr[s].st = "idle" /\ fr[s].sub = p /\ Context(n) = Context(s)
    BY <1>6
  <2> HIDE DEF s
  <2>3. s < n
    BY <1>1, <1>2, <1>6, <2>1
  <2>4. Near(s) /\ Own(s) /\ Known(s)
    BY <2>1, <2>2, <2>3
  <2>5. fr[n].above = (fr[s].above \cup {p}) \cup {n}
    BY <1>2, <1>6, <2>1
  <2>6. Own(n)
    <3> SUFFICES ASSUME Attached(n), NEW r \in fr[n].above, ~Called(r) PROVE Context(n) = Obj(r)
      BY DEF Own
    <3>1. r \in fr[s].above /\ Attached(s)
      BY <1>6, <2>5 DEF Attached
    <3> QED BY <2>2, <2>4, <3>1 DEF Own
  <2>7. Known(n)
    BY <2>2, <2>4 DEF Known
  <2>8. ASSUME NEW f \in DOMAIN fr, Intact(f), NEW r \in fr[f].above, ~Called(r), Obj(r) = Context(n)
        PROVE  (f \in fr[n].above /\ (f # n => ~Frontier(f))) \/ n \in fr[f].above
    <3>1. (f \in fr[s].above /\ (f # s => ~Frontier(f))) \/ s \in fr[f].above
      BY <2>2, <2>4, <2>8 DEF Near
    <3>2. fr[n].st # "done"
      BY DEF Live, Up, Busy
    <3>3. CASE f = s
      BY <2>1, <2>2, <2>5, <3>3 DEF Frontier
    <3>4. CASE f # s /\ f \in fr[s].above /\ ~Frontier(f)
      BY <2>5, <3>4
    <3>5. CASE f # s /\ s \in fr[f].above
      <4>1. p \in fr[f].above
        BY <2>2, <2>8, <3>5, NextDown
      <4>2. fr[p].st # "done" /\ (fr[p].kind = "task" => ~fr[p].set)
        BY <2>8, <4>1 DEF Intact, Attached
      <4>3. fr[p].st = "await" /\ fr[p].sub = n
        BY <1>1, <1>2, <1>6, <3>2, <4>2 DEF WaitsOf, Kinds
      <4>4. CASE f = p
        BY <2>5, <4>3, <4>4 DEF Frontier
      <4>5. CASE f # p
        BY <2>8, <4>1, <4>3, <4>5, NextDown
      <4> QED BY <4>4, <4>5
    <3> QED BY <3>1, <3>3, <3>4, <3>5
  <2> QED BY <2>6, <2>7, <2>8 DEF Near
<1> QED BY <1>3, <1>4, <1>5, <1>6, Traced

\* Who shares a context with a frame that is begun, and that it is the one of its root.
LEMMA Contexts == ASSUME CallParts, NEW n \in DOMAIN fr, Live(n) PROVE Near(n) /\ Own(n) /\ Known(n)
<1> DEFINE T == {k \in DOMAIN fr : Live(k) /\ ~(Near(k) /\ Own(k) /\ Known(k))}
<1>1. SUFFICES ASSUME T # {} PROVE FALSE
  OBVIOUS
<1>2. T \subseteq Nat
  BY FramesAreIds DEF CallParts
<1>3. PICK x \in T : \A y \in T : x <= y
  BY <1>1, <1>2, LeastNumber
<1>4. x \in DOMAIN fr /\ Live(x) /\ ~(Near(x) /\ Own(x) /\ Known(x)) /\ x \in Nat
  BY <1>2
<1>5. ASSUME NEW k \in DOMAIN fr, k < x, Live(k) PROVE Near(k) /\ Own(k) /\ Known(k)
  <2>1. k \in Nat /\ ~(x <= k)
    BY <1>4, <1>5, FramesAreIds DEF CallParts
  <2>2. k \notin T
    BY <1>3, <2>1
  <2> QED BY <1>5, <2>2
<1> QED BY <1>4, <1>5, ContextsStep

-----------------------------------------------------------------------------
\* the thread that takes frame m from a queue: an idle one, or one that waits for its call
Takes(m) ==
  LET T == fr[m].thread
  IN  /\ stack[T] = <<>> => ~(fr[m].sens /\ Called(fr[m].by))
      /\ stack[T] # <<>> => fr[stack[T][Len(stack[T])]].st = "idle" /\ fr[stack[T][Len(stack[T])]].sub = fr[m].by

\* what a step leaves in the queues was there before
LessQueued ==
  /\ q' \in [Ids -> Seq(Loops)] /\ pool' \in [Loops -> Seq(Ids)]
  /\ \A e \in Ids : \A i \in 1..Len(q'[e]) : \E j \in 1..Len(q[e]) : q'[e][i] = q[e][j]
  /\ \A c \in Loops : \A i \in 1..Len(pool'[c]) : \E j \in 1..Len(pool[c]) : pool'[c][i] = pool[c][j]

LEMMA PoolsLess ==
  ASSUME CallTypes, Shape, Pools, Steady, LessQueued
  PROVE  Pools'
BY PoolsGrown, SteadyIsGrown DEF LessQueued

\* A work item whose future was cancelled is passed.
LEMMA SkipKeeps ==
  ASSUME CallParts, Skip, LessQueued, UNCHANGED <<phase, cur, a2s, owned>>
  PROVE  CallParts'
<1> USE DEF CallParts
<1>1. UNCHANGED <<fr, stack, phase, cur, a2s, s2a, main, owned>>
  BY DEF Skip
<1>2. Steady /\ Onward
  <2>1. \A k \in DOMAIN fr : SameCall(fr[k], fr'[k])
    BY <1>1 DEF SameCall
  <2>2. fr \in Seq(FrameType)
    BY DEF CallTypes
  <2> QED BY <1>1, <2>1, <2>2 DEF Steady, Onward
<1>3. CallTypes'
  BY <1>1 DEF CallTypes, LessQueued
<1>4. Shape' /\ Waits' /\ Ends' /\ Stacks' /\ Launched' /\ Currents'
  BY <1>1 DEF Shape, InTree, Linked, Placed, Called, Waits, WaitsOf, Ends, Stacks, OnStack, Launched, Currents,
     Applies, Frontier, Obj, Intact, Attached
<1>5. Tells'
  BY <1>2, TellsMore DEF LessQueued
<1>6. Pools'
  BY <1>2, PoolsLess
<1> QED BY <1>3, <1>4, <1>5, <1>6

\* thread_handler keeps the invariant in a thread that may take the frame.
LEMMA HandleKeeps ==
  ASSUME CallParts, NEW m \in DOMAIN fr, fr[m].kind = "sync", fr[m].st = "new", Takes(m), Handle(m), LessQueued,
         UNCHANGED <<phase, cur, a2s, owned>>
  PROVE  CallParts'
<1> USE DEF CallParts
<1> DEFINE T == fr[m].thread
           e == fr[m].by
           set == Launches(m)
           v == [fr[m] EXCEPT !.st = "run", !.set = set]
<1>1. fr[m] \in FrameType /\ WaitsOf(m) /\ Called(m) /\ fr[e].st = "await" /\ fr[e].sub = m
  BY FramesAreIds DEF Waits, WaitsOf
<1>2. m \in Ids /\ e \in DOMAIN fr /\ e < m /\ fr[e].kind = "task" /\ WaitsOf(e) /\ e \in Ids /\ e \in Nat /\ m \in Nat
  <2>1. e \in DOMAIN fr /\ e < m /\ fr[e].kind # "sync" /\ fr[e].kind \in Kinds
    BY <1>1, ShapeUses, FramesAreIds DEF FrameType
  <2> QED BY <2>1, FramesAreIds DEF Kinds, Waits
<1>3. T \in Threads
  BY DEF Shape, Placed
<1>4. stack' = [stack EXCEPT ![T] = Append(@, m)] /\ main' = [main EXCEPT ![T] = fr[m].loop]
      /\ s2a' = (IF set THEN [s2a EXCEPT ![T] = e] ELSE s2a)
  BY DEF Handle
<1>5. fr' = [fr EXCEPT ![m] = v]
  BY DEF Handle
<1>6. set \in BOOLEAN /\ (set <=> a2s[e] # T)
  BY DEF Launches
<1> HIDE DEF set
<1>7. v \in FrameType /\ SameCall(fr[m], v) /\ v.st = "run" /\ v.set = set /\ v.sub = fr[m].sub /\ v.used = fr[m].used
  BY <1>1, <1>6 DEF FrameType, SameCall, FrameStates, Up
<1> HIDE DEF v
<1>8. Steady /\ \A k \in DOMAIN fr : fr'[k] = IF k = m THEN v ELSE fr[k]
  BY <1>5, <1>7, SetFrame
<1>9. DOMAIN fr' = DOMAIN fr /\ \A k \in DOMAIN fr : SameCall(fr[k], fr'[k])
  BY <1>8 DEF Steady
<1>10. Onward
  BY <1>7, <1>8 DEF Onward
<1>11. stack[T] \in Seq(Ids) /\ Len(stack[T]) \in Nat
  BY <1>3 DEF CallTypes
<1>12. stack'[T] \in Seq(Ids) /\ Len(stack'[T]) = Len(stack[T]) + 1 /\ stack'[T][Len(stack[T]) + 1] = m
       /\ \A i \in 1..Len(stack[T]) : stack'[T][i] = stack[T][i]
  <2>1. stack'[T] = Append(stack[T], m)
    BY <1>3, <1>4 DEF CallTypes
  <2> QED BY <1>2, <1>11, <2>1
<1>13. \A t \in Threads : t # T => stack'[t] = stack[t] /\ s2a'[t] = s2a[t]
  BY <1>3, <1>4 DEF CallTypes
<1>14. CallTypes'
  <2>1. stack' \in [Threads -> Seq(Ids)]
    <3>1. stack' = [t \in Threads |-> stack'[t]]
      BY <1>4 DEF CallTypes
    <3>2. \A t \in Threads : stack'[t] \in Seq(Ids)
      BY <1>12, <1>13 DEF CallTypes
    <3> QED BY <3>1, <3>2
  <2>2. main' \in [Threads -> {-1} \cup Loops]
    BY <1>1, <1>4 DEF CallTypes, FrameType
  <2>3. s2a' \in [Threads -> Loops]
    BY <1>1, <1>4 DEF CallTypes, FrameType
  <2> QED BY <1>8, <2>1, <2>2, <2>3 DEF CallTypes, Steady, LessQueued
<1>15. Shape'
  BY <1>8, ShapeKept
<1>16. ASSUME NEW k \in DOMAIN fr PROVE WaitsOf(k)'
  <2>1. WaitsOf(k)
    BY DEF Waits
  <2>2. Called(k) => fr[k].by \in DOMAIN fr /\ fr[fr[k].by].kind # fr[k].kind
    BY ShapeUses
  <2>3. SameCall(fr[k], fr'[k]) /\ fr[k].kind \in Kinds
    BY <1>9, FramesAreIds DEF FrameType
  <2>4. fr[k].st \in {"sched", "idle"} => /\ fr[k].sub \in DOMAIN fr /\ fr'[fr[k].sub].link = "call" /\ fr'[fr[k].sub].by = k
                                          /\ (fr'[fr[k].sub].st = "wait" <=> fr[k].st = "sched")
    <3> SUFFICES ASSUME fr[k].st \in {"sched", "idle"}
                 PROVE  /\ fr[k].sub \in DOMAIN fr /\ fr'[fr[k].sub].link = "call" /\ fr'[fr[k].sub].by = k
                        /\ (fr'[fr[k].sub].st = "wait" <=> fr[k].st = "sched")
      OBVIOUS
    <3> DEFINE g == fr[k].sub
    <3>1. g \in DOMAIN fr /\ fr[g].link = "call" /\ fr[g].by = k /\ (fr[g].st = "wait" <=> fr[k].st = "sched")
      BY <2>1 DEF WaitsOf, Called
    <3> HIDE DEF g
    <3>2. g # m
      BY <1>1, <3>1
    <3>3. fr'[g] = fr[g]
      BY <1>8, <3>1, <3>2
    <3> QED BY <3>1, <3>3 DEF g
  <2>5. CASE k = m
    <3>1. fr'[k] = v /\ fr'[e] = fr[e]
      BY <1>2, <1>8, <2>5
    <3> QED BY <1>1, <1>2, <1>7, <1>9, <2>1, <2>5, <3>1 DEF WaitsOf, Called, SameCall, Up
  <2>6. CASE k # m
    <3>1. fr'[k] = fr[k]
      BY <1>8, <2>6
    <3>2. Called(k) /\ fr[k].st # "done" => fr[k].by # m
      BY <1>1, <2>1, <2>2, <2>3 DEF WaitsOf, Kinds
    <3>3. Called(k) /\ fr[k].st # "done" => fr'[fr[k].by] = fr[fr[k].by]
      BY <1>8, <2>2, <3>2
    <3> QED BY <1>9, <2>1, <2>2, <2>3, <2>4, <3>1, <3>3 DEF WaitsOf, Called, SameCall
  <2> QED BY <2>5, <2>6
<1>17. Waits'
  BY <1>9, <1>16 DEF Waits
<1>18. Tells'
  BY <1>10, TellsMore DEF LessQueued
<1>19. Pools' /\ Ends'
  BY <1>8, <1>10, PoolsLess, EndsKept
<1>20. ASSUME NEW t \in Threads, NEW i \in 1..Len(stack[t])
       PROVE  /\ stack[t][i] # m /\ stack[t][i] \in DOMAIN fr /\ fr'[stack[t][i]] = fr[stack[t][i]]
  <2>1. OnStack(t, i)
    BY <1>20 DEF Stacks
  <2>2. stack[t][i] # m
    BY <2>1 DEF OnStack, Up
  <2> QED BY <1>8, <2>1, <2>2 DEF OnStack
<1>21. ASSUME NEW t \in Threads, NEW i \in 1..Len(stack[t]),
              NEW s, s = stack'[t], \A j \in 1..Len(stack[t]) : s[j] = stack[t][j],
              s2a'[t] = s2a[t],
              i < Len(s) => i < Len(stack[t]) \/ (fr[stack[t][i]].st = "idle" /\ Called(s[i + 1]) /\ fr[stack[t][i]].sub = fr[s[i + 1]].by
                                                  /\ s[i + 1] \in DOMAIN fr)
       PROVE  OnStack(t, i)'
  <2> DEFINE f == stack[t][i]
             g == s[i + 1]
  <2>1. OnStack(t, i) /\ Len(stack[t]) \in Nat /\ i \in Nat
    BY <1>21 DEF Stacks, CallTypes
  <2>2. f \in DOMAIN fr /\ fr'[f] = fr[f] /\ (Called(f) => fr[f].by \in DOMAIN fr) /\ s[i] = f
    BY <1>20, <1>21, ShapeUses
  <2>3. i < Len(stack[t]) => g = stack[t][i + 1] /\ g \in DOMAIN fr
    <3>1. i < Len(stack[t]) => i + 1 \in 1..Len(stack[t])
      BY <2>1
    <3> QED BY <1>20, <1>21, <3>1
  <2>4. i < Len(s) => fr[f].st = "idle" /\ Called(g) /\ fr[f].sub = fr[g].by /\ g \in DOMAIN fr
    <3>1. CASE i < Len(stack[t])
      BY <2>1, <2>3, <3>1 DEF OnStack
    <3>2. CASE ~(i < Len(stack[t]))
      BY <1>21, <3>2
    <3> QED BY <3>1, <3>2
  <2>5. i < Len(s) => fr'[f].st = "idle" /\ fr'[g].link = "call" /\ fr'[f].sub = fr'[g].by
    BY <1>9, <2>2, <2>4 DEF SameCall, Called
  <2>6. \A j \in 1..i - 1 : s[j] < f
    <3>1. \A j \in 1..i - 1 : j \in 1..Len(stack[t])
      BY <2>1
    <3> QED BY <1>21, <2>1, <3>1 DEF OnStack
  <2>7. i = 1 => s2a'[t] = fr'[f].by /\ (fr'[f].link = "call" => fr'[f].set /\ ~(fr'[f].sens /\ fr'[fr'[f].by].link = "call"))
    BY <1>9, <1>21, <2>1, <2>2 DEF OnStack, Called, SameCall
  <2>8. f \in DOMAIN fr' /\ fr'[f].kind = "sync" /\ fr'[f].thread = t /\ fr'[f].st \in Up /\ (i > 1 => ~fr'[f].set)
    BY <1>9, <2>1, <2>2 DEF OnStack
  <2>9. stack'[t][i] = f /\ stack'[t][i + 1] = g /\ stack'[t] = s
    BY <1>21, <2>2
  <2> HIDE DEF f, g
  <2> QED BY <2>5, <2>6, <2>7, <2>8, <2>9 DEF OnStack, Called
<1>22. ASSUME stack[T] # <<>>, NEW n, n = stack[T][Len(stack[T])]
       PROVE  /\ n \in DOMAIN fr /\ fr[n].kind = "sync" /\ fr[n].thread = T /\ fr[n].st = "idle" /\ fr[n].sub = e
              /\ Called(e) /\ fr[e].by = n /\ n < e /\ n \in Nat /\ a2s[e] = T /\ Len(stack[T]) \in 1..Len(stack[T])
              /\ \A j \in 1..Len(stack[T]) - 1 : stack[T][j] < n
  <2>1. Len(stack[T]) \in 1..Len(stack[T])
    BY <1>11, <1>22
  <2>2. OnStack(T, Len(stack[T]))
    BY <1>3, <2>1 DEF Stacks
  <2>3. n \in DOMAIN fr /\ fr[n].kind = "sync" /\ fr[n].thread = T /\ (\A j \in 1..Len(stack[T]) - 1 : stack[T][j] < n)
    BY <1>22, <2>2 DEF OnStack
  <2>4. fr[n].st = "idle" /\ fr[n].sub = e
    BY <1>22 DEF Takes
  <2>5. Called(e) /\ fr[e].by = n
    BY <2>3, <2>4 DEF Waits, WaitsOf
  <2>6. n < e /\ n \in Nat
    BY <1>2, <2>3, <2>5, ShapeUses, FramesAreIds
  <2>7. a2s[e] = T
    BY <1>1, <1>2, <2>3, <2>5 DEF Launched, Busy
  <2> QED BY <2>1, <2>3, <2>4, <2>5, <2>6, <2>7
<1>23. stack[T] = <<>> => set
  <2> SUFFICES ASSUME stack[T] = <<>>, a2s[e] = T PROVE FALSE
    BY <1>6
  <2>1. T # NoThread
    BY <1>3, ObjectKinds
  <2>2. Called(e) /\ fr[fr[e].by].thread = T
    BY <1>2, <2>1 DEF Launched
  <2>3. fr[e].by \in DOMAIN fr /\ fr[fr[e].by].kind = "sync"
    BY <1>2, <2>2, ShapeUses, FramesAreIds DEF FrameType, Kinds
  <2>4. fr[fr[e].by].st \in Up
    BY <1>1, <1>2, <2>2 DEF WaitsOf, Up
  <2>5. 1 \in 1..Len(stack[T])
    BY <2>2, <2>3, <2>4, OnItsStack
  <2> QED BY <2>5
<1>24. stack[T] # <<>> => ~set /\ s2a' = s2a
  BY <1>4, <1>6, <1>22
<1>25. ASSUME NEW t \in Threads, NEW i \in 1..Len(stack'[t])
       PROVE  OnStack(t, i)'
  <2>1. CASE t # T
    BY <1>13, <1>21, <2>1
  <2>2. CASE t = T /\ i \in 1..Len(stack[T])
    <3>1. stack[T] # <<>>
      BY <1>11, <2>2
    <3>2. s2a'[t] = s2a[t]
      BY <1>24, <3>1
    <3>3. i = Len(stack[T]) => fr[stack[t][i]].st = "idle" /\ Called(m) /\ fr[stack[t][i]].sub = e /\ stack'[t][i + 1] = m
      BY <1>1, <1>12, <1>22, <2>2, <3>1
    <3>4. i < Len(stack'[t]) => i < Len(stack[t]) \/ i = Len(stack[T])
      BY <1>11, <2>2
    <3>5. i < Len(stack'[t]) => i < Len(stack[t]) \/ (fr[stack[t][i]].st = "idle" /\ Called(stack'[t][i + 1])
            /\ fr[stack[t][i]].sub = fr[stack'[t][i + 1]].by /\ stack'[t][i + 1] \in DOMAIN fr)
      BY <3>3, <3>4
    <3>6. \A j \in 1..Len(stack[t]) : stack'[t][j] = stack[t][j]
      BY <1>12, <2>2
    <3>7. i \in 1..Len(stack[t])
      BY <2>2
    <3> QED BY <1>21, <3>2, <3>5, <3>6, <3>7
  <2>3. CASE t = T /\ i = Len(stack[T]) + 1
    <3>1. stack'[t][i] = m /\ fr'[m] = v /\ ~(i < Len(stack'[t])) /\ fr'[e].link = fr[e].link
      BY <1>2, <1>8, <1>9, <1>11, <1>12, <2>3 DEF SameCall
    <3>2. fr'[m].kind = "sync" /\ fr'[m].thread = t /\ fr'[m].st \in Up /\ fr'[m].by = e /\ fr'[m].sens = fr[m].sens /\ fr'[m].set = set
      BY <1>7, <2>3, <3>1 DEF SameCall, Up
    <3>3. \A j \in 1..i - 1 : stack'[t][j] < m
      <4>1. CASE stack[T] = <<>>
        <5>1. i - 1 = 0
          BY <2>3, <4>1
        <5> QED BY <5>1
      <4>2. CASE stack[T] # <<>>
        <5> DEFINE n == stack[T][Len(stack[T])]
        <5>1. n \in Nat /\ n < e /\ \A j \in 1..Len(stack[T]) - 1 : stack[T][j] < n
          BY <1>22, <4>2
        <5>2. n < m
          BY <1>2, <5>1
        <5>3. ASSUME NEW j \in 1..i - 1 PROVE stack'[t][j] < m
          <6>0. j \in 1..Len(stack[T])
            BY <1>11, <2>3
          <6>3. stack[T][j] \in Ids
            BY <1>11, <6>0
          <6>4. stack[T][j] \in Nat
            BY <6>3, CallAssumption DEF Ids
          <6>5. stack'[T][j] = stack[T][j]
            BY <1>12, <6>0
          <6>1. j \in 1..Len(stack[T]) /\ stack'[t][j] = stack[T][j] /\ stack[T][j] \in Nat
            BY <2>3, <6>0, <6>4, <6>5
          <6>2. j = Len(stack[T]) \/ j \in 1..Len(stack[T]) - 1
            BY <1>11, <6>1
          <6> QED BY <1>2, <5>1, <5>2, <6>1, <6>2
        <5> QED BY <5>3
      <4> QED BY <4>1, <4>2
    <3>4. i = 1 => stack[T] = <<>>
      BY <1>11, <2>3
    <3>5. i = 1 => s2a'[t] = e /\ set /\ ~(fr[m].sens /\ Called(e))
      BY <1>3, <1>4, <1>23, <2>3, <3>4 DEF Takes, CallTypes
    <3>6. i > 1 => ~set
      BY <1>11, <1>24, <2>3
    <3> QED BY <1>9, <3>1, <3>2, <3>3, <3>5, <3>6 DEF OnStack, Called
  <2>4. t = T => i \in 1..Len(stack[T]) \/ i = Len(stack[T]) + 1
    BY <1>11, <1>12
  <2> QED BY <2>1, <2>2, <2>3, <2>4
<1>26. Stacks'
  <2>1. \A t \in Threads : Len(stack'[t]) = 0 => s2a'[t] = 0
    BY <1>11, <1>12, <1>13 DEF Stacks
  <2>2. ASSUME NEW f \in DOMAIN fr', fr'[f].kind = "sync", fr'[f].st \in Up
        PROVE  \E i \in 1..Len(stack'[fr'[f].thread]) : stack'[fr'[f].thread][i] = f
    <3>1. CASE f = m
      <4>1. fr'[f].thread = T /\ Len(stack[T]) + 1 \in 1..Len(stack'[T])
        BY <1>7, <1>8, <1>11, <1>12, <3>1 DEF SameCall
      <4> QED BY <1>12, <3>1, <4>1
    <3>2. CASE f # m
      <4>1. f \in DOMAIN fr /\ fr'[f] = fr[f]
        BY <1>8, <1>9, <3>2
      <4>2. PICK i \in 1..Len(stack[fr[f].thread]) : stack[fr[f].thread][i] = f
        BY <2>2, <4>1 DEF Stacks
      <4>3. fr[f].thread \in Threads
        BY <2>2, <4>1 DEF Shape, Placed
      <4>4. i \in 1..Len(stack'[fr[f].thread]) /\ stack'[fr[f].thread][i] = f
        BY SMTT(30), <1>11, <1>12, <1>13, <4>2, <4>3
      <4> QED BY <4>1, <4>4
    <3> QED BY <3>1, <3>2
  <2> QED BY <1>9, <1>25, <2>1, <2>2 DEF Stacks
<1>27. Launched'
  BY <1>8, LaunchedKept
<1>28. Currents'
  BY <1>7, <1>8, <1>10, CurrentsKept DEF Frontier
<1> QED BY <1>14, <1>15, <1>17, <1>18, <1>19, <1>26, <1>27, <1>28

\* A work item that an idle thread takes from the queue of its executor.
LEMMA QueueTaken ==
  ASSUME CallTypes, NEW e \in Ids, q[e] # <<>>, q' = [q EXCEPT ![e] = Tail(@)], pool' = pool
  PROVE  LessQueued
<1>1. q[e] \in Seq(Loops) /\ q \in [Ids -> Seq(Loops)]
  BY DEF CallTypes
<1>2. Tail(q[e]) \in Seq(Loops) /\ \A i \in 1..Len(Tail(q[e])) : i + 1 \in 1..Len(q[e]) /\ Tail(q[e])[i] = q[e][i + 1]
  BY <1>1, QueueLess
<1>3. q' \in [Ids -> Seq(Loops)]
  BY <1>1, <1>2
<1>4. ASSUME NEW b \in Ids, NEW i \in 1..Len(q'[b]) PROVE \E j \in 1..Len(q[b]) : q'[b][i] = q[b][j]
  <2>1. CASE b = e
    <3>1. q'[b] = Tail(q[e])
      BY <1>1, <2>1
    <3> QED BY <1>2, <1>4, <2>1, <3>1
  <2>2. CASE b # e
    BY <1>1, <1>4, <2>2
  <2> QED BY <2>1, <2>2
<1> QED BY <1>3, <1>4 DEF LessQueued, CallTypes

\* A work item that the thread of a pool takes.
LEMMA PoolTaken ==
  ASSUME CallTypes, NEW c \in Loops, pool[c] # <<>>, pool' = [pool EXCEPT ![c] = Tail(@)], q' = q
  PROVE  LessQueued
<1>1. pool[c] \in Seq(Ids) /\ pool \in [Loops -> Seq(Ids)]
  BY DEF CallTypes
<1>2. Tail(pool[c]) \in Seq(Ids) /\ \A i \in 1..Len(Tail(pool[c])) : i + 1 \in 1..Len(pool[c]) /\ Tail(pool[c])[i] = pool[c][i + 1]
  BY <1>1, QueueLess
<1>3. pool' \in [Loops -> Seq(Ids)]
  BY <1>1, <1>2
<1>4. ASSUME NEW b \in Loops, NEW i \in 1..Len(pool'[b]) PROVE \E j \in 1..Len(pool[b]) : pool'[b][i] = pool[b][j]
  <2>1. CASE b = c
    <3>1. pool'[b] = Tail(pool[c])
      BY <1>1, <2>1
    <3> QED BY <1>2, <1>4, <2>1, <3>1
  <2>2. CASE b # c
    BY <1>1, <1>4, <2>2
  <2> QED BY <2>1, <2>2
<1> QED BY <1>3, <1>4 DEF LessQueued, CallTypes

LEMMA RunItemKeeps == ASSUME CallParts, NEW n \in Ids, RunItem(n) PROVE CallParts'
<1> USE DEF CallParts
<1> DEFINE e == fr[n].sub
           m == Head(q[e])
<1>1. n \in DOMAIN fr /\ fr[n].st = "idle" /\ Last(stack[fr[n].thread]) = n /\ q[e] # <<>> /\ m # 0
      /\ (IF fr[m].st = "new" THEN Handle(m) ELSE Skip) /\ q' = [q EXCEPT ![e] = Tail(@)]
      /\ UNCHANGED <<phase, pool, cur, a2s, owned>>
  BY DEF RunItem
<1>2. WaitsOf(n) /\ fr[n].kind \in Kinds
  BY <1>1, FramesAreIds DEF Waits, FrameType
<1>3. fr[n].kind = "sync" /\ e \in DOMAIN fr /\ Called(e) /\ fr[e].by = n
  BY <1>1, <1>2 DEF WaitsOf, Kinds, Busy
<1>4. e \in Ids
  BY <1>3, FramesAreIds
<1>5. LessQueued
  BY <1>1, <1>4, QueueTaken
<1>6. m \in DOMAIN fr /\ fr[m].kind = "sync" /\ Called(m) /\ fr[m].sens /\ fr[m].by = e
  <2>1. q[e] \in Seq(Loops)
    BY <1>4 DEF CallTypes
  <2>2. 1 \in 1..Len(q[e]) /\ m = q[e][1]
    BY <1>1, <2>1, QueueLess
  <2>3. ToldBy(e, q[e][1])
    BY <1>4, <2>2 DEF Tells
  <2> QED BY <1>1, <2>2, <2>3 DEF ToldBy
<1>7. fr[m].thread = fr[n].thread
  BY <1>3, <1>6 DEF Shape, Placed
<1>8. Takes(m)
  <2>1. fr[n].thread \in Threads /\ 1 \in 1..Len(stack[fr[n].thread])
    BY <1>1, <1>3, OnItsStack DEF Up
  <2>2. stack[fr[n].thread] # <<>>
    BY <2>1
  <2>3. stack[fr[n].thread][Len(stack[fr[n].thread])] = n
    BY <1>1 DEF Last
  <2> QED BY <1>1, <1>6, <1>7, <2>2, <2>3 DEF Takes
<1> HIDE DEF m, e
<1>9. CASE fr[m].st = "new"
  BY <1>1, <1>5, <1>6, <1>8, <1>9, HandleKeeps
<1>10. CASE fr[m].st # "new"
  BY <1>1, <1>5, <1>10, SkipKeeps
<1> QED BY <1>9, <1>10

LEMMA RunPooledKeeps == ASSUME CallParts, NEW c \in Loops, RunPooled(c) PROVE CallParts'
<1> USE DEF CallParts
<1> DEFINE m == Head(pool[c])
<1>1. pool[c] # <<>> /\ stack[PoolThread(c)] = <<>>
      /\ (IF fr[m].st = "new" THEN Handle(m) ELSE Skip) /\ pool' = [pool EXCEPT ![c] = Tail(@)]
      /\ UNCHANGED <<phase, q, cur, a2s, owned>>
  BY DEF RunPooled
<1>2. LessQueued
  BY <1>1, PoolTaken
<1>3. m \in DOMAIN fr /\ fr[m].kind = "sync" /\ ~Called(fr[m].by) /\ fr[m].thread = PoolThread(c)
  <2>1. pool[c] \in Seq(Ids)
    BY DEF CallTypes
  <2>2. 1 \in 1..Len(pool[c]) /\ m = pool[c][1]
    BY <1>1, <2>1, QueueLess
  <2> QED BY <2>2 DEF Pools
<1>4. Takes(m)
  BY <1>1, <1>3 DEF Takes
<1> HIDE DEF m
<1>5. CASE fr[m].st = "new"
  BY <1>1, <1>2, <1>3, <1>4, <1>5, HandleKeeps
<1>6. CASE fr[m].st # "new"
  BY <1>1, <1>2, <1>6, SkipKeeps
<1> QED BY <1>5, <1>6

LEMMA RunDefaultKeeps == ASSUME CallParts, NEW m \in Ids, RunDefault(m) PROVE CallParts'
<1> USE DEF CallParts
<1> DEFINE T == <<"pool", m>>
<1>1. m \in DOMAIN fr /\ fr[m].kind = "sync" /\ fr[m].st = "new" /\ fr[m].thread = T /\ Handle(m)
      /\ UNCHANGED <<phase, q, pool, cur, a2s, owned>>
  BY DEF RunDefault
<1>2. LessQueued
  BY <1>1 DEF LessQueued, CallTypes
<1>3. WaitsOf(m) /\ Called(m) /\ fr[fr[m].by].st = "await"
  BY <1>1 DEF Waits, WaitsOf
<1>4. T \in Threads /\ T # Main /\ T # <<"single", 0>> /\ \A c \in Ids : T # <<"context", c>>
  BY DEF Threads, Main
<1>5. stack[T] = <<>>
  <2> SUFFICES ASSUME stack[T] # <<>> PROVE FALSE
    OBVIOUS
  <2> DEFINE f == stack[T][1]
  <2>1. stack[T] \in Seq(Ids)
    BY <1>4 DEF CallTypes
  <2>2. 1 \in 1..Len(stack[T])
    BY <2>1
  <2>3. OnStack(T, 1)
    BY <1>4, <2>2 DEF Stacks
  <2>4. f \in DOMAIN fr /\ fr[f].kind = "sync" /\ fr[f].thread = T /\ fr[f].st \in Up
        /\ (Called(f) => ~(fr[f].sens /\ Called(fr[f].by)))
    BY <2>3 DEF OnStack
  <2> HIDE DEF f
  <2>5. Called(f)
    <3>1. fr[f].link \in {"root", "call", "spawn"} /\ Linked(f)
      BY <2>4, FramesAreIds DEF Shape, FrameType
    <3> QED BY <1>4, <2>4, <3>1 DEF Linked, Called
  <2>6. T = <<"pool", f>>
    BY <1>4, <2>4, <2>5 DEF Shape, Placed
  <2>7. f = m
    BY <2>6
  <2> QED BY <1>1, <2>4, <2>7 DEF Up
<1>6. ~(fr[m].sens /\ Called(fr[m].by))
  <2> SUFFICES ASSUME fr[m].sens, Called(fr[m].by) PROVE FALSE
    OBVIOUS
  <2> DEFINE e == fr[m].by
             g == fr[e].by
  <2>1. e \in DOMAIN fr /\ fr[e].kind = "task" /\ g \in DOMAIN fr /\ fr[g].kind = "sync"
    BY <1>1, <1>3, ShapeUses, FramesAreIds DEF FrameType, Kinds
  <2>2. fr[g].st \in Up
    BY <1>3, <2>1 DEF Waits, WaitsOf, Up
  <2>3. fr[g].thread = T
    BY <1>1, <1>3 DEF Shape, Placed
  <2> HIDE DEF e, g
  <2>4. 1 \in 1..Len(stack[T])
    BY <2>1, <2>2, <2>3, OnItsStack
  <2> QED BY <1>5, <2>4
<1>7. Takes(m)
  BY <1>1, <1>5, <1>6 DEF Takes
<1> QED BY <1>1, <1>2, <1>7, HandleKeeps

\* The stack without its last frame.
LEMMA FrontOf ==
  ASSUME NEW S, NEW s \in Seq(S), 1 \in 1..Len(s)
  PROVE  /\ Front(s) \in Seq(S) /\ Len(Front(s)) = Len(s) - 1 /\ Len(s) \in Nat
         /\ \A i \in 1..Len(s) - 1 : Front(s)[i] = s[i]
BY DEF Front

LEMMA Sync_returnKeeps == ASSUME CallParts, NEW m \in Ids, Sync_return(m) PROVE CallParts'
<1> USE DEF CallParts
<1> DEFINE t == fr[m].thread
           n == fr[m].by
           back == n > 0 /\ fr[n].st = "await" /\ fr[n].sub = m
           u == [fr[m] EXCEPT !.st = "done"]
           w == [fr[n] EXCEPT !.st = "run", !.sub = 0, !.dead = FALSE]
<1>1. m \in DOMAIN fr /\ fr[m].kind = "sync" /\ fr[m].st = "run" /\ Last(stack[t]) = m
      /\ stack' = [stack EXCEPT ![t] = Front(@)] /\ s2a' = (IF fr[m].set THEN [s2a EXCEPT ![t] = 0] ELSE s2a)
      /\ UNCHANGED <<phase, q, pool, cur, a2s, main, owned>>
  BY DEF Sync_return, Running
<1>2. fr[m] \in FrameType /\ WaitsOf(m) /\ m \in Nat
  BY <1>1, FramesAreIds DEF Waits
<1>3. ~Called(m) => n = 0
  BY <1>1, <1>2 DEF Shape, Linked, Called, FrameType
<1>4. back => /\ Called(m) /\ n \in DOMAIN fr /\ n # m /\ fr[n] \in FrameType /\ fr[n].kind = "task" /\ WaitsOf(n)
              /\ fr[m].above = fr[n].above \cup {m}
  <2> SUFFICES ASSUME back
               PROVE  /\ Called(m) /\ n \in DOMAIN fr /\ n # m /\ fr[n] \in FrameType /\ fr[n].kind = "task" /\ WaitsOf(n)
                      /\ fr[m].above = fr[n].above \cup {m}
    OBVIOUS
  <2>1. Called(m)
    BY <1>3
  <2>2. n \in DOMAIN fr /\ n < m /\ fr[n].kind # fr[m].kind /\ fr[m].above = fr[n].above \cup {m}
    BY <1>1, <2>1, ShapeUses
  <2>3. fr[n] \in FrameType /\ WaitsOf(n) /\ n \in Nat
    BY <2>2, FramesAreIds DEF Waits
  <2>4. n # m /\ fr[n].kind = "task"
    BY <1>1, <1>2, <2>2, <2>3 DEF FrameType, Kinds
  <2> QED BY <2>1, <2>2, <2>3, <2>4
<1>5. u \in FrameType /\ SameCall(fr[m], u) /\ u.st = "done" /\ u.set = fr[m].set /\ u.used = fr[m].used
  BY <1>2 DEF FrameType, SameCall, FrameStates
<1>6. back => w \in FrameType /\ SameCall(fr[n], w) /\ w.st = "run" /\ w.set = fr[n].set /\ w.used = fr[n].used
  <2>1. 0 \in Loops
    BY CallAssumption DEF Loops
  <2> QED BY <1>4, <2>1 DEF FrameType, SameCall, FrameStates, Up
<1>7. fr' = IF back THEN [fr EXCEPT ![m] = u, ![n] = w] ELSE [fr EXCEPT ![m] = u]
  <2>1. CASE back
    <3>1. fr' = [[fr EXCEPT ![m].st = "done"] EXCEPT ![n].st = "run", ![n].sub = 0, ![n].dead = FALSE]
      <4>1. [fr EXCEPT ![m].st = "done"][n].st = "await" /\ [fr EXCEPT ![m].st = "done"][n].sub = m
        BY <1>1, <1>4, <2>1
      <4> QED BY <2>1, <4>1 DEF Sync_return
    <3> QED BY <1>1, <1>4, <2>1, <3>1
  <2>2. CASE ~back
    <3>1. fr' = [fr EXCEPT ![m].st = "done"]
      BY <2>2 DEF Sync_return
    <3> QED BY SMTT(30), <2>2, <3>1
  <2> QED BY <2>1, <2>2
<1>8. back => n > 0 /\ fr[n].st = "await" /\ fr[n].sub = m
  OBVIOUS
<1>9. Called(m) => back \/ fr[n].st = "done" \/ fr[n].set
  <2>1. Called(m) => n \in DOMAIN fr /\ n > 0
    BY <1>1, ShapeUses, FramesAreIds DEF Ids
  <2> QED BY <1>1, <1>2, <2>1 DEF WaitsOf
<1> HIDE DEF u, w, back
<1>10. Steady /\ \A k \in DOMAIN fr : fr'[k] = IF k = m THEN u ELSE IF back /\ k = n THEN w ELSE fr[k]
  <2>1. CASE back
    BY <1>1, <1>4, <1>5, <1>6, <1>7, <2>1, SetTwoFrames
  <2>2. CASE ~back
    BY <1>1, <1>5, <1>7, <2>2, SetFrame
  <2> QED BY <2>1, <2>2
<1>11. DOMAIN fr' = DOMAIN fr /\ \A k \in DOMAIN fr : SameCall(fr[k], fr'[k])
  BY <1>10 DEF Steady
<1>12. Onward
  BY <1>1, <1>4, <1>5, <1>6, <1>8, <1>10 DEF Onward
<1>13. t \in Threads /\ stack[t] \in Seq(Ids)
  BY <1>1, OnItsStack DEF Up, CallTypes
<1>14. 1 \in 1..Len(stack[t]) /\ stack[t][Len(stack[t])] = m
  BY <1>1, OnItsStack DEF Up, Last
<1>15. Len(stack[t]) \in Nat /\ stack'[t] \in Seq(Ids) /\ Len(stack'[t]) = Len(stack[t]) - 1
       /\ \A i \in 1..Len(stack[t]) - 1 : stack'[t][i] = stack[t][i]
  <2>1. stack'[t] = Front(stack[t])
    BY <1>1, <1>13 DEF CallTypes
  <2> HIDE DEF t
  <2> QED BY <1>13, <1>14, <2>1, FrontOf
<1>16. \A r \in Threads : r # t => stack'[r] = stack[r] /\ s2a'[r] = s2a[r]
  BY <1>1, <1>13 DEF CallTypes
<1>17. CallTypes'
  <2>1. stack' \in [Threads -> Seq(Ids)]
    <3>1. stack' = [r \in Threads |-> stack'[r]]
      BY <1>1 DEF CallTypes
    <3>2. \A r \in Threads : stack'[r] \in Seq(Ids)
      BY <1>15, <1>16 DEF CallTypes
    <3> QED BY <3>1, <3>2
  <2>2. s2a' \in [Threads -> Loops]
    <3>1. 0 \in Loops
      BY CallAssumption DEF Loops
    <3> QED BY <1>1, <3>1 DEF CallTypes
  <2> QED BY <1>1, <1>10, <2>1, <2>2 DEF CallTypes, Steady
<1>18. Shape'
  BY <1>10, ShapeKept
<1>19. ASSUME NEW k \in DOMAIN fr PROVE WaitsOf(k)'
  <2>1. WaitsOf(k)
    BY DEF Waits
  <2>2. Called(k) => fr[k].by \in DOMAIN fr /\ fr[fr[k].by].kind # fr[k].kind
    BY ShapeUses
  <2>3. SameCall(fr[k], fr'[k]) /\ fr[k].kind \in Kinds
    BY <1>11, FramesAreIds DEF FrameType
  <2>4. CASE k = m
    <3>1. fr'[k].st = "done" /\ fr'[k].used = fr[k].used /\ fr'[k].kind = fr[k].kind
      BY <1>1, <1>5, <1>10, <2>3, <2>4 DEF SameCall
    <3> QED BY <2>1, <3>1, <1>1, <2>4 DEF WaitsOf
  <2>5. CASE k # m /\ back /\ k = n
    <3>1. fr'[k] = w /\ fr[k].kind = "task" /\ fr[k].st = "await"
      BY <1>4, <1>8, <1>10, <2>5
    <3>2. Called(k) => fr[fr[k].by].st \in {"sched", "idle"} /\ fr[fr[k].by].sub = k
      BY <2>1, <3>1 DEF WaitsOf
    <3>3. Called(k) => fr[k].by # m /\ fr[k].by # n
      BY <1>1, <2>2, <2>5, <3>2
    <3>4. Called(k) => fr'[fr[k].by] = fr[fr[k].by]
      BY <1>10, <2>2, <3>3
    <3> QED BY <1>6, <1>11, <2>1, <2>3, <2>5, <3>1, <3>2, <3>4 DEF WaitsOf, Called, SameCall, Up, Busy
  <2>6. CASE k # m /\ ~(back /\ k = n)
    <3>1. fr'[k] = fr[k]
      BY <1>10, <2>6
    <3>2. fr[k].st \in {"sched", "idle"} => /\ fr[k].sub \in DOMAIN fr /\ fr'[fr[k].sub].link = "call" /\ fr'[fr[k].sub].by = k
                                            /\ (fr'[fr[k].sub].st = "wait" <=> fr[k].st = "sched")
      <4> SUFFICES ASSUME fr[k].st \in {"sched", "idle"}
                   PROVE  /\ fr[k].sub \in DOMAIN fr /\ fr'[fr[k].sub].link = "call" /\ fr'[fr[k].sub].by = k
                          /\ (fr'[fr[k].sub].st = "wait" <=> fr[k].st = "sched")
        OBVIOUS
      <4> DEFINE g == fr[k].sub
      <4>1. g \in DOMAIN fr /\ fr[g].link = "call" /\ fr[g].by = k /\ (fr[g].st = "wait" <=> fr[k].st = "sched")
        BY <2>1 DEF WaitsOf, Called
      <4> HIDE DEF g
      <4>2. SameCall(fr[g], fr'[g])
        BY <1>11, <4>1
      <4>3. fr'[g].st = "wait" <=> fr[g].st = "wait"
        BY <1>1, <1>5, <1>6, <1>8, <1>10, <4>1
      <4> QED BY <4>1, <4>2, <4>3 DEF g, SameCall
    <3>3. CASE fr[k].kind = "task"
      <4>1. Called(k) /\ fr[k].st # "done" => fr'[fr[k].by] = fr[fr[k].by]
        <5>1. Called(k) /\ fr[k].st # "done" => fr[fr[k].by].st \in {"sched", "idle"}
          BY <2>1, <3>3 DEF WaitsOf
        <5>2. Called(k) /\ fr[k].st # "done" => fr[k].by # m /\ ~(back /\ fr[k].by = n)
          BY <1>1, <1>8, <5>1
        <5> QED BY <1>10, <2>2, <5>2
      <4> QED BY <1>11, <2>1, <2>2, <2>3, <3>1, <3>2, <3>3, <4>1 DEF WaitsOf, Called, SameCall
    <3>4. CASE fr[k].kind = "sync"
      <4>1. Called(k) /\ ~(back /\ fr[k].by = n) => fr'[fr[k].by] = fr[fr[k].by]
        BY <1>1, <1>10, <2>2, <3>4
      <4>2. Called(k) /\ back /\ fr[k].by = n => fr[n].st = "await" /\ fr[n].sub # k /\ fr'[fr[k].by].set = fr[n].set
        BY <1>4, <1>6, <1>8, <1>10, <2>6
      <4>3. Called(k) /\ back /\ fr[k].by = n => fr[k].st # "new"
        BY <2>1, <3>4, <4>2 DEF WaitsOf
      <4>4. Called(k) /\ back /\ fr[k].by = n /\ fr[k].st # "done" => fr'[fr[k].by].set
        BY <2>1, <3>4, <4>2 DEF WaitsOf
      <4> QED BY <1>11, <2>1, <2>2, <2>3, <3>1, <3>2, <3>4, <4>1, <4>3, <4>4 DEF WaitsOf, Called, SameCall
    <3> QED BY <2>3, <3>3, <3>4 DEF Kinds
  <2> QED BY <2>4, <2>5, <2>6
<1>20. Waits'
  BY <1>11, <1>19 DEF Waits
<1>21. Tells' /\ Pools' /\ Ends'
  BY <1>1, <1>10, <1>12, TellsKept, PoolsKept, EndsKept
<1>22. Launched'
  <2>1. \A k \in DOMAIN fr : fr[k].kind = "task" => (fr'[k].st \in Busy <=> fr[k].st \in Busy)
    BY <1>1, <1>4, <1>6, <1>8, <1>10 DEF Busy
  <2> QED BY <1>1, <1>10, <2>1, LaunchedKept
<1>23. \A k \in DOMAIN fr : fr[k].kind = "sync" /\ k # m => fr'[k] = fr[k]
  BY <1>4, <1>10
<1>24. ASSUME NEW r \in Threads, NEW i \in 1..Len(stack'[r])
       PROVE  /\ i \in 1..Len(stack[r]) /\ stack'[r][i] = stack[r][i] /\ stack[r][i] # m
              /\ \A j \in 1..i - 1 : stack'[r][j] = stack[r][j]
              /\ i < Len(stack'[r]) => stack'[r][i + 1] = stack[r][i + 1] /\ i < Len(stack[r]) /\ i + 1 \in 1..Len(stack[r])
              /\ i = 1 => s2a'[r] = s2a[r]
  <2>1. Len(stack[r]) \in Nat /\ Len(stack'[r]) \in Nat
    BY SMTT(30), <1>17 DEF CallTypes
  <2>2. CASE r # t
    <3>1. stack'[r] = stack[r] /\ s2a'[r] = s2a[r]
      BY <1>16, <2>2
    <3>2. OnStack(r, i)
      BY <1>24, <3>1 DEF Stacks
    <3>3. stack[r][i] # m
      BY <2>2, <3>2 DEF OnStack
    <3> QED BY <1>24, <2>1, <3>1, <3>3
  <2>3. CASE r = t
    <3>1. i \in 1..Len(stack[t]) - 1 /\ i \in 1..Len(stack[t]) /\ i < Len(stack[t])
      BY <1>15, <1>24, <2>3
    <3>2. OnStack(t, Len(stack[t])) /\ Len(stack[t]) > 1
      BY <1>13, <1>15, <3>1 DEF Stacks
    <3>3. ~fr[m].set /\ \A j \in 1..Len(stack[t]) - 1 : stack[t][j] < m
      BY <1>14, <3>2 DEF OnStack
    <3>4. s2a' = s2a
      BY <1>1, <3>3
    <3>5. stack[t][i] < m
      BY <3>1, <3>3
    <3>6. stack[t][i] # m
      BY <1>2, <3>5
    <3>7. stack'[t][i] = stack[t][i] /\ Len(stack'[t]) = Len(stack[t]) - 1
      BY <1>15, <3>1
    <3>8. \A j \in 1..i - 1 : j \in 1..Len(stack[t]) - 1
      BY <1>15, <3>1
    <3>9. i < Len(stack'[t]) => i + 1 \in 1..Len(stack[t]) - 1 /\ i + 1 \in 1..Len(stack[t])
      BY <1>15, <3>1, <3>7
    <3>10. \A j \in 1..i - 1 : stack'[t][j] = stack[t][j]
      BY <1>15, <3>8
    <3>11. i < Len(stack'[t]) => stack'[t][i + 1] = stack[t][i + 1]
      BY <1>15, <3>9
    <3> HIDE DEF t
    <3> QED BY <2>3, <3>1, <3>4, <3>6, <3>7, <3>9, <3>10, <3>11
  <2> QED BY <2>2, <2>3
<1>25. ASSUME NEW r \in Threads, NEW i \in 1..Len(stack'[r]) PROVE OnStack(r, i)'
  <2> DEFINE f == stack[r][i]
             g == stack[r][i + 1]
  <2>1. OnStack(r, i) /\ i \in 1..Len(stack[r])
    BY <1>24 DEF Stacks
  <2>2. f \in DOMAIN fr /\ fr'[f] = fr[f] /\ (Called(f) => fr[f].by \in DOMAIN fr)
    BY <1>23, <1>24, <2>1, ShapeUses DEF OnStack
  <2>3. i < Len(stack'[r]) => g \in DOMAIN fr /\ SameCall(fr[g], fr'[g])
    <3>1. i < Len(stack'[r]) => OnStack(r, i + 1)
      BY <1>24 DEF Stacks
    <3> QED BY <1>11, <3>1 DEF OnStack
  <2>4. i < Len(stack'[r]) => fr'[f].st = "idle" /\ fr'[g].link = "call" /\ fr'[f].sub = fr'[g].by
    BY <1>24, <2>1, <2>2, <2>3 DEF OnStack, SameCall, Called
  <2>5. \A j \in 1..i - 1 : stack'[r][j] < f
    BY <1>24, <2>1 DEF OnStack
  <2>6. i = 1 => s2a'[r] = fr'[f].by /\ (fr'[f].link = "call" => fr'[f].set /\ ~(fr'[f].sens /\ fr'[fr'[f].by].link = "call"))
    BY <1>11, <1>24, <2>1, <2>2 DEF OnStack, Called, SameCall
  <2>7. f \in DOMAIN fr' /\ fr'[f].kind = "sync" /\ fr'[f].thread = r /\ fr'[f].st \in Up /\ (i > 1 => ~fr'[f].set)
    BY <1>11, <2>1, <2>2 DEF OnStack
  <2>8. stack'[r][i] = f /\ (i < Len(stack'[r]) => stack'[r][i + 1] = g)
    BY <1>24
  <2> HIDE DEF f, g
  <2> QED BY <2>4, <2>5, <2>6, <2>7, <2>8 DEF OnStack, Called
<1>26. Stacks'
  <2>1. ASSUME NEW r \in Threads, Len(stack'[r]) = 0 PROVE s2a'[r] = 0
    <3>1. CASE r # t
      BY <1>16, <2>1, <3>1 DEF Stacks
    <3>2. CASE r = t
      <4>1. Len(stack[t]) = 1 /\ stack[t][1] = m
        <5>1. Len(stack'[t]) = 0
          BY <2>1, <3>2
        <5>2. Len(stack[t]) = 1
          <6>1. Len(stack'[t]) = Len(stack[t]) - 1 /\ Len(stack[t]) \in Nat
            BY <1>15
          <6>2. Len(stack[t]) - 1 = 0
            BY <5>1, <6>1, Zenon
          <6>3. \A a \in Nat : a - 1 = 0 => a = 1
            OBVIOUS
          <6> QED BY <6>1, <6>2, <6>3, Zenon
        <5> QED BY <1>14, <5>2
      <4>2. OnStack(t, 1)
        BY <1>13, <1>14 DEF Stacks
      <4>3. s2a[t] = n /\ (Called(m) => fr[m].set)
        BY <4>1, <4>2 DEF OnStack
      <4> QED BY <1>1, <1>3, <1>13, <3>2, <4>3 DEF CallTypes
    <3> QED BY <3>1, <3>2
  <2>2. ASSUME NEW f \in DOMAIN fr', fr'[f].kind = "sync", fr'[f].st \in Up
        PROVE  \E i \in 1..Len(stack'[fr'[f].thread]) : stack'[fr'[f].thread][i] = f
    <3>1. f # m
      BY <1>1, <1>5, <1>10, <2>2 DEF Up
    <3>2. f \in DOMAIN fr /\ fr'[f] = fr[f]
      BY <1>11, <1>23, <2>2, <3>1 DEF SameCall
    <3>3. PICK i \in 1..Len(stack[fr[f].thread]) : stack[fr[f].thread][i] = f
      BY <2>2, <3>2 DEF Stacks
    <3>4. fr[f].thread \in Threads
      BY <2>2, <3>2 DEF Shape, Placed
    <3>5. i \in 1..Len(stack'[fr[f].thread]) /\ stack'[fr[f].thread][i] = f
      <4>1. CASE fr[f].thread # t
        BY <1>16, <3>3, <3>4, <4>1
      <4>2. CASE fr[f].thread = t
        <5>1. i # Len(stack[t])
          BY <1>14, <3>1, <3>3, <4>2
        <5> QED BY <1>15, <3>3, <4>2, <5>1
      <4> QED BY <4>1, <4>2
    <3> QED BY <3>2, <3>5
  <2> QED BY <1>11, <1>25, <2>1, <2>2 DEF Stacks
<1>27. ASSUME NEW k \in DOMAIN fr PROVE Applies(k)' = Applies(k)
  <2>1. Called(k) => fr[k].by \in DOMAIN fr
    BY ShapeUses
  <2> QED BY <1>11, <2>1 DEF Applies, Called, SameCall
<1>28. Currents'
  <2>1. ASSUME NEW k \in DOMAIN fr, Intact(k)', Frontier(k)', NEW r \in fr'[k].above, ~Called(r)'
        PROVE  cur'[Obj(r)'] = Applies(k)'
    <3>1. Intact(k)
      BY <1>12, <2>1, IntactBefore, SteadyIsGrown
    <3>2. r \in fr[k].above /\ r \in DOMAIN fr
      BY <1>11, <2>1, ShapeUses DEF SameCall
    <3>3. ~Called(r) /\ Obj(r)' = Obj(r)
      BY <1>11, <2>1, <3>2 DEF Called, SameCall, Obj
    <3>4. CASE back /\ k = n
      <4>1. Intact(m) /\ r \in fr[m].above
        <5>1. fr[m].above = fr[k].above \cup {m}
          BY <1>4, <3>4
        <5> QED BY <1>1, <3>1, <3>2, <5>1 DEF Intact, Attached
      <4>2. cur[Obj(r)] = Applies(m)
        BY <1>1, <3>3, <4>1 DEF Currents, Frontier
      <4>3. Applies(m) = Applies(k)
        BY <1>1, <1>4, <3>4 DEF Applies
      <4> QED BY <1>1, <1>27, <3>3, <4>2, <4>3
    <3>5. CASE ~(back /\ k = n)
      <4>1. Frontier(k)
        BY <1>1, <1>5, <1>10, <2>1, <3>5 DEF Frontier
      <4>2. cur[Obj(r)] = Applies(k)
        BY <3>1, <3>2, <3>3, <4>1 DEF Currents
      <4> QED BY <1>1, <1>27, <3>3, <4>2
    <3> QED BY <3>4, <3>5
  <2>2. ASSUME NEW k \in DOMAIN fr, Intact(k)', fr'[k].st \in {"sched", "idle"}
        PROVE  fr'[k].old = Applies(k)'
    <3>1. Intact(k)
      BY <1>12, <2>2, IntactBefore, SteadyIsGrown
    <3>2. fr'[k] = fr[k]
      BY <1>5, <1>6, <1>10, <2>2
    <3>3. fr[k].old = Applies(k)
      BY <2>2, <3>1, <3>2 DEF Currents
    <3> QED BY <1>27, <3>2, <3>3
  <2>3. \A k \in Ids \ DOMAIN fr' : cur'[Task(k)] = 0
    BY <1>1, <1>11 DEF Currents
  <2> QED BY <1>11, <2>1, <2>2, <2>3 DEF Currents
<1> QED BY <1>17, <1>18, <1>20, <1>21, <1>22, <1>26, <1>28

-----------------------------------------------------------------------------
(* Steps that make a call *)

\* frame n makes the call e
Calls(n, u, e, x) ==
  /\ n \in DOMAIN fr /\ u \in FrameType /\ x \in FrameType /\ SameCall(fr[n], u)
  /\ fr[n].st = "run" /\ u.set = fr[n].set /\ u.used = fr[n].used
  /\ e = Len(fr) + 1 /\ e <= MaxFrames /\ fr' = Append([fr EXCEPT ![n] = u], x)

Longer(n, u, e, x) ==
  /\ fr' \in Seq(FrameType) /\ Len(fr') \in 1..MaxFrames
  /\ DOMAIN fr' = DOMAIN fr \cup {e} /\ e \notin DOMAIN fr /\ e \in Ids /\ fr'[e] = x /\ n # e /\ DOMAIN fr = 1..e - 1
  /\ \A k \in DOMAIN fr : fr'[k] = (IF k = n THEN u ELSE fr[k]) /\ SameCall(fr[k], fr'[k])
  /\ Ahead /\ Grown /\ Added = {e}

\* What a step that makes a call does to the frames.
LEMMA AddFrame ==
  ASSUME CallTypes, NEW n, NEW u, NEW e, NEW x, Calls(n, u, e, x)
  PROVE  Longer(n, u, e, x)
<1> DEFINE s == [fr EXCEPT ![n] = u]
<1>1. /\ n \in DOMAIN fr /\ u \in FrameType /\ x \in FrameType /\ SameCall(fr[n], u)
      /\ fr[n].st = "run" /\ u.set = fr[n].set
      /\ e = Len(fr) + 1 /\ e <= MaxFrames /\ fr' = Append(s, x)
  BY DEF Calls
<1>2. fr \in Seq(FrameType) /\ \A k \in DOMAIN s : s[k] = IF k = n THEN u ELSE fr[k]
  BY <1>1 DEF CallTypes
<1>3. s = [k \in DOMAIN fr |-> s[k]]
  OBVIOUS
<1>4. DOMAIN fr = 1..Len(fr) /\ Len(fr) \in Nat /\ MaxFrames \in Nat /\ \A k \in DOMAIN fr : fr[k] \in FrameType
  BY FramesAreIds
<1>5. \A k \in DOMAIN fr : s[k] \in FrameType
  BY <1>1, <1>2, <1>4
<1> HIDE DEF s
<1>6. s \in Seq(FrameType) /\ Len(s) = Len(fr) /\ DOMAIN s = DOMAIN fr
  BY <1>2, <1>3, <1>5, FrameSeq
<1>7. /\ fr' \in Seq(FrameType) /\ Len(fr') = e /\ DOMAIN fr' = DOMAIN s \cup {e}
      /\ \A k \in DOMAIN s : fr'[k] = s[k]
      /\ fr'[e] = x /\ e \notin DOMAIN s
  BY <1>1, <1>6, FrameAppend
<1>8. e \in Ids /\ e \in 1..MaxFrames /\ n # e /\ DOMAIN fr = 1..e - 1
  BY <1>1, <1>4 DEF Ids
<1>9. \A k \in DOMAIN fr : fr'[k] = (IF k = n THEN u ELSE fr[k]) /\ SameCall(fr[k], fr'[k])
  BY <1>1, <1>2, <1>6, <1>7 DEF SameCall
<1>10. Grown /\ Added = {e}
  BY <1>6, <1>7, <1>9 DEF Grown, Added
<1>11. Ahead
  BY <1>1, <1>9, <1>10 DEF Ahead
<1> QED BY <1>6, <1>7, <1>8, <1>9, <1>10, <1>11 DEF Longer

\* The new frame of a call hangs under its caller.
LEMMA NewCall ==
  ASSUME CallTypes, Shape, NEW n, NEW u, NEW e, NEW x, Calls(n, u, e, x),
         x.link = "call", x.by = n, x.above = fr[n].above \cup {e}, x.kind # fr[n].kind
  PROVE  InTree(e)' /\ Linked(e)'
<1>0. Longer(n, u, e, x)
  BY AddFrame
<1>1. /\ DOMAIN fr' = DOMAIN fr \cup {e} /\ e \notin DOMAIN fr /\ e \in Ids /\ fr'[e] = x /\ n # e /\ DOMAIN fr = 1..e - 1
      /\ \A k \in DOMAIN fr : SameCall(fr[k], fr'[k])
  BY <1>0 DEF Longer
<1>2. n \in DOMAIN fr
  BY DEF Calls
<1>3. InTree(n) /\ fr[n].above \subseteq DOMAIN fr /\ n \in fr[n].above /\ SameCall(fr[n], fr'[n])
  BY <1>1, <1>2, ShapeUses DEF Shape
<1>4. e \in Nat /\ n \in 1..e - 1
  BY <1>1, <1>2, CallAssumption DEF Ids
<1>5. e \in fr'[e].above /\ fr'[e].above \subseteq 1..e
  BY <1>1, <1>3, <1>4
<1>6. \A c \in fr'[e].above : fr'[c].above \subseteq fr'[e].above
  BY <1>1, <1>3 DEF InTree, SameCall
<1>7. ASSUME NEW c \in fr'[e].above, c # e
      PROVE  \E g \in fr'[e].above : fr'[g].link = "call" /\ fr'[g].by = c
  <2>1. CASE c = n
    BY <1>1, <1>5, <2>1
  <2>2. CASE c # n
    <3>1. PICK g \in fr[n].above : Called(g) /\ fr[g].by = c
      BY <1>1, <1>3, <1>7, <2>2 DEF InTree
    <3>2. g \in fr'[e].above /\ fr'[g].link = "call" /\ fr'[g].by = c
      BY <1>1, <1>3, <3>1 DEF SameCall, Called
    <3> QED BY <3>2
  <2> QED BY <2>1, <2>2
<1>8. \E r \in fr'[e].above : fr'[r].link # "call"
  <2>1. PICK r \in fr[n].above : ~Called(r)
    BY <1>3 DEF InTree
  <2>2. r \in fr'[e].above /\ fr'[r].link # "call"
    BY <1>1, <1>3, <2>1 DEF SameCall, Called
  <2> QED BY <2>2
<1>9. InTree(e)'
  BY <1>5, <1>6, <1>7, <1>8 DEF InTree, Called
<1>10. Linked(e)'
  BY <1>1, <1>3, <1>4 DEF Linked, Called, SameCall
<1> QED BY <1>9, <1>10

\* Who waits for whom after a call, from what the caller and the new frame wait for.
LEMMA WaitsGrown ==
  ASSUME CallTypes, Shape, Waits, NEW n, NEW u, NEW e, NEW x, Calls(n, u, e, x),
         u.st \in {"run", "sched", "await"}, WaitsOf(n)', WaitsOf(e)'
  PROVE  Waits'
<1>1. /\ DOMAIN fr' = DOMAIN fr \cup {e} /\ e \notin DOMAIN fr /\ fr'[e] = x /\ n # e
      /\ \A k \in DOMAIN fr : fr'[k] = (IF k = n THEN u ELSE fr[k]) /\ SameCall(fr[k], fr'[k])
  BY AddFrame DEF Longer
<1>2. n \in DOMAIN fr /\ fr[n].st = "run" /\ u.set = fr[n].set /\ u.used = fr[n].used
  BY DEF Calls
<1>3. ASSUME NEW k \in DOMAIN fr, k # n PROVE WaitsOf(k)'
  <2>1. WaitsOf(k)
    BY DEF Waits
  <2>2. Called(k) => fr[k].by \in DOMAIN fr /\ fr[fr[k].by].kind # fr[k].kind
    BY ShapeUses
  <2>3. fr'[k] = fr[k] /\ fr[k].kind \in Kinds
    BY <1>1, <1>3, FramesAreIds DEF FrameType
  <2>4. fr[k].st \in {"sched", "idle"} => /\ fr[k].sub \in DOMAIN fr' /\ fr'[fr[k].sub].link = "call" /\ fr'[fr[k].sub].by = k
                                          /\ (fr'[fr[k].sub].st = "wait" <=> fr[k].st = "sched")
    <3> SUFFICES ASSUME fr[k].st \in {"sched", "idle"}
                 PROVE  /\ fr[k].sub \in DOMAIN fr' /\ fr'[fr[k].sub].link = "call" /\ fr'[fr[k].sub].by = k
                        /\ (fr'[fr[k].sub].st = "wait" <=> fr[k].st = "sched")
      OBVIOUS
    <3> DEFINE g == fr[k].sub
    <3>1. g \in DOMAIN fr /\ fr[g].link = "call" /\ fr[g].by = k /\ (fr[g].st = "wait" <=> fr[k].st = "sched")
      BY <2>1 DEF WaitsOf, Called
    <3> HIDE DEF g
    <3>2. SameCall(fr[g], fr'[g])
      BY <1>1, <3>1
    <3>3. fr'[g].st = "wait" <=> fr[g].st = "wait"
      BY <1>1, <1>2, <3>1
    <3> QED BY <1>1, <3>1, <3>2, <3>3 DEF g, SameCall
  <2>5. CASE fr[k].kind = "task"
    <3>1. Called(k) /\ fr[k].st # "done" => fr[k].by # n
      BY <1>2, <2>1, <2>5 DEF WaitsOf
    <3>2. Called(k) /\ fr[k].st # "done" => fr'[fr[k].by] = fr[fr[k].by]
      BY <1>1, <2>2, <3>1
    <3> QED BY <1>1, <2>1, <2>2, <2>3, <2>4, <2>5, <3>2 DEF WaitsOf, Called
  <2>6. CASE fr[k].kind = "sync"
    <3>1. Called(k) /\ fr[k].by # n => fr'[fr[k].by] = fr[fr[k].by]
      BY <1>1, <2>2
    <3>2. Called(k) /\ fr[k].by = n => fr[k].st # "new" /\ (fr[k].st # "done" => fr'[n].set)
      BY <1>1, <1>2, <2>1, <2>6 DEF WaitsOf
    <3> QED BY <1>1, <2>1, <2>2, <2>3, <2>4, <2>6, <3>1, <3>2 DEF WaitsOf, Called
  <2> QED BY <2>3, <2>5, <2>6 DEF Kinds
<1> QED BY <1>1, <1>3 DEF Waits

\* The caller was not cancelled, nor one further up.
LEMMA NotOrphan ==
  ASSUME NEW n, Calm', odd \cup Orphan(n) \subseteq odd'
  PROVE  Intact(n) /\ Calm
<1>1. "orphan" \notin Orphan(n)
  BY DEF Calm
<1>2. Intact(n)
  BY <1>1 DEF Orphan
<1> QED BY <1>2 DEF Calm

\* The context of a frame that calls, and who else uses it.
LEMMA CallersContext ==
  ASSUME CallParts, NEW n \in DOMAIN fr, Live(n), fr[n].st \in {"run", "idle"}
  PROVE  /\ Context(n) \in Objects
         /\ \A k \in Ids \ DOMAIN fr : Task(k) # Context(n)
         /\ Intact(n) => \A r \in fr[n].above : ~Called(r) => Obj(r) = Context(n)
         /\ \A k \in DOMAIN fr : k # n /\ Intact(k) /\ Frontier(k) =>
              \/ \A r \in fr[k].above : ~Called(r) => Obj(r) # Context(n)
              \/ fr[n].st = "idle" /\ fr[n].sub \in fr[k].above
<1> USE DEF CallParts
<1>1. Near(n) /\ Own(n) /\ Known(n)
  BY Contexts
<1>2. Context(n) \in Objects
  BY <1>1, ObjectKinds, FramesAreIds DEF Known
<1>3. ASSUME NEW k \in Ids \ DOMAIN fr PROVE Task(k) # Context(n)
  <2>1. \A j \in DOMAIN fr : Task(j) # Task(k)
    BY <1>3, ObjectKinds, FramesAreIds
  <2>2. \A t \in Threads : t # Task(k)
    BY <1>3, ObjectKinds
  <2> QED BY <1>1, <2>1, <2>2 DEF Known
<1>4. Intact(n) => \A r \in fr[n].above : ~Called(r) => Obj(r) = Context(n)
  BY <1>1 DEF Own, Intact
<1>5. ASSUME NEW k \in DOMAIN fr, k # n, Intact(k), Frontier(k), NEW r \in fr[k].above, ~Called(r), Obj(r) = Context(n)
      PROVE  fr[n].st = "idle" /\ fr[n].sub \in fr[k].above
  <2>1. n \in fr[k].above
    BY <1>1, <1>5 DEF Near
  <2>2. fr[n].sub \in fr[k].above /\ fr[n].st \in {"sched", "idle", "await"}
    BY <1>5, <2>1, NextDown
  <2> QED BY <2>2
<1> QED BY <1>2, <1>3, <1>4, <1>5

LEMMA Async_callKeeps == ASSUME CallParts, Calm', NEW n \in Ids, NEW b \in BOOLEAN, Async_call(n, b) PROVE CallParts'
<1> USE DEF CallParts
<1>12. PICK e : e = Len(fr) + 1
  OBVIOUS
<1> DEFINE loop == IF ~b /\ main[fr[n].thread] >= 0 /\ Runs(main[fr[n].thread]) THEN main[fr[n].thread] ELSE e
           new == Frame("task", n, "call", loop, NoThread, fr[n].above \cup {e})
           u == [fr[n] EXCEPT !.st = "sched", !.sub = e, !.old = cur[Context(n)]]
           x == [new EXCEPT !.st = "wait", !.dead = fr[n].dead, !.ctx = fr[n].ctx]
<1>1. n \in DOMAIN fr /\ fr[n].st = "run" /\ fr[n].kind = "sync" /\ Len(fr) < MaxFrames
      /\ fr' = Append([fr EXCEPT ![n] = u], x) /\ cur' = [cur EXCEPT ![Context(n)] = e] /\ odd' = odd \cup Orphan(n)
      /\ UNCHANGED <<stack, phase, q, pool, a2s, s2a, main, owned>>
  BY <1>12 DEF Async_call, Running
<1>2. Intact(n)
  BY <1>1, NotOrphan
<1>3. Live(n)
  BY <1>1 DEF Live, Up
<1>4. fr[n] \in FrameType /\ n \in Loops /\ WaitsOf(n) /\ DOMAIN fr = 1..Len(fr) /\ Len(fr) \in Nat /\ MaxFrames \in Nat
      /\ fr[n].above \subseteq DOMAIN fr /\ DOMAIN fr \subseteq Ids
  BY <1>1, FramesAreIds, ShapeUses DEF Waits, Loops, Ids
<1>5. e \in Ids /\ e \in Loops /\ e <= MaxFrames
  BY <1>1, <1>4, <1>12 DEF Ids, Loops
<1>6. /\ Context(n) \in Objects
      /\ \A k \in Ids \ DOMAIN fr : Task(k) # Context(n)
      /\ \A r \in fr[n].above : ~Called(r) => Obj(r) = Context(n)
      /\ \A k \in DOMAIN fr : k # n /\ Intact(k) /\ Frontier(k) => \A r \in fr[k].above : ~Called(r) => Obj(r) # Context(n)
  BY <1>1, <1>2, <1>3, CallersContext
<1>7. cur[Context(n)] \in Loops
  BY <1>6 DEF CallTypes
<1>8. loop \in Loops
  <2>1. fr[n].thread \in Threads
    BY <1>1 DEF Shape, Placed
  <2>2. main[fr[n].thread] \in {-1} \cup Loops
    BY <2>1 DEF CallTypes
  <2> QED BY <1>5, <2>2
<1> HIDE DEF loop
<1>9. /\ new \in FrameType
      /\ new.kind = "task" /\ new.by = n /\ new.link = "call" /\ new.above = fr[n].above \cup {e} /\ new.sens = FALSE
      /\ new.sub = 0 /\ new.set = FALSE /\ new.used = FALSE
  <2>1. fr[n].above \cup {e} \in SUBSET Ids
    BY <1>4, <1>5
  <2>2. "task" \in Kinds /\ "call" \in {"root", "call", "spawn"} /\ NoThread \in Threads \cup {NoThread}
    BY DEF Kinds
  <2>3. new \in FrameType
    <3>1. 0 \in Loops /\ "new" \in FrameStates /\ FALSE \in BOOLEAN /\ 0 \in {0, 1}
      BY CallAssumption DEF Loops, FrameStates
    <3> QED BY <1>4, <1>8, <2>1, <2>2, <3>1 DEF FrameType, Frame
  <2>4. /\ new.kind = "task" /\ new.by = n /\ new.link = "call" /\ new.above = fr[n].above \cup {e} /\ new.sens = FALSE
        /\ new.sub = 0 /\ new.set = FALSE /\ new.used = FALSE
    BY DEF Frame
  <2> QED BY <2>3, <2>4
<1> HIDE DEF new
<1>10. /\ x \in FrameType
       /\ x.kind = "task" /\ x.by = n /\ x.link = "call" /\ x.above = fr[n].above \cup {e}
       /\ x.st = "wait" /\ x.sens = FALSE /\ x.set = FALSE /\ x.used = FALSE
  BY ZenonT(40), <1>4, <1>9 DEF FrameType, FrameStates
<1>11. /\ u \in FrameType /\ SameCall(fr[n], u) /\ u.st = "sched" /\ u.sub = e /\ u.old = cur[Context(n)]
       /\ u.set = fr[n].set /\ u.used = fr[n].used
  BY <1>4, <1>5, <1>7 DEF FrameType, SameCall, FrameStates, Up
<1> HIDE DEF u, x
<1>13. Calls(n, u, e, x)
  BY <1>1, <1>5, <1>10, <1>11, <1>12 DEF Calls
<1>14. Longer(n, u, e, x)
  BY <1>13, AddFrame
<1>15. /\ DOMAIN fr' = DOMAIN fr \cup {e} /\ e \notin DOMAIN fr /\ fr'[e] = x /\ n # e /\ fr'[n] = u /\ e \in Nat
       /\ \A k \in DOMAIN fr : fr'[k] = (IF k = n THEN u ELSE fr[k]) /\ SameCall(fr[k], fr'[k])
       /\ Ahead /\ Grown /\ Added = {e}
  BY <1>1, <1>4, <1>12, <1>14 DEF Longer
<1>16. CallTypes'
  <2>1. cur' \in [Objects -> Loops]
    BY <1>1, <1>5 DEF CallTypes
  <2> QED BY <1>1, <1>14, <2>1 DEF CallTypes, Longer
<1>17. Shape'
  <2>1. InTree(e)' /\ Linked(e)'
    BY <1>1, <1>10, <1>13, NewCall
  <2>2. Placed(e)'
    BY <1>10, <1>15 DEF Placed
  <2> QED BY <1>15, <2>1, <2>2, ShapeGrown
<1>18. Waits'
  <2>1. WaitsOf(e)'
    BY <1>10, <1>11, <1>15 DEF WaitsOf, Called, Up, Busy
  <2>2. WaitsOf(n)'
    <3>1. Called(n) => fr[n].by \in DOMAIN fr /\ fr[n].by # n
      BY <1>1, ShapeUses, FramesAreIds
    <3>2. Called(n) => fr'[fr[n].by] = fr[fr[n].by]
      BY <1>15, <3>1
    <3>3. fr'[n].kind = "sync" /\ fr'[n].by = fr[n].by /\ (fr'[n].link = "call" => Called(n))
      BY <1>1, <1>11, <1>15 DEF SameCall, Called
    <3>4. Called(n) => fr[fr[n].by].st = "done" \/ fr[fr[n].by].set \/ (fr[fr[n].by].st = "await" /\ fr[fr[n].by].sub = n)
      BY <1>1, <1>4 DEF WaitsOf
    <3>5. ~fr[n].used
      BY <1>1, <1>4 DEF WaitsOf
    <3> QED BY <1>10, <1>11, <1>15, <3>2, <3>3, <3>4, <3>5 DEF WaitsOf, Called, Up
  <2> QED BY <1>11, <1>13, <2>1, <2>2, WaitsGrown
<1>19. Tells' /\ Pools' /\ Ends'
  BY <1>1, <1>15, TellsGrown, PoolsGrown, EndsGrown
<1>20. Stacks'
  BY <1>1, <1>10, <1>11, <1>15, StacksGrown DEF Up
<1>21. Launched'
  BY <1>1, <1>10, <1>11, <1>15, LaunchedGrown DEF Busy
<1>22. \A o \in Objects : cur'[o] = IF o = Context(n) THEN e ELSE cur[o]
  BY <1>1, <1>6 DEF CallTypes
<1>23. ASSUME NEW k \in DOMAIN fr', Intact(k)', Frontier(k)', NEW r \in fr'[k].above, ~Called(r)'
       PROVE  cur'[Obj(r)'] = Applies(k)'
  <2>1. CASE k = e
    <3>1. r \in fr[n].above /\ r \in DOMAIN fr
      BY <1>4, <1>10, <1>15, <1>23, <2>1 DEF Called
    <3>2. ~Called(r) /\ Obj(r)' = Obj(r)
      BY <1>15, <1>23, <3>1 DEF Called, SameCall, Obj
    <3>3. Obj(r) = Context(n) /\ cur'[Context(n)] = e
      BY <1>6, <1>22, <3>1, <3>2
    <3>4. Applies(k)' = e
      BY <1>10, <1>15, <2>1 DEF Applies, Called
    <3> QED BY <3>2, <3>3, <3>4
  <2>2. CASE k # e
    <3>1. k \in DOMAIN fr /\ k # n
      BY <1>11, <1>15, <1>23, <2>2 DEF Frontier
    <3>2. Intact(k) /\ fr'[k] = fr[k]
      BY <1>15, <1>23, <3>1, IntactBefore
    <3>3. Frontier(k) /\ r \in fr[k].above /\ r \in DOMAIN fr
      BY <1>23, <3>1, <3>2, ShapeUses DEF Frontier
    <3>4. ~Called(r) /\ Obj(r)' = Obj(r)
      BY <1>15, <1>23, <3>3 DEF Called, SameCall, Obj
    <3>5. Obj(r) # Context(n) /\ cur[Obj(r)] = Applies(k)
      BY <1>6, <3>1, <3>2, <3>3, <3>4 DEF Currents
    <3>6. Obj(r) \in Objects
      <4>1. r \in Ids /\ fr[r].kind \in Kinds
        BY <3>3, FramesAreIds DEF FrameType
      <4>2. fr[r].kind = "sync" => fr[r].thread \in Threads
        BY <3>3 DEF Shape, Placed
      <4> QED BY <4>1, <4>2, ObjectKinds DEF Obj, Kinds
    <3>7. Applies(k)' = Applies(k)
      BY <1>15, <3>1, SameApplies
    <3> QED BY <1>22, <3>4, <3>5, <3>6, <3>7
  <2> QED BY <2>1, <2>2
<1>24. ASSUME NEW k \in DOMAIN fr', Intact(k)', fr'[k].st \in {"sched", "idle"}
       PROVE  fr'[k].old = Applies(k)'
  <2>1. k \in DOMAIN fr
    BY <1>10, <1>15, <1>24
  <2>2. Applies(k)' = Applies(k)
    BY <1>15, <2>1, SameApplies
  <2>3. CASE k = n
    <3>1. PICK r \in fr[n].above : ~Called(r)
      BY <1>1 DEF Shape, InTree
    <3>2. cur[Obj(r)] = Applies(n) /\ Obj(r) = Context(n)
      BY <1>1, <1>2, <1>6, <3>1 DEF Currents, Frontier
    <3> QED BY <1>11, <1>15, <2>2, <2>3, <3>2
  <2>4. CASE k # n
    <3>1. fr'[k] = fr[k] /\ Intact(k)
      BY <1>15, <1>24, <2>1, <2>4, IntactBefore
    <3> QED BY <1>24, <2>1, <2>2, <3>1 DEF Currents
  <2> QED BY <2>3, <2>4
<1>25. Currents'
  <2>1. ASSUME NEW k \in Ids \ DOMAIN fr' PROVE cur'[Task(k)] = 0
    <3>1. k \in Ids \ DOMAIN fr
      BY <1>15, <2>1
    <3>2. Task(k) # Context(n) /\ Task(k) \in Objects /\ cur[Task(k)] = 0
      BY <1>6, <3>1, ObjectKinds DEF Currents
    <3> QED BY <1>22, <3>2
  <2> QED BY <1>23, <1>24, <2>1 DEF Currents
<1> QED BY <1>16, <1>17, <1>18, <1>19, <1>20, <1>21, <1>25

LEMMA Async_returnKeeps == ASSUME CallParts, NEW n \in Ids, Async_return(n) PROVE CallParts'
<1> USE DEF CallParts
<1>0. PICK e : e = fr[n].sub
  OBVIOUS
<1> DEFINE u == [fr[n] EXCEPT !.st = "run", !.sub = 0, !.old = 0, !.dead = fr[e].dead]
<1>1. n \in DOMAIN fr /\ fr[n].st = "idle" /\ Last(stack[fr[n].thread]) = n /\ q[e] # <<>> /\ Head(q[e]) = 0
      /\ q' = [q EXCEPT ![e] = Tail(@)] /\ cur' = [cur EXCEPT ![Context(n)] = fr[n].old]
      /\ fr' = [fr EXCEPT ![n].st = "run", ![n].sub = 0, ![n].old = 0, ![n].dead = fr[e].dead]
      /\ owned' \subseteq owned /\ UNCHANGED <<stack, phase, pool, a2s, s2a, main>>
  BY <1>0 DEF Async_return, AfterCall
<1>2. fr[n] \in FrameType /\ WaitsOf(n) /\ fr[n].kind \in Kinds
  BY <1>1, FramesAreIds DEF Waits, FrameType
<1>3. fr[n].kind = "sync" /\ e \in DOMAIN fr /\ Called(e) /\ fr[e].by = n /\ e \in Ids /\ fr[e] \in FrameType
  <2>1. fr[n].kind = "sync" /\ e \in DOMAIN fr /\ Called(e) /\ fr[e].by = n
    BY <1>0, <1>1, <1>2 DEF WaitsOf, Kinds, Busy
  <2> QED BY <2>1, FramesAreIds
<1>4. fr[e].st = "done"
  <2>1. q[e] \in Seq(Loops)
    BY <1>3 DEF CallTypes
  <2>2. 1 \in 1..Len(q[e]) /\ q[e][1] = 0
    BY <1>1, <2>1, QueueLess
  <2>3. ToldBy(e, q[e][1])
    BY <1>3, <2>2 DEF Tells
  <2> QED BY <2>2, <2>3 DEF ToldBy
<1>5. Live(n)
  BY <1>1, <1>3 DEF Live, Up
<1>6. /\ Context(n) \in Objects
      /\ \A k \in Ids \ DOMAIN fr : Task(k) # Context(n)
      /\ Intact(n) => \A r \in fr[n].above : ~Called(r) => Obj(r) = Context(n)
  BY <1>1, <1>5, CallersContext
<1>7. \A k \in DOMAIN fr : k # n /\ Intact(k) /\ Frontier(k) => \A r \in fr[k].above : ~Called(r) => Obj(r) # Context(n)
  <2>1. \A k \in DOMAIN fr : k # n /\ Intact(k) /\ Frontier(k) =>
              \/ \A r \in fr[k].above : ~Called(r) => Obj(r) # Context(n)
              \/ e \in fr[k].above
    BY <1>0, <1>1, <1>5, CallersContext
  <2> QED BY <1>4, <2>1 DEF Intact, Attached
<1>8. u \in FrameType /\ SameCall(fr[n], u) /\ u.st = "run" /\ u.set = fr[n].set /\ u.used = fr[n].used
  <2>1. 0 \in Loops /\ fr[e].dead \in BOOLEAN
    BY <1>3, CallAssumption DEF Loops, FrameType
  <2> QED BY <1>2, <2>1 DEF FrameType, SameCall, FrameStates, Up
<1>9. fr' = [fr EXCEPT ![n] = u]
  BY <1>1
<1> HIDE DEF u
<1>10. Steady /\ \A k \in DOMAIN fr : fr'[k] = IF k = n THEN u ELSE fr[k]
  BY <1>1, <1>8, <1>9, SetFrame
<1>11. DOMAIN fr' = DOMAIN fr /\ \A k \in DOMAIN fr : SameCall(fr[k], fr'[k])
  BY <1>10 DEF Steady
<1>12. Onward /\ Ahead /\ Grown /\ Added = {}
  <2>1. Onward
    BY <1>1, <1>8, <1>10 DEF Onward
  <2> QED BY <1>10, <2>1, SteadyIsGrown
<1>13. LessQueued
  BY <1>1, <1>3, QueueTaken
<1>14. \A o \in Objects : cur'[o] = IF o = Context(n) THEN fr[n].old ELSE cur[o]
  BY <1>1, <1>6 DEF CallTypes
<1>15. CallTypes'
  <2>1. cur' \in [Objects -> Loops]
    BY <1>1, <1>2 DEF CallTypes, FrameType
  <2> QED BY <1>1, <1>10, <1>13, <2>1 DEF CallTypes, Steady, LessQueued
<1>16. Shape'
  BY <1>10, ShapeKept
<1>17. ASSUME NEW k \in DOMAIN fr PROVE WaitsOf(k)'
  <2>1. WaitsOf(k)
    BY DEF Waits
  <2>2. Called(k) => fr[k].by \in DOMAIN fr /\ fr[fr[k].by].kind # fr[k].kind
    BY ShapeUses
  <2>3. SameCall(fr[k], fr'[k]) /\ fr[k].kind \in Kinds
    BY <1>11, FramesAreIds DEF FrameType
  <2>4. CASE k = n
    <3>1. fr'[k] = u
      BY <1>1, <1>10, <2>4
    <3>2. Called(k) => fr[k].by # n /\ fr'[fr[k].by] = fr[fr[k].by]
      BY <1>3, <1>10, <2>2, <2>4
    <3>3. fr'[k].kind = "sync" /\ fr'[k].by = fr[k].by /\ (fr'[k].link = "call" => Called(k))
      BY <1>3, <2>3, <2>4 DEF SameCall, Called
    <3>4. Called(k) => fr[fr[k].by].st = "done" \/ fr[fr[k].by].set \/ (fr[fr[k].by].st = "await" /\ fr[fr[k].by].sub = k)
      BY <1>1, <1>3, <2>1, <2>4 DEF WaitsOf
    <3>5. ~fr'[k].used /\ fr'[k].st = "run"
      BY <1>3, <1>8, <2>1, <2>4, <3>1 DEF WaitsOf
    <3> QED BY <1>11, <3>2, <3>3, <3>4, <3>5 DEF WaitsOf, Called, Up
  <2>5. CASE k # n
    <3>1. fr'[k] = fr[k]
      BY <1>10, <2>5
    <3>2. Called(k) /\ fr[k].st # "done" => fr[k].by # n
      <4>1. CASE fr[k].kind = "task"
        BY <1>0, <1>4, <2>1, <4>1 DEF WaitsOf
      <4>2. CASE fr[k].kind = "sync"
        BY <1>3, <2>2, <4>2
      <4> QED BY <2>3, <4>1, <4>2 DEF Kinds
    <3>3. Called(k) /\ fr[k].st # "done" => fr'[fr[k].by] = fr[fr[k].by]
      BY <1>10, <2>2, <3>2
    <3>4. fr[k].st \in {"sched", "idle"} => /\ fr[k].sub \in DOMAIN fr /\ fr'[fr[k].sub].link = "call" /\ fr'[fr[k].sub].by = k
                                            /\ (fr'[fr[k].sub].st = "wait" <=> fr[k].st = "sched")
      <4> SUFFICES ASSUME fr[k].st \in {"sched", "idle"}
                   PROVE  /\ fr[k].sub \in DOMAIN fr /\ fr'[fr[k].sub].link = "call" /\ fr'[fr[k].sub].by = k
                          /\ (fr'[fr[k].sub].st = "wait" <=> fr[k].st = "sched")
        OBVIOUS
      <4> DEFINE g == fr[k].sub
      <4>1. g \in DOMAIN fr /\ fr[g].link = "call" /\ fr[g].by = k /\ (fr[g].st = "wait" <=> fr[k].st = "sched")
        BY <2>1 DEF WaitsOf, Called
      <4> HIDE DEF g
      <4>2. SameCall(fr[g], fr'[g])
        BY <1>11, <4>1
      <4>3. fr'[g].st = "wait" <=> fr[g].st = "wait"
        BY <1>1, <1>8, <1>10, <4>1
      <4> QED BY <4>1, <4>2, <4>3 DEF g, SameCall
    <3> QED BY <1>11, <2>1, <2>2, <2>3, <3>1, <3>3, <3>4 DEF WaitsOf, Called, SameCall
  <2> QED BY <2>4, <2>5
<1>18. Waits'
  BY <1>11, <1>17 DEF Waits
<1>19. Tells'
  BY <1>12, <1>13, TellsMore DEF LessQueued
<1>20. Pools' /\ Ends'
  BY <1>1, <1>10, <1>12, PoolsKept, EndsKept
<1>21. Stacks'
  <2>1. stack[fr[n].thread][Len(stack[fr[n].thread])] = n
    BY <1>1 DEF Last
  <2> QED BY <1>1, <1>8, <1>10, <1>12, <2>1, StacksGrown DEF Up
<1>22. Launched'
  BY <1>1, <1>3, <1>10, LaunchedKept
<1>23. ASSUME NEW k \in DOMAIN fr, Intact(k)', Frontier(k)', NEW r \in fr'[k].above, ~Called(r)'
       PROVE  cur'[Obj(r)'] = Applies(k)'
  <2>1. Intact(k) /\ Applies(k)' = Applies(k)
    BY <1>12, <1>23, IntactBefore, SameApplies
  <2>2. r \in fr[k].above /\ r \in DOMAIN fr
    BY <1>11, <1>23, ShapeUses DEF SameCall
  <2>3. ~Called(r) /\ Obj(r)' = Obj(r)
    BY <1>11, <1>23, <2>2 DEF Called, SameCall, Obj
  <2>4. CASE k = n
    <3>1. Obj(r) = Context(n)
      BY <1>6, <2>1, <2>2, <2>3, <2>4
    <3>2. fr[n].old = Applies(n)
      BY <1>1, <2>1, <2>4 DEF Currents
    <3> QED BY <1>6, <1>14, <2>1, <2>3, <2>4, <3>1, <3>2
  <2>5. CASE k # n
    <3>1. Frontier(k)
      BY <1>10, <1>23, <2>5 DEF Frontier
    <3>2. Obj(r) # Context(n) /\ cur[Obj(r)] = Applies(k)
      BY <1>7, <2>1, <2>2, <2>3, <2>5, <3>1 DEF Currents
    <3>3. Obj(r) \in Objects
      <4>1. r \in Ids /\ fr[r].kind \in Kinds
        BY <2>2, FramesAreIds DEF FrameType
      <4>2. fr[r].kind = "sync" => fr[r].thread \in Threads
        BY <2>2 DEF Shape, Placed
      <4> QED BY <4>1, <4>2, ObjectKinds DEF Obj, Kinds
    <3> QED BY <1>14, <2>1, <2>3, <3>2, <3>3
  <2> QED BY <2>4, <2>5
<1>24. ASSUME NEW k \in DOMAIN fr, Intact(k)', fr'[k].st \in {"sched", "idle"}
       PROVE  fr'[k].old = Applies(k)'
  <2>1. Intact(k) /\ Applies(k)' = Applies(k)
    BY <1>12, <1>24, IntactBefore, SameApplies
  <2>2. fr'[k] = fr[k]
    BY <1>8, <1>10, <1>24
  <2> QED BY <1>24, <2>1, <2>2 DEF Currents
<1>25. Currents'
  <2>1. ASSUME NEW k \in Ids \ DOMAIN fr' PROVE cur'[Task(k)] = 0
    <3>1. k \in Ids \ DOMAIN fr
      BY <1>11, <2>1
    <3>2. Task(k) # Context(n) /\ Task(k) \in Objects /\ cur[Task(k)] = 0
      BY <1>6, <3>1, ObjectKinds DEF Currents
    <3> QED BY <1>14, <3>2
  <2> QED BY <1>11, <1>23, <1>24, <2>1 DEF Currents
<1> QED BY <1>15, <1>16, <1>18, <1>19, <1>20, <1>21, <1>22, <1>25

\* where the executor of a call is: of the task itself if it was called, else a thread of the process
\* or of a context
LEMMA ExecutorIs ==
  ASSUME CallParts, NEW n \in DOMAIN fr, fr[n].kind = "task", fr[n].st = "run", Intact(n), ~Started(n),
         Executor(n)[1] # "deadlock"
  PROVE  /\ Called(n) => Executor(n) = <<"current", n>>
         /\ ~Called(n) => Executor(n) = <<"single", 0>> \/ \E c \in Ids : Executor(n) = <<"context", c>>
<1> USE DEF CallParts
<1>1. Live(n)
  BY DEF Live, Busy
<1>2. PICK r \in fr[n].above : ~Called(r)
  BY DEF Shape, InTree
<1>3. Obj(r) = Context(n)
  BY <1>1, <1>2, CallersContext
<1>4. cur[Context(n)] = Applies(n)
  BY <1>2, <1>3 DEF Currents, Frontier
<1>5. n \in Ids /\ n # 0 /\ fr[n] \in FrameType
  BY FramesAreIds DEF Ids
<1>6. CASE Called(n)
  BY <1>4, <1>5, <1>6 DEF Applies, Executor
<1>7. CASE ~Called(n)
  <2>1. fr[n].link = "root"
    BY <1>5, <1>7 DEF Called, Started, FrameType
  <2>2. fr[n].loop = 0
    BY <2>1 DEF Shape, Linked
  <2>3. fr[n].loop \notin owned
    BY <2>2 DEF CallTypes, Ids
  <2>4. cur[Context(n)] = 0
    BY <1>4, <1>7 DEF Applies
  <2>5. Executor(n) = IF fr[n].ctx # 0 THEN <<"context", fr[n].ctx>>
                      ELSE IF fr[n].dead THEN <<"deadlock", 0>> ELSE <<"single", 0>>
    BY <2>3, <2>4 DEF Executor
  <2>6. fr[n].ctx # 0 => fr[n].ctx \in Ids
    BY <1>5 DEF FrameType, Loops, Ids
  <2>7. <<"deadlock", 0>>[1] = "deadlock"
    OBVIOUS
  <2> QED BY <1>7, <2>5, <2>6, <2>7
<1> QED BY <1>6, <1>7

LEMMA Sync_callKeeps == ASSUME CallParts, Calm', NEW n \in Ids, NEW sens \in BOOLEAN, Sync_call(n, sens) PROVE CallParts'
<1> USE DEF CallParts
<1>1. PICK m : m = Len(fr) + 1
  OBVIOUS
<1>2. PICK x : x = IF sens THEN Executor(n) ELSE <<"pool", m>>
  OBVIOUS
<1> DEFINE dead == fr[n].dead \/ x[1] = "single"
           new == Frame("sync", n, "call", fr[n].loop, WorkThread(x), fr[n].above \cup {m})
           u == [fr[n] EXCEPT !.st = "await", !.sub = m, !.dead = dead]
           y == [new EXCEPT !.sens = sens, !.dead = dead, !.ctx = fr[n].ctx]
<1>3. n \in DOMAIN fr /\ fr[n].st = "run" /\ fr[n].kind = "task" /\ Len(fr) < MaxFrames
      /\ fr' = Append([fr EXCEPT ![n] = u], y)
      /\ UNCHANGED <<stack, phase, cur, a2s, s2a, main, owned>>
  BY <1>1, <1>2 DEF Sync_call, Running
<1>4. /\ x[1] # "deadlock"
      /\ q' = IF x[1] = "current" THEN [q EXCEPT ![x[2]] = Append(@, m)] ELSE q
      /\ pool' = CASE x[1] = "single"  -> [pool EXCEPT ![0] = Append(@, m)]
                   [] x[1] = "context" -> [pool EXCEPT ![x[2]] = Append(@, m)]
                   [] OTHER -> pool
      /\ odd' = odd \cup Orphan(n) \cup (IF sens /\ Started(n) THEN {"spawned"} ELSE {})
  BY <1>1, <1>2 DEF Sync_call
<1>5. Intact(n) /\ (sens => ~Started(n))
  <2>1. Intact(n)
    BY <1>4, NotOrphan
  <2>2. "spawned" \notin odd'
    BY DEF Calm
  <2> QED BY <1>4, <2>1, <2>2
<1>6. fr[n] \in FrameType /\ n \in Loops /\ WaitsOf(n) /\ DOMAIN fr = 1..Len(fr) /\ Len(fr) \in Nat /\ MaxFrames \in Nat
      /\ fr[n].above \subseteq DOMAIN fr /\ DOMAIN fr \subseteq Ids
  BY <1>3, FramesAreIds, ShapeUses DEF Waits, Loops, Ids
<1>7. m \in Ids /\ m \in Loops /\ m <= MaxFrames
  BY <1>1, <1>3, <1>6 DEF Ids, Loops
<1>8. \/ ~sens /\ x = <<"pool", m>>
      \/ sens /\ Called(n) /\ x = <<"current", n>>
      \/ sens /\ ~Called(n) /\ x = <<"single", 0>>
      \/ sens /\ ~Called(n) /\ \E c \in Ids : x = <<"context", c>>
  BY <1>2, <1>3, <1>4, <1>5, ExecutorIs
<1>9. Called(n) => fr[n].by \in DOMAIN fr /\ fr[n].by # n /\ fr[fr[n].by].thread \in Threads
  <2>1. Called(n) => fr[n].by \in DOMAIN fr /\ fr[n].by < n /\ fr[fr[n].by].kind = "sync"
    BY <1>3, ShapeUses, FramesAreIds DEF FrameType, Kinds
  <2>2. Called(n) => fr[fr[n].by].thread \in Threads
    BY <2>1 DEF Shape, Placed
  <2>3. n \in Nat
    BY <1>3, FramesAreIds
  <2>4. Called(n) => fr[n].by \in Nat
    BY <2>1, FramesAreIds
  <2> QED BY <2>1, <2>2, <2>3, <2>4
<1>10. /\ WorkThread(x) \in Threads
       /\ ~sens => WorkThread(x) = <<"pool", m>>
       /\ sens /\ Called(n) => WorkThread(x) = fr[fr[n].by].thread
       /\ sens /\ ~Called(n) => WorkThread(x) \in {<<"single", 0>>} \cup {<<"context", c>> : c \in Ids}
  <2>1. CASE ~sens
    <3>1. WorkThread(x) = <<"pool", m>>
      BY <1>8, <2>1 DEF WorkThread
    <3> QED BY <1>7, <2>1, <3>1 DEF Threads
  <2>2. CASE sens /\ Called(n)
    <3>1. WorkThread(x) = fr[fr[n].by].thread
      BY <1>8, <2>2 DEF WorkThread
    <3> QED BY <1>9, <2>2, <3>1
  <2>3. CASE sens /\ ~Called(n)
    <3>1. WorkThread(x) \in {<<"single", 0>>} \cup {<<"context", c>> : c \in Ids}
      BY <1>8, <2>3 DEF WorkThread
    <3> QED BY <2>3, <3>1 DEF Threads
  <2> QED BY <2>1, <2>2, <2>3
<1>11. q' = IF sens /\ Called(n) THEN [q EXCEPT ![n] = Append(@, m)] ELSE q
  <2>1. CASE sens /\ Called(n)
    <3>1. x[1] = "current" /\ x[2] = n
      BY <1>8, <2>1
    <3> QED BY <1>4, <2>1, <3>1
  <2>2. CASE ~(sens /\ Called(n))
    <3>1. x = <<"pool", m>> \/ x = <<"single", 0>> \/ \E c \in Ids : x = <<"context", c>>
      BY <1>8, <2>2
    <3>2. x[1] # "current"
      <4>1. ASSUME NEW c \in Ids, x = <<"context", c>> PROVE x[1] # "current"
        BY <4>1
      <4>2. x = <<"pool", m>> => x[1] # "current"
        OBVIOUS
      <4>3. x = <<"single", 0>> => x[1] # "current"
        OBVIOUS
      <4> QED BY <3>1, <4>1, <4>2, <4>3
    <3> QED BY <1>4, <2>2, <3>2
  <2> QED BY <2>1, <2>2
<1>12. \/ pool' = pool
       \/ /\ sens /\ ~Called(n)
          /\ \E c \in Loops : WorkThread(x) = PoolThread(c) /\ pool' = [pool EXCEPT ![c] = Append(@, m)]
  <2>1. CASE x = <<"pool", m>> \/ x = <<"current", n>>
    BY <1>4, <2>1
  <2>2. CASE sens /\ ~Called(n) /\ x = <<"single", 0>>
    <3>1. pool' = [pool EXCEPT ![0] = Append(@, m)]
      BY <1>4, <2>2
    <3>2. WorkThread(x) = PoolThread(0) /\ 0 \in Loops
      BY <2>2, CallAssumption DEF WorkThread, PoolThread, Loops
    <3> QED BY <2>2, <3>1, <3>2
  <2>3. ASSUME sens, ~Called(n), NEW c \in Ids, x = <<"context", c>>
        PROVE  \E d \in Loops : WorkThread(x) = PoolThread(d) /\ pool' = [pool EXCEPT ![d] = Append(@, m)]
    <3>1. pool' = [pool EXCEPT ![c] = Append(@, m)]
      BY <1>4, <2>3
    <3>2. c \in Loops /\ c # 0
      BY CallAssumption DEF Ids, Loops
    <3>3. WorkThread(x) = PoolThread(c)
      BY <2>3, <3>2 DEF WorkThread, PoolThread
    <3> QED BY <3>1, <3>2, <3>3
  <2> QED BY <1>8, <2>1, <2>2, <2>3
<1>13. /\ new \in FrameType
       /\ new.kind = "sync" /\ new.by = n /\ new.link = "call" /\ new.above = fr[n].above \cup {m}
       /\ new.st = "new" /\ new.set = FALSE /\ new.used = FALSE /\ new.thread = WorkThread(x)
  <2>1. fr[n].above \cup {m} \in SUBSET Ids /\ fr[n].loop \in Loops
    BY <1>6, <1>7 DEF FrameType
  <2>2. "sync" \in Kinds /\ "call" \in {"root", "call", "spawn"} /\ WorkThread(x) \in Threads \cup {NoThread}
    BY <1>10 DEF Kinds
  <2>3. new \in FrameType
    <3>1. 0 \in Loops /\ "new" \in FrameStates /\ FALSE \in BOOLEAN /\ 0 \in {0, 1}
      BY CallAssumption DEF Loops, FrameStates
    <3> QED BY <1>6, <2>1, <2>2, <3>1 DEF FrameType, Frame
  <2>4. /\ new.kind = "sync" /\ new.by = n /\ new.link = "call" /\ new.above = fr[n].above \cup {m}
        /\ new.st = "new" /\ new.set = FALSE /\ new.used = FALSE /\ new.thread = WorkThread(x)
    BY DEF Frame
  <2> QED BY <2>3, <2>4
<1>14. dead \in BOOLEAN
  BY <1>6 DEF FrameType
<1> HIDE DEF new, dead
<1>15. /\ y \in FrameType
       /\ y.kind = "sync" /\ y.by = n /\ y.link = "call" /\ y.above = fr[n].above \cup {m} /\ y.sens = sens
       /\ y.st = "new" /\ y.set = FALSE /\ y.used = FALSE /\ y.thread = WorkThread(x)
  BY ZenonT(40), <1>6, <1>13, <1>14 DEF FrameType
<1>16. /\ u \in FrameType /\ SameCall(fr[n], u) /\ u.st = "await" /\ u.sub = m
       /\ u.set = fr[n].set /\ u.used = fr[n].used
  BY <1>6, <1>7, <1>14 DEF FrameType, SameCall, FrameStates, Busy
<1> HIDE DEF u, y
<1>17. Calls(n, u, m, y)
  BY <1>1, <1>3, <1>7, <1>15, <1>16 DEF Calls
<1>18. Longer(n, u, m, y)
  BY <1>17, AddFrame
<1>19. /\ DOMAIN fr' = DOMAIN fr \cup {m} /\ m \notin DOMAIN fr /\ fr'[m] = y /\ n # m /\ fr'[n] = u /\ m \in Nat
       /\ \A k \in DOMAIN fr : fr'[k] = (IF k = n THEN u ELSE fr[k]) /\ SameCall(fr[k], fr'[k])
       /\ Ahead /\ Grown /\ Added = {m}
  BY <1>1, <1>3, <1>6, <1>18 DEF Longer
<1>20. fr'[n].link = "call" <=> Called(n)
  BY <1>3, <1>19 DEF SameCall, Called
<1>21. CallTypes'
  <2>1. q' \in [Ids -> Seq(Loops)]
    BY <1>7, <1>11 DEF CallTypes
  <2>2. pool' \in [Loops -> Seq(Ids)]
    <3>1. ASSUME NEW c \in Loops, pool' = [pool EXCEPT ![c] = Append(@, m)]
          PROVE  pool' \in [Loops -> Seq(Ids)]
      <4>1. pool \in [Loops -> Seq(Ids)] /\ pool[c] \in Seq(Ids)
        BY DEF CallTypes
      <4>2. Append(pool[c], m) \in Seq(Ids)
        BY <1>7, <4>1
      <4> QED BY <3>1, <4>1, <4>2
    <3>2. pool \in [Loops -> Seq(Ids)]
      BY DEF CallTypes
    <3> QED BY <1>12, <3>1, <3>2
  <2> QED BY <1>3, <1>18, <2>1, <2>2 DEF CallTypes, Longer
<1>22. Shape'
  <2>1. InTree(m)' /\ Linked(m)'
    BY <1>3, <1>15, <1>17, NewCall
  <2>2. Called(n) => fr'[fr'[n].by].thread = fr[fr[n].by].thread
    BY <1>3, <1>9, <1>19 DEF SameCall
  <2>3. Placed(m)'
    BY <1>10, <1>15, <1>19, <1>20, <2>2 DEF Placed, Called
  <2> QED BY <1>19, <2>1, <2>3, ShapeGrown
<1>23. Waits'
  <2>1. WaitsOf(m)'
    BY <1>15, <1>16, <1>19 DEF WaitsOf, Called, Up
  <2>2. WaitsOf(n)'
    <3>1. Called(n) => fr'[fr[n].by] = fr[fr[n].by]
      BY <1>9, <1>19
    <3>2. fr'[n].kind = "task" /\ fr'[n].by = fr[n].by /\ fr'[n].st = "await"
      BY <1>3, <1>16, <1>19 DEF SameCall
    <3>3. Called(n) => fr[fr[n].by].st \in {"sched", "idle"} /\ fr[fr[n].by].sub = n
      BY <1>3, <1>6 DEF WaitsOf
    <3>4. ~fr'[n].set
      <4>1. n \in fr[n].above
        BY <1>3, ShapeUses
      <4> QED BY <1>3, <1>5, <1>16, <1>19, <4>1 DEF Intact
    <3> QED BY <1>20, <3>1, <3>2, <3>3, <3>4 DEF WaitsOf, Called, Busy
  <2> QED BY <1>16, <1>17, <2>1, <2>2, WaitsGrown
<1>24. Tells'
  <2>1. ASSUME NEW e \in Ids, NEW i \in 1..Len(q'[e])
        PROVE  \/ \E j \in 1..Len(q[e]) : q'[e][i] = q[e][j]
               \/ /\ q'[e][i] # 0 /\ q'[e][i] \in DOMAIN fr' /\ fr'[q'[e][i]].kind = "sync" /\ fr'[q'[e][i]].link = "call"
                  /\ fr'[q'[e][i]].sens /\ fr'[q'[e][i]].by = e /\ e \in DOMAIN fr' /\ fr'[e].link = "call"
    <3>1. CASE q'[e] = q[e]
      BY <2>1, <3>1
    <3>2. CASE e = n /\ sens /\ Called(n) /\ q'[e] = Append(q[e], m)
      <4>1. q[e] \in Seq(Loops)
        BY DEF CallTypes
      <4>2. q'[e][i] = m \/ (i \in 1..Len(q[e]) /\ q'[e][i] = q[e][i])
        BY <1>7, <2>1, <3>2, <4>1, QueueMore
      <4>3. m # 0 /\ m \in DOMAIN fr' /\ fr'[m].kind = "sync" /\ fr'[m].link = "call"
            /\ fr'[m].sens /\ fr'[m].by = e /\ e \in DOMAIN fr' /\ fr'[e].link = "call"
        <5>1. m # 0
          BY <1>7 DEF Ids
        <5>2. fr'[m].kind = "sync" /\ fr'[m].link = "call" /\ fr'[m].sens = sens /\ fr'[m].by = n
          BY <1>15, <1>19
        <5>3. m \in DOMAIN fr' /\ n \in DOMAIN fr'
          BY <1>3, <1>19
        <5> QED BY <1>20, <3>2, <5>1, <5>2, <5>3
      <4> QED BY <4>2, <4>3
    <3>3. q'[e] = q[e] \/ (e = n /\ sens /\ Called(n) /\ q'[e] = Append(q[e], m))
      BY <1>11 DEF CallTypes
    <3> QED BY <3>1, <3>2, <3>3
  <2> QED BY <1>19, <2>1, TellsGrown
<1>25. Pools'
  <2>1. ASSUME NEW c \in Loops, NEW i \in 1..Len(pool'[c])
        PROVE  \/ \E j \in 1..Len(pool[c]) : pool'[c][i] = pool[c][j]
               \/ /\ pool'[c][i] \in DOMAIN fr' /\ fr'[pool'[c][i]].kind = "sync" /\ fr'[pool'[c][i]].link = "call"
                  /\ fr'[pool'[c][i]].sens /\ fr'[fr'[pool'[c][i]].by].link # "call" /\ fr'[pool'[c][i]].thread = PoolThread(c)
    <3>1. CASE pool'[c] = pool[c]
      BY <2>1, <3>1
    <3>2. CASE sens /\ ~Called(n) /\ WorkThread(x) = PoolThread(c) /\ pool'[c] = Append(pool[c], m)
      <4>1. pool[c] \in Seq(Ids)
        BY DEF CallTypes
      <4>2. pool'[c][i] = m \/ (i \in 1..Len(pool[c]) /\ pool'[c][i] = pool[c][i])
        BY <1>7, <2>1, <3>2, <4>1, QueueMore
      <4>3. m \in DOMAIN fr' /\ fr'[m].kind = "sync" /\ fr'[m].link = "call"
            /\ fr'[m].sens /\ fr'[fr'[m].by].link # "call" /\ fr'[m].thread = PoolThread(c)
        BY <1>15, <1>19, <1>20, <3>2
      <4> QED BY <4>2, <4>3
    <3>3. pool'[c] = pool[c] \/ (sens /\ ~Called(n) /\ WorkThread(x) = PoolThread(c) /\ pool'[c] = Append(pool[c], m))
      BY <1>12 DEF CallTypes
    <3> QED BY <3>1, <3>2, <3>3
  <2> QED BY <1>19, <2>1, PoolsGrown
<1>26. Ends'
  BY <1>3, <1>19, EndsGrown
<1>27. Stacks'
  <2>1. \A k \in DOMAIN fr : fr[k].kind = "sync" => fr'[k] = fr[k]
    BY <1>3, <1>19
  <2> QED BY <1>3, <1>15, <1>19, <2>1, StacksGrown DEF Up
<1>28. Launched'
  BY <1>3, <1>15, <1>16, <1>19, LaunchedGrown DEF Busy
<1>29. Currents'
  <2>1. ASSUME NEW k \in DOMAIN fr
        PROVE  /\ Frontier(k)' /\ ~(fr'[k].kind = "task" /\ fr'[k].set) => Frontier(k)
               /\ fr'[k].st \in {"sched", "idle"} => fr[k].st \in {"sched", "idle"} /\ fr'[k].old = fr[k].old
    BY <1>16, <1>19 DEF Frontier
  <2>2. ASSUME NEW r \in fr'[m].above, ~Called(r)' PROVE cur[Obj(r)'] = Applies(m)'
    <3>1. r \in fr[n].above /\ r \in DOMAIN fr
      BY <1>6, <1>15, <1>19, <2>2 DEF Called
    <3>2. ~Called(r) /\ Obj(r)' = Obj(r)
      BY <1>19, <2>2, <3>1 DEF Called, SameCall, Obj
    <3>3. cur[Obj(r)] = Applies(n)
      BY <1>3, <1>5, <3>1, <3>2 DEF Currents, Frontier
    <3>4. Applies(m)' = Applies(n)
      BY <1>3, <1>15, <1>19, <1>20 DEF Applies, Called
    <3> QED BY <3>2, <3>3, <3>4
  <2>3. \A k \in Added : /\ fr'[k].st \notin {"sched", "idle"}
                         /\ Intact(k)' => \A r \in fr'[k].above : ~Called(r)' => cur[Obj(r)'] = Applies(k)'
    BY <1>15, <1>19, <2>2
  <2> QED BY <1>3, <1>19, <2>1, <2>3, CurrentsGrown
<1> QED BY <1>21, <1>22, <1>23, <1>24, <1>25, <1>26, <1>27, <1>28, <1>29

LEMMA SpawnKeeps == ASSUME CallParts, NEW n \in Ids, Spawn(n) PROVE CallParts'
<1> USE DEF CallParts
<1>1. PICK e : e = Len(fr) + 1
  OBVIOUS
<1> DEFINE new == Frame("task", n, "spawn", fr[n].loop, NoThread, {e})
           u == [fr[n] EXCEPT !.sub = e]
           x == [new EXCEPT !.dead = fr[n].dead, !.ctx = fr[n].ctx]
<1>2. n \in DOMAIN fr /\ fr[n].st = "run" /\ fr[n].kind = "task" /\ Len(fr) < MaxFrames
      /\ fr' = Append([fr EXCEPT ![n] = u], x)
      /\ UNCHANGED <<stack, phase, q, pool, cur, a2s, s2a, main, owned>>
  BY <1>1 DEF Spawn, Running
<1>3. fr[n] \in FrameType /\ n \in Loops /\ WaitsOf(n) /\ DOMAIN fr = 1..Len(fr) /\ Len(fr) \in Nat /\ MaxFrames \in Nat
      /\ DOMAIN fr \subseteq Ids
  BY <1>2, FramesAreIds DEF Waits, Loops, Ids
<1>4. e \in Ids /\ e \in Loops /\ e <= MaxFrames
  BY <1>1, <1>2, <1>3 DEF Ids, Loops
<1>5. /\ new \in FrameType
      /\ new.kind = "task" /\ new.by = n /\ new.link = "spawn" /\ new.above = {e} /\ new.sens = FALSE
      /\ new.st = "new" /\ new.set = FALSE /\ new.used = FALSE
  <2>1. {e} \in SUBSET Ids /\ fr[n].loop \in Loops
    BY <1>3, <1>4 DEF FrameType
  <2>2. "task" \in Kinds /\ "spawn" \in {"root", "call", "spawn"} /\ NoThread \in Threads \cup {NoThread}
    BY DEF Kinds
  <2>3. 0 \in Loops /\ "new" \in FrameStates /\ FALSE \in BOOLEAN /\ 0 \in {0, 1}
    BY CallAssumption DEF Loops, FrameStates
  <2>4. new \in FrameType
    BY <1>3, <2>1, <2>2, <2>3 DEF FrameType, Frame
  <2>5. /\ new.kind = "task" /\ new.by = n /\ new.link = "spawn" /\ new.above = {e} /\ new.sens = FALSE
        /\ new.st = "new" /\ new.set = FALSE /\ new.used = FALSE
    BY DEF Frame
  <2> QED BY <2>4, <2>5
<1> HIDE DEF new
<1>6. /\ x \in FrameType
      /\ x.kind = "task" /\ x.by = n /\ x.link = "spawn" /\ x.above = {e} /\ x.sens = FALSE
      /\ x.st = "new" /\ x.set = FALSE /\ x.used = FALSE
  BY ZenonT(40), <1>3, <1>5 DEF FrameType
<1>7. /\ u \in FrameType /\ SameCall(fr[n], u) /\ u.st = "run" /\ u.set = fr[n].set /\ u.used = fr[n].used
      /\ u.old = fr[n].old
  BY <1>2, <1>3, <1>4 DEF FrameType, SameCall
<1> HIDE DEF u, x
<1>8. Calls(n, u, e, x)
  BY <1>1, <1>2, <1>4, <1>6, <1>7 DEF Calls
<1>9. Longer(n, u, e, x)
  BY <1>8, AddFrame
<1>10. /\ DOMAIN fr' = DOMAIN fr \cup {e} /\ e \notin DOMAIN fr /\ fr'[e] = x /\ n # e /\ fr'[n] = u /\ e \in Nat
       /\ \A k \in DOMAIN fr : fr'[k] = (IF k = n THEN u ELSE fr[k]) /\ SameCall(fr[k], fr'[k])
       /\ Ahead /\ Grown /\ Added = {e}
  BY <1>1, <1>2, <1>3, <1>9 DEF Longer
<1>11. CallTypes'
  BY <1>2, <1>9 DEF CallTypes, Longer
<1>12. Shape'
  <2>1. InTree(e)'
    <3>1. e \in 1..e
      BY <1>1, <1>3
    <3> QED BY <1>6, <1>10, <3>1 DEF InTree, Called
  <2>2. Linked(e)'
    BY <1>6, <1>10 DEF Linked, Called
  <2>3. Placed(e)'
    BY <1>6, <1>10 DEF Placed
  <2> QED BY <1>10, <2>1, <2>2, <2>3, ShapeGrown
<1>13. Waits'
  <2>1. WaitsOf(e)'
    BY <1>6, <1>10 DEF WaitsOf, Called
  <2>2. WaitsOf(n)'
    <3>1. Called(n) => fr[n].by \in DOMAIN fr /\ fr[n].by # n
      <4>1. Called(n) => fr[n].by \in DOMAIN fr /\ fr[fr[n].by].kind # fr[n].kind
        BY <1>2, ShapeUses
      <4> QED BY <4>1
    <3>2. Called(n) => fr'[fr[n].by] = fr[fr[n].by]
      BY <1>10, <3>1
    <3>3. Called(n) => fr[fr[n].by].st \in {"sched", "idle"} /\ fr[fr[n].by].sub = n
      BY <1>2, <1>3 DEF WaitsOf
    <3>4. fr'[n].kind = "task" /\ fr'[n].by = fr[n].by /\ fr'[n].st = "run" /\ fr'[n].link = fr[n].link
      BY <1>2, <1>7, <1>10 DEF SameCall
    <3> QED BY <3>2, <3>3, <3>4 DEF WaitsOf, Called, Busy
  <2> QED BY <1>7, <1>8, <2>1, <2>2, WaitsGrown
<1>14. Tells'
  BY <1>2, <1>10, TellsGrown
<1>15. Pools'
  BY <1>2, <1>10, PoolsGrown
<1>16. Ends'
  BY <1>2, <1>10, EndsGrown
<1>17. Stacks'
  <2>1. \A k \in DOMAIN fr : fr[k].kind = "sync" => fr'[k] = fr[k]
    BY <1>2, <1>10
  <2> QED BY <1>2, <1>6, <1>10, <2>1, StacksGrown
<1>18. Launched'
  BY <1>2, <1>6, <1>7, <1>10, LaunchedGrown DEF Busy
<1>19. Currents'
  <2>1. ASSUME NEW k \in DOMAIN fr
        PROVE  /\ Frontier(k)' /\ ~(fr'[k].kind = "task" /\ fr'[k].set) => Frontier(k)
               /\ fr'[k].st \in {"sched", "idle"} => fr[k].st \in {"sched", "idle"} /\ fr'[k].old = fr[k].old
    BY <1>2, <1>7, <1>10 DEF Frontier
  <2>2. ASSUME NEW r \in fr'[e].above, ~Called(r)' PROVE cur[Obj(r)'] = Applies(e)'
    <3>1. r = e
      BY <1>6, <1>10, <2>2
    <3>2. Obj(r)' = Task(e) /\ Applies(e)' = 0
      BY <1>6, <1>10, <3>1 DEF Obj, Applies, Called
    <3>3. cur[Task(e)] = 0
      BY <1>4, <1>10 DEF Currents
    <3> QED BY <3>2, <3>3
  <2>3. \A k \in Added : /\ fr'[k].st \notin {"sched", "idle"}
                         /\ Intact(k)' => \A r \in fr'[k].above : ~Called(r)' => cur[Obj(r)'] = Applies(k)'
    BY <1>6, <1>10, <2>2
  <2> QED BY <1>2, <1>10, <2>1, <2>3, CurrentsGrown
<1> QED BY <1>11, <1>12, <1>13, <1>14, <1>15, <1>16, <1>17, <1>18, <1>19

-----------------------------------------------------------------------------
(* The invariant, and what it says of threads and locals *)

\* A program begins as one frame, on the main thread or as the task of its loop.
LEMMA CallsBegin == ASSUME AsgiInit PROVE CallParts
<1>1. PICK async \in BOOLEAN :
        /\ fr = <<[Frame(IF async THEN "task" ELSE "sync", 0, "root", 0, Main, {1}) EXCEPT !.st = "run"]>>
        /\ stack = [t \in Threads |-> IF t = Main /\ ~async THEN <<1>> ELSE <<>>]
        /\ phase = [l \in Loops |-> IF l = 0 /\ async THEN "running" ELSE "none"]
  BY DEF AsgiInit
<1>2. /\ q = [e \in Ids |-> <<>>] /\ pool = [c \in Loops |-> <<>>] /\ cur = [o \in Objects |-> 0]
      /\ a2s = [n \in Ids |-> NoThread] /\ s2a = [t \in Threads |-> 0]
      /\ main = [t \in Threads |-> -1] /\ owned = {}
  BY DEF AsgiInit
<1> DEFINE kind == IF async THEN "task" ELSE "sync"
           new == Frame(kind, 0, "root", 0, Main, {1})
           x == [new EXCEPT !.st = "run"]
<1>3. MaxFrames \in Nat /\ MaxFrames >= 1 /\ 1 \in Ids /\ 0 \in Loops /\ \A n \in Ids : n \in Nat /\ n # 0
  BY CallAssumption DEF Ids, Loops
<1>4. Main \in Threads
  BY DEF Threads
<1>5. /\ new \in FrameType
      /\ new.kind = kind /\ new.by = 0 /\ new.link = "root" /\ new.loop = 0 /\ new.thread = Main /\ new.above = {1}
      /\ new.sens = FALSE /\ new.set = FALSE /\ new.used = FALSE
  <2>1. /\ {1} \in SUBSET Ids /\ kind \in Kinds /\ "root" \in {"root", "call", "spawn"}
        /\ "new" \in FrameStates /\ FALSE \in BOOLEAN /\ 0 \in {0, 1}
    BY <1>3 DEF Kinds, FrameStates
  <2> HIDE DEF kind
  <2>2. new \in FrameType
    BY <1>3, <1>4, <2>1 DEF FrameType, Frame
  <2>3. /\ new.kind = kind /\ new.by = 0 /\ new.link = "root" /\ new.loop = 0 /\ new.thread = Main /\ new.above = {1}
        /\ new.sens = FALSE /\ new.set = FALSE /\ new.used = FALSE
    BY DEF Frame
  <2> QED BY <2>2, <2>3
<1> HIDE DEF new
<1>6. /\ x \in FrameType
      /\ x.kind = kind /\ x.by = 0 /\ x.link = "root" /\ x.loop = 0 /\ x.thread = Main /\ x.above = {1}
      /\ x.sens = FALSE /\ x.set = FALSE /\ x.used = FALSE /\ x.st = "run"
  BY <1>5 DEF FrameType, FrameStates, Up
<1>7. fr = <<x>>
  BY <1>1 DEF new
<1> HIDE DEF x
<1>8. fr \in Seq(FrameType) /\ Len(fr) = 1 /\ DOMAIN fr = {1} /\ fr[1] = x
  BY <1>6, <1>7
<1>9. CallTypes
  <2>1. <<1>> \in Seq(Ids) /\ <<>> \in Seq(Ids) /\ <<>> \in Seq(Loops)
    BY <1>3
  <2>2. stack \in [Threads -> Seq(Ids)]
    BY <1>1, <2>1
  <2>3. phase \in [Loops -> Phases]
    BY <1>1 DEF Phases
  <2>4. q \in [Ids -> Seq(Loops)] /\ pool \in [Loops -> Seq(Ids)]
    BY <1>2, <2>1
  <2>5. cur \in [Objects -> Loops] /\ a2s \in [Ids -> Threads \cup {NoThread}] /\ s2a \in [Threads -> Loops]
    BY <1>2, <1>3
  <2>6. main \in [Threads -> {-1} \cup Loops] /\ owned \subseteq Ids
    BY <1>2
  <2>7. Len(fr) \in 1..MaxFrames
    BY <1>3, <1>8
  <2> QED BY <1>8, <2>2, <2>3, <2>4, <2>5, <2>6, <2>7 DEF CallTypes
<1>10. Shape
  BY <1>4, <1>6, <1>8 DEF Shape, InTree, Linked, Placed, Called
<1>11. Waits
  BY <1>6, <1>8 DEF Waits, WaitsOf, Called, Up, Busy
<1>12. Tells /\ Pools
  BY <1>2 DEF Tells, Pools
<1>13. Ends
  BY <1>1, <1>3 DEF Ends, Loops, Ids
<1>14. Stacks
  <2>1. \A t \in Threads : s2a[t] = 0
    BY <1>2
  <2>2. ASSUME NEW t \in Threads, NEW i \in 1..Len(stack[t]) PROVE OnStack(t, i)
    <3>1. t = Main /\ ~async /\ stack[t] = <<1>>
      BY <1>1, <2>2
    <3>2. i = 1 /\ stack[t][i] = 1 /\ Len(stack[t]) = 1
      BY <2>2, <3>1
    <3> QED BY <1>6, <1>8, <2>1, <3>1, <3>2 DEF OnStack, Up, Called
  <2>3. ASSUME NEW f \in DOMAIN fr, fr[f].kind = "sync"
        PROVE  \E i \in 1..Len(stack[fr[f].thread]) : stack[fr[f].thread][i] = f
    <3>1. f = 1 /\ fr[f].thread = Main /\ ~async
      BY <1>6, <1>8, <2>3
    <3>2. stack[Main] = <<1>>
      BY <1>1, <1>4, <3>1
    <3>3. 1 \in 1..Len(<<1>>) /\ <<1>>[1] = 1
      OBVIOUS
    <3> QED BY <3>1, <3>2, <3>3
  <2> QED BY <2>1, <2>2, <2>3 DEF Stacks
<1>15. Launched
  BY <1>2, <1>6, <1>8 DEF Launched, Called
<1>16. Currents
  <2>1. \A n \in Ids : Task(n) \in Objects
    BY DEF Objects
  <2>2. Obj(1) \in Objects
    BY <1>3, <1>4, <1>6, <1>8, <2>1 DEF Obj, Objects
  <2>3. Applies(1) = 0
    BY <1>6, <1>8 DEF Applies, Called
  <2> QED BY <1>2, <1>6, <1>8, <2>1, <2>2, <2>3 DEF Currents
<1> QED BY <1>9, <1>10, <1>11, <1>12, <1>13, <1>14, <1>15, <1>16 DEF CallParts

\* A step of the program keeps the invariant, also when it makes a call that is no longer calm.
LEMMA CallsGoOn == ASSUME CallInv, [AsgiStep]_asgiVars PROVE CallInv'
<1> SUFFICES ASSUME Calm' PROVE CallParts'
  BY DEF CallInv
<1>1. CASE UNCHANGED asgiVars
  <2>1. Calm /\ CallParts
    BY <1>1 DEF asgiVars, Calm, CallInv
  <2>2. CallTypes' /\ Shape' /\ Waits'
    BY <1>1, <2>1 DEF asgiVars, CallParts, CallTypes, Shape, InTree, Linked, Placed, Waits, WaitsOf, Called
  <2>3. Tells' /\ Pools' /\ Ends'
    BY <1>1, <2>1 DEF asgiVars, CallParts, Tells, ToldBy, Pools, Ends, Called
  <2>4. Stacks' /\ Launched'
    BY <1>1, <2>1 DEF asgiVars, CallParts, Stacks, OnStack, Launched, Called
  <2>5. Currents'
    BY <1>1, <2>1 DEF asgiVars, CallParts, Currents, Intact, Attached, Frontier, Obj, Applies, Called
  <2> QED BY <2>2, <2>3, <2>4, <2>5 DEF CallParts
<1>2. ASSUME NEW n \in Ids, NEW b \in BOOLEAN, Async_call(n, b) PROVE CallParts'
  <2>1. odd \subseteq odd'
    BY <1>2 DEF Async_call
  <2> QED BY <1>2, <2>1, Async_callKeeps DEF Calm, CallInv
<1>3. ASSUME NEW n \in Ids, NEW b \in BOOLEAN, Sync_call(n, b) PROVE CallParts'
  <2>1. odd \subseteq odd'
    BY <1>3 DEF Sync_call
  <2> QED BY <1>3, <2>1, Sync_callKeeps DEF Calm, CallInv
<1>4. ASSUME NEW n \in Ids, Schedule(n) PROVE CallParts'
  <2>1. odd \subseteq odd'
    BY <1>4 DEF Schedule
  <2> QED BY <1>4, <2>1, ScheduleKeeps DEF Calm, CallInv
<1>5. ASSUME NEW n \in Ids, Async_return(n) PROVE CallParts'
  <2>1. odd \subseteq odd'
    BY <1>5 DEF Async_return
  <2> QED BY <1>5, <2>1, Async_returnKeeps DEF Calm, CallInv
<1>6. ASSUME NEW n \in Ids, TaskStart(n) PROVE CallParts'
  <2>1. odd' = odd
    BY <1>6 DEF TaskStart
  <2> QED BY <1>6, <2>1, TaskStartKeeps DEF Calm, CallInv
<1>7. ASSUME NEW n \in Ids, TaskEnd(n) PROVE CallParts'
  <2>1. odd' = odd
    BY <1>7 DEF TaskEnd
  <2> QED BY <1>7, <2>1, TaskEndKeeps DEF Calm, CallInv
<1>8. ASSUME NEW n \in Ids, RunItem(n) PROVE CallParts'
  <2>1. odd' = odd
    BY <1>8 DEF RunItem
  <2> QED BY <1>8, <2>1, RunItemKeeps DEF Calm, CallInv
<1>9. ASSUME NEW n \in Ids, RunDefault(n) PROVE CallParts'
  <2>1. odd' = odd
    BY <1>9 DEF RunDefault
  <2> QED BY <1>9, <2>1, RunDefaultKeeps DEF Calm, CallInv
<1>10. ASSUME NEW n \in Ids, Sync_return(n) PROVE CallParts'
  <2>1. odd' = odd
    BY <1>10 DEF Sync_return
  <2> QED BY <1>10, <2>1, Sync_returnKeeps DEF Calm, CallInv
<1>11. ASSUME NEW n \in Ids, Spawn(n) PROVE CallParts'
  <2>1. odd' = odd
    BY <1>11 DEF Spawn
  <2> QED BY <1>11, <2>1, SpawnKeeps DEF Calm, CallInv
<1>12. ASSUME NEW n \in Ids, Join(n) PROVE CallParts'
  <2>1. odd' = odd
    BY <1>12 DEF Join
  <2> QED BY <1>12, <2>1, JoinKeeps DEF Calm, CallInv
<1>13. ASSUME NEW n \in Ids, EnterContext(n) PROVE CallParts'
  <2>1. odd' = odd
    BY <1>13 DEF EnterContext
  <2> QED BY <1>13, <2>1, EnterContextKeeps DEF Calm, CallInv
<1>14. ASSUME NEW n \in Ids, ExitContext(n) PROVE CallParts'
  <2>1. odd \subseteq odd'
    BY <1>14 DEF ExitContext
  <2> QED BY <1>14, <2>1, ExitContextKeeps DEF Calm, CallInv
<1>15. ASSUME NEW n \in Ids, ShutdownDone(n) PROVE CallParts'
  <2>1. odd' = odd
    BY SMTT(30), <1>15 DEF ShutdownDone
  <2> QED BY <1>15, <2>1, ShutdownDoneKeeps DEF Calm, CallInv
<1>16. ASSUME NEW l \in Loops, CancelAll(l) PROVE CallParts'
  <2>1. odd \subseteq odd'
    BY <1>16 DEF CancelAll
  <2> QED BY <1>16, <2>1, CancelAllKeeps DEF Calm, CallInv
<1>17. ASSUME NEW l \in Loops, LoopClose(l) PROVE CallParts'
  <2>1. odd \subseteq odd'
    BY <1>17 DEF LoopClose
  <2> QED BY <1>17, <2>1, LoopCloseKeeps DEF Calm, CallInv
<1>18. ASSUME NEW l \in Loops, RunPooled(l) PROVE CallParts'
  <2>1. odd' = odd
    BY <1>18 DEF RunPooled
  <2> QED BY <1>18, <2>1, RunPooledKeeps DEF Calm, CallInv
<1> QED
  BY <1>1, <1>2, <1>3, <1>4, <1>5, <1>6, <1>7, <1>8, <1>9, <1>10, <1>11, <1>12, <1>13, <1>14, <1>15, <1>16, <1>17, <1>18
  DEF AsgiStep

\* What the structures of asgiref hold of the calls that are going on, between any two steps of
\* AsyncToSync, SyncToAsync and the executors: the stacks of the threads are chains of calls,
\* the launch maps name their ends, executors.current has the executor of the innermost call.
THEOREM CallInvariant == AsgiSpec => []CallInv
<1>1. AsgiInit => CallInv
  BY CallsBegin DEF CallInv
<1>2. CallInv /\ [AsgiStep]_asgiVars => CallInv'
  BY CallsGoOn
<1> QED
  BY <1>1, <1>2, PTL DEF AsgiSpec

\* sync_to_async runs a thread-sensitive function in the thread of the function that the calls
\* above it come from, which idles in run_until_future of its CurrentThreadExecutor.
THEOREM SameThreadCorrect == AsgiSpec => []SameThread
<1>1. CallInv => SameThread
  <2> SUFFICES ASSUME CallParts, NEW n \in DOMAIN fr, NEW m \in Outer(n), fr[n].sens, \A k \in Outer(n) : k <= m
               PROVE  fr[n].thread = fr[m].thread
    BY DEF CallInv, SameThread
  <2> USE DEF CallParts
  <2>1. fr[n].kind = "sync" /\ Linked(n) /\ Placed(n)
    BY DEF Shape, Placed
  <2>2. m \in fr[n].above /\ m # n /\ fr[m].kind = "sync"
    BY DEF Outer
  <2>3. Called(n)
    BY <2>1, <2>2 DEF Linked
  <2>4. PICK p : p = fr[n].by
    OBVIOUS
  <2>5. p \in DOMAIN fr /\ p < n /\ fr[p].kind = "task" /\ fr[n].above = fr[p].above \cup {n} /\ n \in Nat
    BY <2>1, <2>3, <2>4, ShapeUses, FramesAreIds DEF FrameType, Kinds
  <2>6. Called(p)
    <3>1. Linked(p)
      BY <2>5 DEF Shape
    <3> QED BY <2>2, <2>5, <3>1 DEF Linked
  <2>7. PICK g : g = fr[p].by
    OBVIOUS
  <2>8. g \in DOMAIN fr /\ g < p /\ fr[g].kind = "sync" /\ fr[p].above = fr[g].above \cup {p} /\ p \in Nat
    BY <2>5, <2>6, <2>7, ShapeUses, FramesAreIds DEF FrameType, Kinds
  <2>9. g \in fr[g].above /\ fr[g].above \subseteq 1..g /\ g \in Nat
    BY <2>8, FramesAreIds DEF Shape, InTree
  <2>10. g \in Outer(n)
    BY <2>5, <2>8, <2>9 DEF Outer
  <2>11. m <= g /\ g <= m /\ m \in Nat
    BY <2>2, <2>5, <2>8, <2>9, <2>10
  <2>12. fr[n].thread = fr[g].thread
    BY <2>1, <2>3, <2>4, <2>6, <2>7 DEF Placed
  <2> QED BY <2>9, <2>11, <2>12
<1> QED
  BY <1>1, CallInvariant, PTL

\* Local finds the same context, through the launch maps of AsyncToSync and SyncToAsync, in every
\* function and coroutine of one tree of calls, and it is that of the root of the tree.
THEOREM LocalsFollowCorrect == AsgiSpec => []LocalsFollow
<1>1. CallInv => LocalsFollow
  <2> SUFFICES ASSUME CallParts, NEW n \in DOMAIN fr, Running(n), Attached(n)
               PROVE  Context(n) = Root(n)
    BY DEF CallInv, LocalsFollow
  <2>1. Live(n)
    BY DEF Running, Live, Up, Busy
  <2>2. \A r \in fr[n].above : ~Called(r) => Context(n) = Obj(r)
    BY <2>1, Contexts DEF Own
  <2>3. \E r \in fr[n].above : fr[r].link # "call"
    BY DEF CallParts, Shape, InTree, Called
  <2>4. RootFrame(n) \in fr[n].above /\ fr[RootFrame(n)].link # "call"
    BY <2>3 DEF RootFrame
  <2>5. Context(n) = Obj(RootFrame(n))
    BY <2>2, <2>4 DEF Called
  <2> QED BY <2>5 DEF Root, Obj
<1> QED
  BY <1>1, CallInvariant, PTL
=============================================================================
