---------------------------- MODULE EditorProofs ----------------------------
(***************************************************************************)
(* What the editor shows, proved for any number of threads, highlighters,  *)
(* events, switches and waiting runnables.  The arguments are about what   *)
(* will be drawn once the queue has run: that is decided when runnables    *)
(* are posted, so the event dispatch thread may lag at will.               *)
(***************************************************************************)
EXTENDS FrameProgress, ThreadErrors, ProfileGutter, FileValues, FiniteSetTheorems,
        WellFoundedInduction, TLAPS

-----------------------------------------------------------------------------
(* The event dispatch thread: posting decides what will be drawn, running      *)
(* does not.                                                                   *)

\* The facts about sequences the lemmas use.
LEMMA AppendFacts ==
    ASSUME NEW q \in Seq(Runnable), NEW r \in Runnable
    PROVE  /\ Append(q, r) \in Seq(Runnable)
           /\ Len(q) \in Nat
           /\ DOMAIN Append(q, r) = 1..(Len(q) + 1)
           /\ DOMAIN q = 1..Len(q)
           /\ \A i \in DOMAIN q : Append(q, r)[i] = q[i]
           /\ Append(q, r)[Len(q) + 1] = r
OBVIOUS

\* The same for the rest of a sequence.
LEMMA TailFacts ==
    ASSUME NEW q \in Seq(Runnable), q # <<>>
    PROVE  /\ Tail(q) \in Seq(Runnable)
           /\ Len(q) \in Nat \ {0}
           /\ DOMAIN q = 1..Len(q)
           /\ DOMAIN Tail(q) = 1..(Len(q) - 1)
           /\ \A i \in DOMAIN Tail(q) : Tail(q)[i] = q[i + 1]
           /\ Head(q) = q[1]
OBVIOUS

\* post keeps the type of the queue, and brings in no other highlighters.
LEMMA PostType ==
    ASSUME NEW q \in Seq(Runnable), NEW op \in {"show", "hide"},
           NEW hs \in SUBSET Highlighter
    PROVE  /\ post(q, op, hs) \in Seq(Runnable)
           /\ \A us : hs \subseteq us /\ (\A i \in DOMAIN q : q[i].on \subseteq us)
                      => \A i \in DOMAIN post(q, op, hs) : post(q, op, hs)[i].on \subseteq us
<1> DEFINE r == [op |-> op, on |-> hs]
<1>1. r \in Runnable /\ r.on = hs
  BY DEF Runnable
<1>2. post(q, op, hs) = IF hs = {} THEN q ELSE Append(q, r)
  BY DEF post
<1> HIDE DEF r
<1>3. CASE hs # {}
  <2>1. /\ Append(q, r) \in Seq(Runnable)
        /\ Len(q) \in Nat /\ DOMAIN q = 1..Len(q)
        /\ DOMAIN Append(q, r) = 1..(Len(q) + 1)
        /\ \A i \in DOMAIN q : Append(q, r)[i] = q[i]
        /\ Append(q, r)[Len(q) + 1] = r
    BY <1>1, AppendFacts
  <2>2. \A i \in DOMAIN Append(q, r) : i \in DOMAIN q \/ i = Len(q) + 1
    BY <2>1
  <2>3. \A i \in DOMAIN Append(q, r) :
            (i \in DOMAIN q /\ Append(q, r)[i] = q[i]) \/ Append(q, r)[i].on = hs
    BY <1>1, <2>1, <2>2
  <2> QED
    BY <1>2, <1>3, <2>1, <2>3
<1> QED
  BY <1>2, <1>3

\* Posting show makes exactly the given highlighters drawn in the end.
LEMMA PostShow ==
    ASSUME NEW q \in Seq(Runnable), NEW d, NEW hs \in SUBSET Highlighter,
           NEW h \in Highlighter
    PROVE  WillDraw(post(q, "show", hs), d, h) <=> (h \in hs \/ WillDraw(q, d, h))
<1>1. CASE hs = {}
  BY <1>1 DEF post
<1>2. CASE hs # {}
  <2> DEFINE r == [op |-> "show", on |-> hs]
             p == Append(q, r)
  <2>0. r \in Runnable /\ post(q, "show", hs) = p /\ r.op = "show" /\ r.on = hs
    BY <1>2 DEF post, Runnable
  <2> HIDE DEF r
  <2>1. /\ Len(q) \in Nat /\ DOMAIN p = 1..(Len(q) + 1) /\ DOMAIN q = 1..Len(q)
        /\ \A i \in DOMAIN q : p[i] = q[i]
        /\ p[Len(q) + 1] = r
    BY <2>0, AppendFacts
  <2> HIDE DEF p
  <2>2. CASE h \in hs
    BY <2>0, <2>1, <2>2 DEF WillDraw
  <2>3. CASE h \notin hs
    <3>1. ASSUME WillDraw(q, d, h) PROVE WillDraw(p, d, h)
      BY <3>1, <2>0, <2>1, <2>3 DEF WillDraw
    <3>2. ASSUME WillDraw(p, d, h) PROVE WillDraw(q, d, h)
      BY <3>2, <2>0, <2>1, <2>3 DEF WillDraw
    <3> QED
      BY <3>1, <3>2, <2>0, <2>3
  <2> QED
    BY <2>2, <2>3
<1> QED
  BY <1>1, <1>2

\* Posting hide makes the given highlighters not drawn in the end, and leaves
\* the others alone.
LEMMA PostHide ==
    ASSUME NEW q \in Seq(Runnable), NEW d, NEW hs \in SUBSET Highlighter,
           NEW h \in Highlighter
    PROVE  WillDraw(post(q, "hide", hs), d, h) <=> (h \notin hs /\ WillDraw(q, d, h))
<1>1. CASE hs = {}
  BY <1>1 DEF post
<1>2. CASE hs # {}
  <2> DEFINE r == [op |-> "hide", on |-> hs]
             p == Append(q, r)
  <2>0. r \in Runnable /\ post(q, "hide", hs) = p /\ r.op = "hide" /\ r.on = hs
    BY <1>2 DEF post, Runnable
  <2> HIDE DEF r
  <2>1. /\ Len(q) \in Nat /\ DOMAIN p = 1..(Len(q) + 1) /\ DOMAIN q = 1..Len(q)
        /\ \A i \in DOMAIN q : p[i] = q[i]
        /\ p[Len(q) + 1] = r
    BY <2>0, AppendFacts
  <2> HIDE DEF p
  <2>2. CASE h \in hs
    <3> SUFFICES ASSUME WillDraw(p, d, h) PROVE FALSE
      BY <2>0, <2>2
    <3>1. Len(q) + 1 \in DOMAIN p /\ h \in p[Len(q) + 1].on /\ p[Len(q) + 1].op # "show"
      BY <2>0, <2>1, <2>2
    <3> QED
      BY <3>1, <2>1 DEF WillDraw
  <2>3. CASE h \notin hs
    <3>1. ASSUME WillDraw(q, d, h) PROVE WillDraw(p, d, h)
      BY <3>1, <2>0, <2>1, <2>3 DEF WillDraw
    <3>2. ASSUME WillDraw(p, d, h) PROVE WillDraw(q, d, h)
      BY <3>2, <2>0, <2>1, <2>3 DEF WillDraw
    <3> QED
      BY <3>1, <3>2, <2>0, <2>3
  <2> QED
    BY <2>2, <2>3
<1> QED
  BY <1>1, <1>2

\* What running the first runnable of a queue does to what will be drawn: e is
\* the editor afterwards.
LEMMA RunFirst ==
    ASSUME NEW q \in Seq(Runnable), q # <<>>, NEW d, NEW e, NEW h \in Highlighter,
           q[1].op = "show" => (e[h] <=> (d[h] \/ h \in q[1].on)),
           q[1].op # "show" => (e[h] <=> (d[h] /\ h \notin q[1].on))
    PROVE  WillDraw(Tail(q), e, h) <=> WillDraw(q, d, h)
<1> DEFINE p == Tail(q)
<1>1. /\ Len(q) \in Nat \ {0} /\ DOMAIN q = 1..Len(q)
      /\ DOMAIN p = 1..(Len(q) - 1)
      /\ \A i \in DOMAIN p : p[i] = q[i + 1]
  BY TailFacts
<1> HIDE DEF p
<1>2. 1 \in DOMAIN q /\ \A i \in DOMAIN q : i # 1 => i - 1 \in DOMAIN p /\ p[i - 1] = q[i]
  BY <1>1
<1>3. \A i \in DOMAIN p : i + 1 \in DOMAIN q /\ i + 1 # 1
  BY <1>1
<1>4. (\A i \in DOMAIN q : h \notin q[i].on) <=>
        (h \notin q[1].on /\ \A i \in DOMAIN p : h \notin p[i].on)
  BY <1>1, <1>2, <1>3
<1>5. ASSUME WillDraw(q, d, h) PROVE WillDraw(p, e, h)
  <2>1. CASE d[h] /\ \A i \in DOMAIN q : h \notin q[i].on
    BY <2>1, <1>4, <1>2 DEF WillDraw
  <2>2. ASSUME NEW i \in DOMAIN q, q[i].op = "show", h \in q[i].on,
               \A j \in DOMAIN q : j > i => h \notin q[j].on
        PROVE  WillDraw(p, e, h)
    <3>1. CASE i = 1
      <4>1. \A j \in DOMAIN p : h \notin p[j].on
        BY <3>1, <2>2, <1>1
      <4> QED
        BY <3>1, <4>1, <2>2 DEF WillDraw
    <3>2. CASE i # 1
      <4>1. i - 1 \in DOMAIN p /\ p[i - 1] = q[i]
        BY <3>2, <1>2
      <4>2. \A j \in DOMAIN p : j > i - 1 => h \notin p[j].on
        BY <2>2, <1>1
      <4> QED
        BY <4>1, <4>2, <2>2 DEF WillDraw
    <3> QED
      BY <3>1, <3>2
  <2> QED
    BY <1>5, <2>1, <2>2 DEF WillDraw
<1>6. ASSUME WillDraw(p, e, h) PROVE WillDraw(q, d, h)
  <2>1. CASE e[h] /\ \A i \in DOMAIN p : h \notin p[i].on
    <3>1. CASE h \in q[1].on
      <4>1. \A j \in DOMAIN q : j > 1 => h \notin q[j].on
        BY <2>1, <1>1, <1>2
      <4>2. q[1].op = "show"
        BY <2>1, <3>1
      <4> QED
        BY <3>1, <4>1, <4>2, <1>2 DEF WillDraw
    <3>2. CASE h \notin q[1].on
      <4>1. d[h]
        BY <2>1, <3>2
      <4> QED
        BY <2>1, <3>2, <4>1, <1>4 DEF WillDraw
    <3> QED
      BY <3>1, <3>2
  <2>2. ASSUME NEW i \in DOMAIN p, p[i].op = "show", h \in p[i].on,
               \A j \in DOMAIN p : j > i => h \notin p[j].on
        PROVE  WillDraw(q, d, h)
    <3>1. i + 1 \in DOMAIN q /\ q[i + 1] = p[i]
      BY <1>1
    <3>2. \A j \in DOMAIN q : j > i + 1 => h \notin q[j].on
      BY <2>2, <1>1, <1>2
    <3> QED
      BY <3>1, <3>2, <2>2 DEF WillDraw
  <2> QED
    BY <1>6, <2>1, <2>2 DEF WillDraw
<1> QED
  BY <1>5, <1>6 DEF p

\* Running show on a line that exists, or hide, changes nothing about what will
\* be drawn in the end.
LEMMA RunKeeps ==
    ASSUME EdtType, Show \/ Hide, NEW h \in Highlighter
    PROVE  WillShow(h)' <=> WillShow(h)
<1>1. queue \in Seq(Runnable) /\ queue # <<>> /\ queue' = Tail(queue) /\ Head(queue) = queue[1]
  BY TailFacts DEF EdtType, Show, Hide, Take
<1>2. queue[1].op = "show" => (device'[h] <=> (device[h] \/ h \in queue[1].on))
  BY <1>1 DEF Show, Hide, Take
<1>3. queue[1].op # "show" => (device'[h] <=> (device[h] /\ h \notin queue[1].on))
  BY <1>1 DEF Show, Hide, Take
<1> QED
  BY <1>1, <1>2, <1>3, RunFirst DEF WillShow

\* A show whose line is gone draws nothing that would not have been drawn.
LEMMA NoLineLoses ==
    ASSUME EdtType, ShowNoLine, NEW h \in Highlighter
    PROVE  /\ WillShow(h)' => WillShow(h)
           /\ WillShow(h) /\ h \notin Head(queue).on => WillShow(h)'
<1> DEFINE e == [k \in Highlighter |-> device[k] \/ k \in queue[1].on]
<1>1. queue \in Seq(Runnable) /\ queue # <<>> /\ queue' = Tail(queue) /\ Head(queue) = queue[1]
  BY TailFacts DEF EdtType, ShowNoLine, Take
<1>2. queue[1].op = "show"
  BY <1>1 DEF ShowNoLine, Take
<1>3. WillDraw(queue', e, h) <=> WillDraw(queue, device, h)
  BY <1>1, <1>2, RunFirst
<1>4. device' = device
  BY DEF ShowNoLine
<1>5. WillDraw(queue', device, h) => WillDraw(queue', e, h)
  BY DEF WillDraw
<1>6. h \notin queue[1].on => (WillDraw(queue', e, h) <=> WillDraw(queue', device, h))
  BY DEF WillDraw
<1> QED
  BY <1>1, <1>3, <1>4, <1>5, <1>6 DEF WillShow

\* When nothing is left to run, what will be drawn is what is drawn.
LEMMA IdleDrawn ==
    ASSUME Idle, NEW h \in Highlighter
    PROVE  WillShow(h) <=> device[h]
BY DEF Idle, WillShow, WillDraw

\* Running keeps the types.
LEMMA RunType ==
    ASSUME EdtType, Show \/ ShowNoLine \/ Hide
    PROVE  /\ EdtType'
           /\ Head(queue) \in Runnable /\ Head(queue).on \subseteq Highlighter
           /\ \A i \in DOMAIN queue' : i + 1 \in DOMAIN queue /\ queue'[i] = queue[i + 1]
           /\ 1 \in DOMAIN queue /\ Head(queue) = queue[1]
<1>1. queue \in Seq(Runnable) /\ queue # <<>> /\ queue' = Tail(queue)
  BY DEF EdtType, Show, ShowNoLine, Hide, Take
<1>2. /\ Tail(queue) \in Seq(Runnable)
      /\ Len(queue) \in Nat \ {0}
      /\ DOMAIN queue = 1..Len(queue)
      /\ DOMAIN Tail(queue) = 1..(Len(queue) - 1)
      /\ \A i \in DOMAIN Tail(queue) : Tail(queue)[i] = queue[i + 1]
      /\ Head(queue) = queue[1]
  BY <1>1, TailFacts
<1>3. device' \in [Highlighter -> BOOLEAN]
  BY DEF EdtType, Show, ShowNoLine, Hide
<1>4. Head(queue) \in Runnable
  BY <1>1, <1>2
<1>5. Head(queue).on \subseteq Highlighter
  BY <1>4 DEF Runnable
<1> QED
  BY <1>1, <1>2, <1>3, <1>4, <1>5 DEF EdtType

-----------------------------------------------------------------------------
(* FrameProgress: WillShowInvariant is about what will be drawn.              *)

\* Every action keeps the types.
LEMMA LineTypeStep ==
    ASSUME LineTypeOK, LineNext
    PROVE  LineTypeOK'
<1> USE EdtAssumption, LineAssumption DEF edt, lineHistory
<1>0. /\ queue \in Seq(Runnable) /\ device \in [Highlighter -> BOOLEAN]
      /\ lineFresh \subseteq LineHighlighter /\ LineUsed \subseteq LineHighlighter
      /\ {highlighter} \ {None} \in SUBSET Highlighter
      /\ {highlighter} \ {None} \subseteq LineUsed
  BY DEF LineTypeOK, EdtType, LineUsed
<1>1. ASSUME HideOld PROVE /\ queue' \in Seq(Runnable)
                           /\ \A i \in DOMAIN queue' : queue'[i].on \subseteq LineUsed
  BY <1>0, <1>1, PostType DEF HideOld, invokeLater, LineTypeOK
<1>2. ASSUME invokeLater("show", {highlighter} \ {None})
      PROVE  /\ queue' \in Seq(Runnable)
             /\ \A i \in DOMAIN queue' : queue'[i].on \subseteq LineUsed
  BY <1>0, <1>2, PostType DEF invokeLater, LineTypeOK
<1>3. CASE LineStop \/ LineBegin
  BY <1>3, <1>0, <1>1 DEF LineStop, LineBegin, LineTypeOK, EdtType, LineUsed
<1>4. ASSUME NEW h \in lineFresh, LineCreate(h) PROVE LineTypeOK'
  BY <1>4, <1>0 DEF LineCreate, LineTypeOK, EdtType, LineUsed
<1>5. CASE LineShow
  <2>1. {highlighter} \ {None} = {highlighter} /\ highlighter \in LineUsed
    BY <1>5 DEF LineShow, LineTypeOK
  <2>2. lineLate' \subseteq LineUsed
    BY <1>5, <2>1 DEF LineShow, LineTypeOK
  <2> QED
    BY <1>5, <1>0, <1>2, <2>1, <2>2 DEF LineShow, LineTypeOK, EdtType, LineUsed
<1>6. CASE ActivateLine
  <2>1. lineSwitches' \in Nat
    BY <1>6 DEF ActivateLine, LineTypeOK
  <2> QED
    BY <1>6, <1>0, <1>2, <2>1 DEF ActivateLine, LineTypeOK, EdtType, LineUsed
<1>7. CASE DeactivateLine
  <2>1. lineSwitches' \in Nat
    BY <1>7 DEF DeactivateLine, LineTypeOK
  <2> QED
    BY <1>7, <1>0, <1>1, <2>1 DEF DeactivateLine, LineTypeOK, EdtType, LineUsed
<1>8. CASE LineRun
  <2>1. Show \/ ShowNoLine \/ Hide
    BY <1>8 DEF LineRun
  <2>2. UNCHANGED <<highlighter, lineFresh, reader, lineActive, lineSwitches, lineHistory>>
    BY <1>8 DEF LineRun, lineState
  <2>3. \A i \in DOMAIN queue' : queue'[i].on \subseteq LineUsed
    BY <2>1, RunType DEF LineTypeOK
  <2>4. \A h \in lineFresh : ~device'[h]
    <3>1. Head(queue).on \subseteq LineUsed
      BY <2>1, RunType DEF LineTypeOK
    <3> QED
      BY <2>1, <3>1 DEF Show, ShowNoLine, Hide, LineTypeOK, LineUsed
  <2> QED
    BY <2>1, <2>2, <2>3, <2>4, RunType DEF LineTypeOK, LineUsed
<1> QED
  BY <1>3, <1>4, <1>5, <1>6, <1>7, <1>8 DEF LineNext

\* Every action keeps the promise about what will be drawn.
LEMMA WillShowStep ==
    ASSUME LineTypeOK, WillShowInvariant, LineNext
    PROVE  WillShowInvariant'
<1> USE EdtAssumption, LineAssumption DEF edt, lineHistory
<1> SUFFICES ASSUME NEW k \in LineHighlighter, WillShow(k)'
             PROVE  /\ k \in reshown' \/ (k = highlighter' /\ reader' # "hidden")
                    /\ k \in reshown' \/ lineActive' \/ k \in lineLate'
  BY DEF WillShowInvariant
<1>0. /\ queue \in Seq(Runnable)
      /\ {highlighter} \ {None} \in SUBSET Highlighter
      /\ WillShow(k) => /\ k \in reshown \/ (k = highlighter /\ reader # "hidden")
                        /\ k \in reshown \/ lineActive \/ k \in lineLate
  BY DEF LineTypeOK, EdtType, LineUsed, WillShowInvariant
<1>1. ASSUME HideOld, device' = device PROVE WillShow(k) /\ k # highlighter
  <2>1. WillShow(k)' <=> (k \notin {highlighter} \ {None} /\ WillShow(k))
    BY <1>0, <1>1, PostHide DEF HideOld, invokeLater, WillShow
  <2> QED
    BY <2>1
<1>2. ASSUME invokeLater("show", {highlighter} \ {None}), device' = device
      PROVE  WillShow(k) \/ k = highlighter
  <2>1. WillShow(k)' <=> (k \in {highlighter} \ {None} \/ WillShow(k))
    BY <1>0, <1>2, PostShow DEF invokeLater, WillShow
  <2> QED
    BY <2>1
<1>3. CASE LineStop \/ LineBegin
  BY <1>3, <1>0, <1>1 DEF LineStop, LineBegin
<1>4. ASSUME NEW h \in lineFresh, LineCreate(h)
      PROVE  /\ k \in reshown' \/ (k = highlighter' /\ reader' # "hidden")
             /\ k \in reshown' \/ lineActive' \/ k \in lineLate'
  <2>1. WillShow(k)
    BY <1>4 DEF LineCreate, WillShow
  <2> QED
    BY <1>4, <2>1, <1>0 DEF LineCreate
<1>5. CASE LineShow
  <2>1. {highlighter} \ {None} = {highlighter}
    BY <1>5 DEF LineShow, LineTypeOK
  <2>2. WillShow(k) \/ k = highlighter
    BY <1>5, <1>2, <2>1 DEF LineShow
  <2> QED
    BY <1>5, <1>0, <2>2 DEF LineShow, LineTypeOK
<1>6. CASE ActivateLine
  <2>1. WillShow(k) \/ k = highlighter
    BY <1>6, <1>2 DEF ActivateLine
  <2> QED
    BY <1>6, <1>0, <2>1 DEF ActivateLine, LineTypeOK
<1>7. CASE DeactivateLine
  BY <1>7, <1>0, <1>1 DEF DeactivateLine
<1>8. CASE LineRun
  <2>1. WillShow(k)
    BY <1>8, RunKeeps, NoLineLoses DEF LineRun, LineTypeOK
  <2> QED
    BY <1>8, <1>0, <2>1 DEF LineRun, lineState
<1> QED
  BY <1>3, <1>4, <1>5, <1>6, <1>7, <1>8 DEF LineNext

\* The types hold in every reachable state of the renderer.
THEOREM LineTypeCorrect == LineSpec => []LineTypeOK
<1>1. LineInit => LineTypeOK
  <2> SUFFICES ASSUME LineInit PROVE LineTypeOK
    OBVIOUS
  <2>1. queue \in Seq(Runnable) /\ \A i \in DOMAIN queue : FALSE
    BY DEF LineInit, EdtInit
  <2>2. lineActive \in BOOLEAN /\ stopped \in BOOLEAN /\ lineSwitches \in Nat
    BY DEF LineInit
  <2> QED
    BY <2>1, <2>2, LineAssumption DEF LineInit, EdtInit, LineTypeOK, EdtType, LineUsed
<1>2. LineTypeOK /\ UNCHANGED lineVars => LineTypeOK'
  BY DEF LineTypeOK, EdtType, LineUsed, lineVars, lineState, edt, lineHistory
<1> QED
  BY <1>1, <1>2, LineTypeStep, PTL DEF LineSpec

\* What will be drawn is as WillShowInvariant says, in every reachable state.
LEMMA WillShowHolds == LineSpec => []WillShowInvariant
<1>1. LineInit => WillShowInvariant
  BY LineAssumption DEF LineInit, EdtInit, WillShowInvariant, WillShow, WillDraw
<1>2. WillShowInvariant /\ UNCHANGED lineVars => WillShowInvariant'
  BY DEF WillShowInvariant, WillShow, lineVars, lineState, edt, lineHistory
<1> QED
  BY <1>1, <1>2, WillShowStep, LineTypeCorrect, PTL DEF LineSpec

\* At most the line of the latest event stays marked, but for the race of
\* FrameProgressRenderer.activate with renderFrameProgress.
THEOREM OneLineCorrect == LineSpec => []OneLineShown
<1>1. WillShowInvariant => OneLineShown
  BY IdleDrawn, LineAssumption DEF WillShowInvariant, OneLineShown
<1> QED
  BY <1>1, WillShowHolds, PTL

\* After FrameProgressRenderer.deactivate a tab marks a line only because of
\* an event handled later, or because of that race.
THEOREM HiddenLineCorrect == LineSpec => []HiddenTabShowsNoLine
<1>1. WillShowInvariant => HiddenTabShowsNoLine
  BY IdleDrawn, LineAssumption DEF WillShowInvariant, HiddenTabShowsNoLine
<1> QED
  BY <1>1, WillShowHolds, PTL

\* The editor shows the right line (FrameProgressRenderer).
THEOREM LineShownCorrect == LineSpec => []LineShown
BY OneLineCorrect, HiddenLineCorrect, PTL DEF LineShown

-----------------------------------------------------------------------------
(* ThreadErrors.  FollowInvariant ties ThreadError.active to what will be     *)
(* drawn; MapInvariant ties it to the map, the thread and the tab; both are   *)
(* inductive given the types, and the properties follow from the two.         *)

\* The error of the suspended thread, which Activate activates.
Current == IF suspended = None THEN {} ELSE {threadErrors[suspended]} \ {None}

\* The sets of errors the manager hands on hold highlighters that exist.
LEMMA ErrorSets ==
    ASSUME TypeOK
    PROVE  /\ Errors \subseteq Used /\ ErrorsExcept(suspended) \subseteq Used
           /\ ToActivate \subseteq Used /\ Current \subseteq Used
           /\ Used \subseteq ErrorHighlighter
           /\ \A t \in Thread : {threadErrors[t]} \ {None} \subseteq Used
BY ThreadErrorsAssumption, EdtAssumption
   DEF TypeOK, Errors, ErrorsExcept, ToActivate, Current, Used

\* The queue of a step that posts for errors that exist.
LEMMA PostUsed ==
    ASSUME TypeOK, NEW op \in {"show", "hide"}, NEW hs, hs \subseteq Used
    PROVE  /\ post(queue, op, hs) \in Seq(Runnable)
           /\ \A i \in DOMAIN post(queue, op, hs) : post(queue, op, hs)[i].on \subseteq Used
BY ErrorSets, PostType, ThreadErrorsAssumption DEF TypeOK, EdtType

\* Every action keeps the types.
LEMMA TypeStep ==
    ASSUME TypeOK, Next
    PROVE  TypeOK'
<1> USE ThreadErrorsAssumption, EdtAssumption DEF edt, manager, tab, debugger, history
<1>1. ASSUME NEW t \in Thread, NEW h \in fresh, onThreadError(t, h) PROVE TypeOK'
  <2> DEFINE U == ErrorHighlighter \ (fresh \ {h})
  <2>1. h \in ErrorHighlighter /\ Used \subseteq U /\ h \in U /\ U \subseteq ErrorHighlighter
    BY DEF TypeOK, Used
  <2>2. Used' = U
    BY <1>1 DEF onThreadError, Used
  <2>3. queue' = post(queue, "show", {h})
    BY <1>1 DEF onThreadError, activate, invokeLater
  <2>4. queue' \in Seq(Runnable) /\ \A i \in DOMAIN queue' : queue'[i].on \subseteq U
    <3>1. \A i \in DOMAIN queue : queue[i].on \subseteq U
      BY <2>1 DEF TypeOK
    <3>2. queue \in Seq(Runnable) /\ {h} \in SUBSET Highlighter /\ {h} \subseteq U
      BY <2>1 DEF TypeOK, EdtType
    <3> QED
      BY <2>3, <3>1, <3>2, PostType
  <2>5. threadErrors' \in [Thread -> U \cup {None}]
    BY <1>1, <2>1 DEF onThreadError, TypeOK
  <2>6. flag' \in [ErrorHighlighter -> BOOLEAN] /\ \A k \in fresh' : ~device'[k] /\ ~flag'[k]
    BY <1>1 DEF onThreadError, activate, TypeOK
  <2>7. overwritten' \subseteq U /\ late' \subseteq U /\ since' \subseteq U /\ missed' \subseteq U
    BY <1>1, <2>1, ErrorSets DEF onThreadError, activate, TypeOK
  <2>8. UNCHANGED <<device, lastThreadId, inlays, suspended, pauses, front, switches>>
    BY <1>1 DEF onThreadError
  <2>9. fresh' \subseteq ErrorHighlighter
    BY <1>1 DEF onThreadError, TypeOK
  <2> HIDE DEF U
  <2> QED
    BY <2>2, <2>4, <2>5, <2>6, <2>7, <2>8, <2>9 DEF TypeOK, EdtType
<1>2. ASSUME NEW t \in Thread, onThreadErrorClear(t) PROVE TypeOK'
  <2>1. queue' = post(queue, "hide", {threadErrors[t]}) /\ {threadErrors[t]} \subseteq Used
    BY <1>2 DEF onThreadErrorClear, deactivate, invokeLater, TypeOK
  <2>2. queue' \in Seq(Runnable) /\ \A i \in DOMAIN queue' : queue'[i].on \subseteq Used
    BY <2>1, PostUsed
  <2> QED
    BY <1>2, <2>2 DEF onThreadErrorClear, deactivate, TypeOK, EdtType, Used
<1>3. CASE onThreadChanged
  <2> DEFINE q == post(queue, "hide", ErrorsExcept(suspended))
  <2>1. q \in Seq(Runnable) /\ \A i \in DOMAIN q : q[i].on \subseteq Used
    BY ErrorSets, PostUsed
  <2>2. queue' = post(q, "show", ToActivate)
    BY <1>3 DEF onThreadChanged
  <2> HIDE DEF q
  <2>3. queue' \in Seq(Runnable) /\ \A i \in DOMAIN queue' : queue'[i].on \subseteq Used
    BY <2>1, <2>2, ErrorSets, PostType
  <2>4. /\ flag' \in [ErrorHighlighter -> BOOLEAN]
        /\ \A k \in fresh : ~flag'[k]
        /\ late' \subseteq Used
    BY <1>3, ErrorSets DEF onThreadChanged, TypeOK, Used
  <2>5. lastThreadId' \in Thread \cup {None} /\ since' \subseteq Used
    BY <1>3 DEF onThreadChanged, TypeOK
  <2> QED
    BY <1>3, <2>3, <2>4, <2>5 DEF onThreadChanged, TypeOK, EdtType, Used
<1>4. CASE Activate
  <2>1. queue' = post(queue, "show", Current) /\ Current \subseteq Used
    BY <1>4, ErrorSets DEF Activate, activate, invokeLater, Current
  <2>2. queue' \in Seq(Runnable) /\ \A i \in DOMAIN queue' : queue'[i].on \subseteq Used
    BY <2>1, PostUsed
  <2>3. switches' \in Nat
    BY <1>4 DEF Activate, TypeOK
  <2>4. /\ flag' = [h \in ErrorHighlighter |-> flag[h] \/ h \in Current]
        /\ since' = since \cup Current
    BY <1>4 DEF Activate, activate, Current
  <2>5. /\ flag' \in [ErrorHighlighter -> BOOLEAN] /\ since' \subseteq Used
        /\ \A k \in fresh : ~flag'[k]
    BY <2>1, <2>4 DEF TypeOK, Used
  <2> QED
    BY <1>4, <2>2, <2>3, <2>5 DEF Activate, TypeOK, EdtType, Used
<1>5. CASE Deactivate
  <2>1. queue' = post(queue, "hide", Errors) /\ Errors \subseteq Used
    BY <1>5, ErrorSets DEF Deactivate, deactivate, invokeLater
  <2>2. queue' \in Seq(Runnable) /\ \A i \in DOMAIN queue' : queue'[i].on \subseteq Used
    BY <2>1, PostUsed
  <2>3. switches' \in Nat
    BY <1>5 DEF Deactivate, TypeOK
  <2> QED
    BY <1>5, <2>2, <2>3 DEF Deactivate, deactivate, TypeOK, EdtType, Used
<1>6. CASE RunEdt
  <2>1. Show \/ ShowNoLine \/ Hide
    BY <1>6 DEF RunEdt, RunShow, RunShowNoLine, RunHide
  <2>2. Head(queue).on \subseteq Used /\ EdtType'
    BY <2>1, RunType DEF TypeOK
  <2>3. \A i \in DOMAIN queue' : queue'[i].on \subseteq Used
    BY <2>1, RunType DEF TypeOK
  <2>4. \A h \in fresh : ~device'[h]
    BY <2>1, <2>2 DEF Show, ShowNoLine, Hide, TypeOK, Used
  <2>5. inlays' \in [ErrorHighlighter -> Nat]
    BY <1>6 DEF RunEdt, RunShow, RunShowNoLine, RunHide, TypeOK
  <2>6. missed' \subseteq Used
    BY <1>6, <2>2 DEF RunEdt, RunShow, RunShowNoLine, RunHide, TypeOK
  <2>7. UNCHANGED <<manager, flag, debugger, tab, fresh, overwritten, late, since>>
    BY <1>6 DEF RunEdt
  <2> QED
    BY <2>2, <2>3, <2>4, <2>5, <2>6, <2>7 DEF TypeOK, Used
<1>7. ASSUME NEW t \in Thread, Suspend(t) PROVE TypeOK'
  <2>1. pauses' \in Nat
    BY <1>7 DEF Suspend, TypeOK
  <2> QED
    BY <1>7, <2>1 DEF Suspend, TypeOK, EdtType, Used
<1>8. CASE Resume
  BY <1>8 DEF Resume, TypeOK, EdtType, Used
<1> QED
  BY <1>1, <1>2, <1>3, <1>4, <1>5, <1>6, <1>7, <1>8 DEF Next

\* The types hold in every reachable state of the manager.
THEOREM TypeCorrect == Spec => []TypeOK
<1>1. Init => TypeOK
  <2> SUFFICES ASSUME Init PROVE TypeOK
    OBVIOUS
  <2>1. queue \in Seq(Runnable) /\ \A i \in DOMAIN queue : FALSE
    BY DEF Init, EdtInit
  <2>2. front \in BOOLEAN /\ switches \in Nat /\ pauses \in Nat
    BY DEF Init
  <2>3. inlays \in [ErrorHighlighter -> Nat]
    BY DEF Init
  <2> QED
    BY <2>1, <2>2, <2>3, ThreadErrorsAssumption DEF Init, EdtInit, TypeOK, EdtType, Used
<1>2. TypeOK /\ UNCHANGED vars => TypeOK'
  BY DEF TypeOK, EdtType, Used, vars, errorState, edt, manager, tab, debugger, history
<1> QED
  BY <1>1, <1>2, TypeStep, PTL DEF Spec

-----------------------------------------------------------------------------
\* Posting for some errors and setting their flag go together.
LEMMA ActivateFollows ==
    ASSUME TypeOK, FollowInvariant, NEW hs, hs \subseteq Used, activate(hs),
           UNCHANGED <<device, inlays, missed>>
    PROVE  FollowInvariant'
<1>1. hs \in SUBSET Highlighter /\ queue \in Seq(Runnable)
  BY ThreadErrorsAssumption DEF Used, TypeOK, EdtType
<1>2. ASSUME NEW h \in ErrorHighlighter PROVE WillShow(h)' <=> (h \in hs \/ WillShow(h))
  BY <1>1, PostShow, ThreadErrorsAssumption DEF activate, invokeLater, WillShow
<1> QED
  BY <1>2 DEF FollowInvariant, activate

\* The same for clearing the flag.
LEMMA DeactivateFollows ==
    ASSUME TypeOK, FollowInvariant, NEW hs, hs \subseteq Used, deactivate(hs),
           UNCHANGED <<device, inlays, missed>>
    PROVE  FollowInvariant'
<1>1. hs \in SUBSET Highlighter /\ queue \in Seq(Runnable)
  BY ThreadErrorsAssumption DEF Used, TypeOK, EdtType
<1>2. ASSUME NEW h \in ErrorHighlighter PROVE WillShow(h)' <=> (h \notin hs /\ WillShow(h))
  BY <1>1, PostHide, ThreadErrorsAssumption DEF deactivate, invokeLater, WillShow
<1> QED
  BY <1>2 DEF FollowInvariant, deactivate

\* Every action keeps what will be drawn in line with the flags.
LEMMA FollowStep ==
    ASSUME TypeOK, FollowInvariant, Next
    PROVE  FollowInvariant'
<1> USE ThreadErrorsAssumption, EdtAssumption DEF edt, manager, tab, debugger, history
<1>1. ASSUME NEW t \in Thread, NEW h \in fresh, onThreadError(t, h) PROVE FollowInvariant'
  <2>1. {h} \in SUBSET Highlighter /\ queue \in Seq(Runnable)
    BY DEF TypeOK, EdtType
  <2>2. ASSUME NEW k \in ErrorHighlighter PROVE WillShow(k)' <=> (k \in {h} \/ WillShow(k))
    BY <1>1, <2>1, PostShow DEF onThreadError, activate, invokeLater, WillShow
  <2> QED
    BY <1>1, <2>2 DEF FollowInvariant, onThreadError, activate
<1>2. ASSUME NEW t \in Thread, onThreadErrorClear(t) PROVE FollowInvariant'
  BY <1>2, DeactivateFollows DEF onThreadErrorClear, TypeOK
<1>3. CASE onThreadChanged
  <2> DEFINE q == post(queue, "hide", ErrorsExcept(suspended))
  <2>1. /\ queue \in Seq(Runnable) /\ q \in Seq(Runnable)
        /\ ErrorsExcept(suspended) \in SUBSET Highlighter
        /\ ToActivate \in SUBSET Highlighter
    BY ErrorSets, PostUsed DEF TypeOK, EdtType
  <2>2. queue' = post(q, "show", ToActivate) /\ device' = device
    BY <1>3 DEF onThreadChanged
  <2>3. ASSUME NEW k \in ErrorHighlighter
        PROVE  WillDraw(q, device, k) <=> (k \notin ErrorsExcept(suspended) /\ WillShow(k))
    BY <2>1, PostHide DEF WillShow
  <2> HIDE DEF q
  <2>4. ASSUME NEW k \in ErrorHighlighter
        PROVE  WillShow(k)' <=> (k \in ToActivate \/ WillDraw(q, device, k))
    BY <2>1, <2>2, PostShow DEF WillShow
  <2>5. ASSUME NEW k \in ErrorHighlighter
        PROVE  WillShow(k)' <=> \/ k \in ToActivate
                                \/ k \notin ErrorsExcept(suspended) /\ WillShow(k)
    BY <2>3, <2>4
  <2>6. /\ UNCHANGED <<device, inlays, missed>>
        /\ flag' = [h \in ErrorHighlighter |->
                       h \in ToActivate \/ (flag[h] /\ h \notin ErrorsExcept(suspended))]
    BY <1>3 DEF onThreadChanged
  <2> QED
    BY <2>5, <2>6 DEF FollowInvariant
<1>4. CASE Activate
  <2>1. activate(Current) /\ UNCHANGED <<device, inlays, missed>>
    BY <1>4 DEF Activate, Current
  <2> QED
    BY <2>1, ErrorSets, ActivateFollows
<1>5. CASE Deactivate
  BY <1>5, ErrorSets, DeactivateFollows DEF Deactivate
<1>6. CASE RunEdt
  <2>0. flag' = flag
    BY <1>6 DEF RunEdt
  <2>1. CASE RunShow \/ RunHide
    <3>1. ASSUME NEW h \in ErrorHighlighter PROVE WillShow(h)' <=> WillShow(h)
      BY <2>1, RunKeeps DEF RunShow, RunHide, TypeOK
    <3>2. ASSUME NEW h \in ErrorHighlighter PROVE inlays'[h] > 0 => device'[h]
      <4>1. CASE RunShow
        BY <4>1 DEF RunShow, Show, FollowInvariant
      <4>2. CASE RunHide
        <5>1. h \in Head(queue).on => inlays'[h] = 0
          BY <4>2 DEF RunHide
        <5>2. h \notin Head(queue).on => inlays'[h] = inlays[h] /\ (device'[h] <=> device[h])
          BY <4>2 DEF RunHide, Hide
        <5> QED
          BY <5>1, <5>2 DEF FollowInvariant
      <4> QED
        BY <2>1, <4>1, <4>2
    <3>3. missed' = missed
      BY <2>1 DEF RunShow, RunHide
    <3> QED
      BY <2>0, <3>1, <3>2, <3>3 DEF FollowInvariant
  <2>2. CASE RunShowNoLine
    <3>1. ASSUME NEW h \in ErrorHighlighter
          PROVE  /\ WillShow(h)' => WillShow(h)
                 /\ WillShow(h) /\ h \notin Head(queue).on => WillShow(h)'
      BY <2>2, NoLineLoses DEF RunShowNoLine, TypeOK
    <3>2. missed' = missed \cup Head(queue).on /\ UNCHANGED <<device, inlays>>
      BY <2>2 DEF RunShowNoLine, ShowNoLine
    <3> QED
      BY <2>0, <3>1, <3>2 DEF FollowInvariant
  <2> QED
    BY <1>6, <2>1, <2>2 DEF RunEdt
<1>7. CASE Resume \/ \E t \in Thread : Suspend(t)
  BY <1>7 DEF Resume, Suspend, FollowInvariant, WillShow
<1> QED
  BY <1>1, <1>2, <1>3, <1>4, <1>5, <1>6, <1>7 DEF Next

\* Every action keeps the flags in line with the map, the thread and the tab.
LEMMA MapStep ==
    ASSUME TypeOK, MapInvariant, Next
    PROVE  MapInvariant'
<1> USE ThreadErrorsAssumption, EdtAssumption DEF manager, tab, debugger, history
<1>1. ASSUME NEW t \in Thread, NEW h \in fresh, onThreadError(t, h) PROVE MapInvariant'
  <2>1. \A u \in Thread : threadErrors'[u] = IF u = t THEN h ELSE threadErrors[u]
    BY <1>1 DEF onThreadError, TypeOK
  <2>2. \A u \in Thread : threadErrors[u] # h
    BY DEF TypeOK, Used
  <2>3. \A k \in ErrorHighlighter : k \in Errors' => k = h \/ k \in Errors
    BY <2>1 DEF Errors
  <2>4. \A k \in ErrorHighlighter : k \in Errors => k \in Errors' \/ k \in overwritten'
    BY <1>1, <2>1 DEF Errors, onThreadError
  <2>5. \A k \in ErrorHighlighter : flag'[k] => k = h \/ flag[k]
    BY <1>1 DEF onThreadError, activate
  <2>6. /\ h \in since' /\ since \subseteq since' /\ late \subseteq late'
        /\ overwritten \subseteq overwritten' /\ front' = front
        /\ lastThreadId' = lastThreadId /\ (front \/ h \in late')
    BY <1>1 DEF onThreadError, activate
  <2>7. h \in Errors'
    BY <2>1 DEF Errors, TypeOK
  <2>8. ASSUME NEW k \in ErrorHighlighter, k # h, k \in Errors', lastThreadId # None,
               k = threadErrors[lastThreadId]
        PROVE  k = threadErrors'[lastThreadId]
    <3>1. PICK u \in Thread : threadErrors'[u] = k
      BY <2>8 DEF Errors
    <3>2. u # t /\ threadErrors[u] = k
      BY <2>1, <2>8, <3>1
    <3>3. u = lastThreadId
      BY <2>8, <3>2 DEF MapInvariant, TypeOK
    <3> QED
      BY <3>1, <3>3
  <2>9. ASSUME NEW u \in Thread, NEW v \in Thread, threadErrors'[u] = threadErrors'[v]
        PROVE  u = v \/ threadErrors'[u] = None
    BY <2>1, <2>2, <2>9 DEF MapInvariant
  <2> QED
    BY <2>3, <2>4, <2>5, <2>6, <2>7, <2>8, <2>9 DEF MapInvariant
<1>2. ASSUME NEW t \in Thread, onThreadErrorClear(t) PROVE MapInvariant'
  <2>1. \A u \in Thread : threadErrors'[u] = IF u = t THEN None ELSE threadErrors[u]
    BY <1>2 DEF onThreadErrorClear, TypeOK
  <2>2. \A k \in ErrorHighlighter : flag'[k] => flag[k] /\ k # threadErrors[t]
    BY <1>2 DEF onThreadErrorClear, deactivate
  <2>3. \A k \in ErrorHighlighter : k # threadErrors[t] => (k \in Errors' <=> k \in Errors)
    BY <2>1 DEF Errors
  <2>4. UNCHANGED <<front, late, overwritten, since, lastThreadId>>
    BY <1>2 DEF onThreadErrorClear
  <2>5. \A k \in ErrorHighlighter : lastThreadId # None /\ k # threadErrors[t]
           /\ k = threadErrors[lastThreadId] => k = threadErrors'[lastThreadId]
    BY <2>1 DEF TypeOK
  <2>6. \A u, v \in Thread : threadErrors'[u] = threadErrors'[v] => u = v \/ threadErrors'[u] = None
    BY <2>1 DEF MapInvariant
  <2> QED
    BY <2>2, <2>3, <2>4, <2>5, <2>6 DEF MapInvariant
<1>3. CASE onThreadChanged
  <2>1. \A k \in ErrorHighlighter : flag'[k] =>
            k \in ToActivate \/ (flag[k] /\ k \notin ErrorsExcept(suspended))
    BY <1>3 DEF onThreadChanged
  <2>2. \A k \in ErrorHighlighter : k \in Errors /\ k \notin ErrorsExcept(suspended) =>
            suspended # None /\ k = threadErrors[suspended]
    BY DEF Errors, ErrorsExcept, TypeOK
  <2>3. \A k \in ErrorHighlighter : k \in ToActivate =>
            suspended # None /\ k = threadErrors[suspended] /\ k \in Errors
    BY DEF ToActivate, Errors, TypeOK
  <2>4. UNCHANGED <<threadErrors, front, overwritten>> /\ lastThreadId' = suspended
    BY <1>3 DEF onThreadChanged
  <2>5. late \subseteq late' /\ (front \/ ToActivate \subseteq late')
    BY <1>3 DEF onThreadChanged
  <2>6. Errors' = Errors
    BY <2>4 DEF Errors
  <2> QED
    BY <2>1, <2>2, <2>3, <2>4, <2>5, <2>6 DEF MapInvariant
<1>4. CASE Activate
  <2>1. \A k \in ErrorHighlighter : flag'[k] => flag[k] \/ k \in Current
    BY <1>4 DEF Activate, activate, Current
  <2>2. front' /\ since' = since \cup Current /\ UNCHANGED <<threadErrors, lastThreadId, overwritten>>
    BY <1>4 DEF Activate, activate, Current
  <2>3. Errors' = Errors
    BY <2>2 DEF Errors
  <2>4. Current \subseteq Errors
    BY DEF Current, Errors, TypeOK
  <2> QED
    BY <2>1, <2>2, <2>3, <2>4 DEF MapInvariant
<1>5. CASE Deactivate
  <2>1. UNCHANGED <<threadErrors, lastThreadId, overwritten, since>>
    BY <1>5 DEF Deactivate
  <2>2. \A k \in ErrorHighlighter : flag'[k] => flag[k] /\ k \notin Errors
    BY <1>5 DEF Deactivate, deactivate
  <2>3. Errors' = Errors
    BY <2>1 DEF Errors
  <2> QED
    BY <2>1, <2>2, <2>3 DEF MapInvariant
<1>6. CASE RunEdt \/ Resume \/ \E t \in Thread : Suspend(t)
  <2>1. UNCHANGED <<threadErrors, lastThreadId, flag, front, overwritten, late, since>>
    BY <1>6 DEF RunEdt, Resume, Suspend
  <2>2. Errors' = Errors
    BY <2>1 DEF Errors
  <2> QED
    BY <2>1, <2>2 DEF MapInvariant
<1> QED
  BY <1>1, <1>2, <1>3, <1>4, <1>5, <1>6 DEF Next

\* FollowInvariant and MapInvariant hold in every reachable state.
LEMMA Invariants == Spec => [](TypeOK /\ FollowInvariant /\ MapInvariant)
<1>1. Init => FollowInvariant
  <2> SUFFICES ASSUME Init, NEW h \in ErrorHighlighter
               PROVE  ~WillShow(h) /\ ~flag[h] /\ ~(inlays[h] > 0)
    BY DEF FollowInvariant
  <2>1. Idle /\ ~device[h] /\ ~flag[h]
    BY ThreadErrorsAssumption DEF Init, EdtInit, Idle
  <2>2. ~(inlays[h] > 0)
    BY DEF Init
  <2> QED
    BY <2>1, <2>2, IdleDrawn, ThreadErrorsAssumption
<1>2. Init => MapInvariant
  BY DEF Init, MapInvariant
<1>3. FollowInvariant /\ MapInvariant /\ UNCHANGED vars => FollowInvariant' /\ MapInvariant'
  BY DEF FollowInvariant, WillShow, MapInvariant, Errors, vars, errorState, edt, manager, tab,
         debugger, history
<1> QED
  BY <1>1, <1>2, <1>3, FollowStep, MapStep, TypeCorrect, PTL DEF Spec

\* The editor follows ThreadError.active (ThreadError.activate, deactivate).
THEOREM DisplayCorrect == Spec => []DisplayFollowsFlag
<1>1. FollowInvariant => DisplayFollowsFlag
  <2> SUFFICES ASSUME FollowInvariant, Idle, NEW h \in ErrorHighlighter
               PROVE  (Displayed(h) => flag[h]) /\ (flag[h] => device[h] \/ h \in missed)
    BY DEF DisplayFollowsFlag
  <2>1. WillShow(h) <=> device[h]
    BY IdleDrawn, ThreadErrorsAssumption
  <2> QED
    BY <2>1 DEF FollowInvariant, Displayed
<1> QED
  BY <1>1, Invariants, PTL

\* What is displayed is in the map, or was replaced in it
\* (ThreadErrorManager.onThreadErrorClear, onThreadError).
THEOREM ClearedCorrect == Spec => []ClearedErrorsVanish
<1>1. FollowInvariant /\ MapInvariant => ClearedErrorsVanish
  BY IdleDrawn, ThreadErrorsAssumption DEF FollowInvariant, MapInvariant, ClearedErrorsVanish, Displayed
<1> QED
  BY <1>1, Invariants, PTL

\* A tab that is not in front displays only errors activated later
\* (ThreadErrorManager.deactivate).
THEOREM HiddenTabCorrect == Spec => []HiddenTabShowsNoError
<1>1. FollowInvariant /\ MapInvariant => HiddenTabShowsNoError
  BY IdleDrawn, ThreadErrorsAssumption DEF FollowInvariant, MapInvariant, HiddenTabShowsNoError, Displayed
<1> QED
  BY <1>1, Invariants, PTL

\* Errors switch with the thread (ThreadErrorManager.onThreadChanged).
THEOREM SwitchCorrect == Spec => []ErrorsSwitch
<1>1. FollowInvariant /\ MapInvariant => ErrorsSwitch
  BY IdleDrawn, ThreadErrorsAssumption DEF FollowInvariant, MapInvariant, ErrorsSwitch, Displayed
<1> QED
  BY <1>1, Invariants, PTL

\* The editor shows the right errors (ThreadErrorManager, ErrorHighlighter).
THEOREM ErrorsShownCorrect == Spec => []ErrorsShown
BY DisplayCorrect, ClearedCorrect, HiddenTabCorrect, SwitchCorrect, PTL DEF ErrorsShown

-----------------------------------------------------------------------------
(* ProfileGutter.  CountInvariant counts what will be drawn and the redraws    *)
(* under way against the overlaps; ShownInvariant and HiddenInvariant say what *)
(* the last redraw left.                                                       *)

\* There are two threads.
LEMMA OtherDrawer ==
    /\ Other("reader") = "edt" /\ Other("edt") = "reader"
    /\ "reader" \in Drawer /\ "edt" \in Drawer
    /\ \A t \in Drawer : t = "reader" \/ t = "edt"
BY DEF Other, Drawer

\* Every action keeps the types.
LEMMA GutterTypeStep ==
    ASSUME GutterTypeOK, GutterNext
    PROVE  GutterTypeOK'
<1> USE EdtAssumption, GutterAssumption, OtherDrawer DEF edt, work, gutterHistory
<1>0. /\ queue \in Seq(Runnable) /\ device \in [Highlighter -> BOOLEAN]
      /\ \A p \in Profiler : renderers[p] \in SUBSET Highlighter /\ renderers[p] \in SUBSET Renderer
      /\ activeProfiler \in Profiler /\ "none" \in Profiler /\ None \notin Renderer
  BY DEF GutterTypeOK, EdtType, Profiler
<1>1. ASSUME NEW p \in Profiler, deactivateRenderers(p) PROVE queue' \in Seq(Runnable)
  BY <1>0, <1>1, PostType DEF deactivateRenderers, invokeLater
<1>2. ASSUME NEW t \in Drawer, overlaps' = overlaps \/ NoteOverlap(t) PROVE overlaps' \in Nat
  BY <1>2 DEF NoteOverlap, GutterTypeOK
<1>3. ASSUME NEW t \in Drawer, Clear(t) PROVE GutterTypeOK'
  BY <1>3, <1>0 DEF Clear, GutterTypeOK, EdtType
<1>4. ASSUME NEW t \in Drawer, Leave(t)
      PROVE  /\ pc' \in [Drawer -> {"idle", "update", "switch", "clear", "add", "measure"}]
             /\ own' \in [Drawer -> Renderer \cup {None}]
             /\ \A u \in Drawer : pc'[u] = "measure" <=> own'[u] # None
             /\ active' \in BOOLEAN /\ activating' \in BOOLEAN
  BY <1>4 DEF Leave, GutterTypeOK
<1>5. ASSUME NEW t \in Drawer, AddNone(t) PROVE GutterTypeOK'
  BY <1>4, <1>5 DEF AddNone, GutterTypeOK, EdtType
<1>6. ASSUME NEW t \in Drawer, NEW r \in gutterFresh, Add(t, r) PROVE GutterTypeOK'
  <2>1. r \in Renderer /\ gutterFresh' \subseteq Renderer /\ on[t] \in Profiler
    BY <1>6 DEF Add, GutterTypeOK
  <2>2. renderers' \in [Profiler -> SUBSET Renderer]
    BY <1>6, <2>1 DEF Add, GutterTypeOK
  <2>3. /\ pc' \in [Drawer -> {"idle", "update", "switch", "clear", "add", "measure"}]
        /\ own' \in [Drawer -> Renderer \cup {None}]
        /\ \A u \in Drawer : pc'[u] = "measure" <=> own'[u] # None
        /\ active' \in BOOLEAN /\ activating' \in BOOLEAN
    <3>1. CASE lines[on[t]] = {}
      BY <1>4, <1>6, <3>1 DEF Add
    <3>2. CASE lines[on[t]] # {}
      <4>1. /\ pc' = [pc EXCEPT ![t] = "measure"] /\ own' = [own EXCEPT ![t] = r]
            /\ UNCHANGED <<active, activating>>
        BY <1>6, <3>2 DEF Add
      <4>2. r # None
        BY <1>0, <2>1
      <4> QED
        BY <2>1, <4>1, <4>2 DEF GutterTypeOK
    <3> QED
      BY <3>1, <3>2
  <2>4. moved' \in BOOLEAN
    BY <1>6 DEF Add, GutterTypeOK
  <2> QED
    BY <1>6, <2>1, <2>2, <2>3, <2>4 DEF Add, GutterTypeOK, EdtType
<1>7. ASSUME NEW t \in Drawer, Draw(t) PROVE GutterTypeOK'
  <2>1. own[t] \in Renderer /\ {own[t]} \in SUBSET Highlighter
    BY <1>7 DEF Draw, GutterTypeOK
  <2>2. queue' \in Seq(Runnable)
    BY <1>0, <1>7, <2>1, PostType DEF Draw, invokeLater
  <2> QED
    BY <1>4, <1>7, <2>2 DEF Draw, GutterTypeOK, EdtType
<1>8. CASE DrawAborts
  BY <1>8 DEF DrawAborts, GutterTypeOK, EdtType
<1>9. ASSUME NEW ls \in LineSets, NEW ms \in LineSets, LineProfile(ls, ms) PROVE GutterTypeOK'
  <2>1. lines' \in [Profiler -> SUBSET Line] /\ gutterEvents' \in 0..MaxEvents
    <3>1. ls \in SUBSET Line /\ ms \in SUBSET Line
      OBVIOUS
    <3>2. lines' \in [Profiler -> SUBSET Line]
      BY <1>9, <3>1 DEF LineProfile, GutterTypeOK
    <3>3. gutterEvents' \in 0..MaxEvents
      BY <1>9 DEF LineProfile, GutterTypeOK
    <3> QED
      BY <3>2, <3>3
  <2>2. moved' \in BOOLEAN
    BY <1>9 DEF LineProfile, NoteMove, GutterTypeOK
  <2> QED
    BY <1>9, <2>1, <2>2 DEF LineProfile, GutterTypeOK, EdtType
<1>10. CASE Update
  BY <1>0, <1>1, <1>2, <1>10 DEF Update, Begin, GutterTypeOK, EdtType
<1>11. ASSUME NEW ls \in LineSets, LineProfileClear(ls) PROVE GutterTypeOK'
  <2>1. lines' \in [Profiler -> SUBSET Line] /\ gutterEvents' \in 0..MaxEvents
    <3>1. ls \in SUBSET Line
      OBVIOUS
    <3>2. lines' \in [Profiler -> SUBSET Line]
      BY <1>11, <3>1 DEF LineProfileClear, GutterTypeOK
    <3>3. gutterEvents' \in 0..MaxEvents
      BY <1>11 DEF LineProfileClear, GutterTypeOK
    <3> QED
      BY <3>2, <3>3
  <2>2. moved' \in BOOLEAN
    BY <1>11 DEF LineProfileClear, NoteMove, GutterTypeOK
  <2> QED
    BY <1>11, <2>1, <2>2 DEF LineProfileClear, GutterTypeOK, EdtType
<1>12. ASSUME gutterSwitches < MaxSwitches, gutterSwitches' = gutterSwitches + 1
       PROVE  gutterSwitches' \in 0..MaxSwitches
  BY <1>12 DEF GutterTypeOK
<1>13. CASE ActivateProfiler
  <2>1. CASE activeProfiler = "none"
    BY <1>12, <1>13, <2>1 DEF ActivateProfiler, GutterTypeOK, EdtType
  <2>2. CASE activeProfiler # "none"
    BY <1>0, <1>1, <1>2, <1>12, <1>13, <2>2
       DEF ActivateProfiler, EdtIdle, Begin, GutterTypeOK, EdtType
  <2> QED
    BY <2>1, <2>2
<1>14. CASE onQuickConfigChange
  BY <1>0, <1>1, <1>2, <1>12, <1>14 DEF onQuickConfigChange, EdtIdle, GutterTypeOK, EdtType
<1>15. ASSUME NEW p \in Profiler, SwitchProfiler(p) PROVE GutterTypeOK'
  <2>1. CASE p = "none"
    BY <1>2, <1>4, <1>15, <2>1 DEF SwitchProfiler, GutterTypeOK, EdtType
  <2>2. CASE p # "none"
    BY <1>1, <1>2, <1>15, <2>2 DEF SwitchProfiler, Begin, GutterTypeOK, EdtType
  <2> QED
    BY <2>1, <2>2
<1>16. CASE DeactivateProfiler
  <2>1. gutterLate' \in BOOLEAN
    BY <1>16 DEF DeactivateProfiler
  <2> QED
    BY <1>0, <1>1, <1>12, <1>16, <2>1 DEF DeactivateProfiler, GutterTypeOK, EdtType
<1>17. CASE Run
  <2>1. EdtType'
    BY <1>17, RunType DEF Run, GutterTypeOK
  <2> QED
    BY <1>17, <2>1 DEF Run, GutterTypeOK
<1> QED
  BY <1>3, <1>5, <1>6, <1>7, <1>8, <1>9, <1>10, <1>11, <1>13, <1>14, <1>15, <1>16, <1>17
     DEF GutterNext

\* In every reachable state.
LEMMA GutterTypes == GutterSpec => []GutterTypeOK
<1>1. ASSUME GutterInit PROVE GutterTypeOK
  <2>1. EdtType
    BY <1>1 DEF GutterInit, EdtInit, EdtType
  <2>2. "none" \in Profiler
    BY DEF Profiler
  <2>3. 0 \in 0..MaxEvents /\ 0 \in 0..MaxSwitches
    BY EdtAssumption, GutterAssumption
  <2>4. /\ lines \in [Profiler -> SUBSET Line]
        /\ renderers \in [Profiler -> SUBSET Renderer]
        /\ pc \in [Drawer -> {"idle", "update", "switch", "clear", "add", "measure"}]
        /\ on \in [Drawer -> Profiler] /\ own \in [Drawer -> Renderer \cup {None}]
        /\ \A t \in Drawer : pc[t] = "measure" <=> own[t] # None
    BY <1>1, <2>2 DEF GutterInit
  <2> QED
    BY <1>1, <2>1, <2>3, <2>4 DEF GutterInit, GutterTypeOK
<1>2. GutterTypeOK /\ UNCHANGED gutterVars => GutterTypeOK'
  BY DEF GutterTypeOK, EdtType, gutterVars, gutterState, edt, work, gutterHistory
<1> QED
  BY <1>1, <1>2, GutterTypeStep, PTL DEF GutterSpec

\* The facts about finite sets the counting needs.
LEMMA Fewer ==
    ASSUME NEW W, IsFiniteSet(W), NEW V \in SUBSET W
    PROVE  /\ IsFiniteSet(V) /\ Cardinality(V) \in Nat /\ Cardinality(W) \in Nat
           /\ Cardinality(V) <= Cardinality(W)
           /\ V # W => Cardinality(V) < Cardinality(W)
           /\ Cardinality(V) = 0 => V = {}
BY FS_Subset, FS_CardinalityType, FS_EmptySet

LEMMA OneMore ==
    ASSUME NEW W, IsFiniteSet(W), NEW r
    PROVE  /\ IsFiniteSet(W \cup {r}) /\ Cardinality(W \cup {r}) \in Nat
           /\ Cardinality(W) \in Nat
           /\ Cardinality(W \cup {r}) <= Cardinality(W) + 1
BY FS_AddElement, FS_CardinalityType

\* What posting does to the renderers that will be drawn.
LEMMA DrawnAfterPost ==
    ASSUME EdtType, UNCHANGED device, NEW hs \in SUBSET Renderer
    PROVE  /\ invokeLater("show", hs) => ToBeDrawn' = ToBeDrawn \cup hs
           /\ invokeLater("hide", hs) => ToBeDrawn' = ToBeDrawn \ hs
<1>1. queue \in Seq(Runnable) /\ hs \in SUBSET Highlighter /\ Renderer \subseteq Highlighter
  BY GutterAssumption DEF EdtType
<1>2. ASSUME invokeLater("show", hs), NEW r \in Renderer
      PROVE  WillShow(r)' <=> (r \in hs \/ WillShow(r))
  BY <1>1, <1>2, PostShow DEF invokeLater, WillShow
<1>3. ASSUME invokeLater("hide", hs), NEW r \in Renderer
      PROVE  WillShow(r)' <=> (r \notin hs /\ WillShow(r))
  BY <1>1, <1>3, PostHide DEF invokeLater, WillShow
<1> QED
  BY <1>2, <1>3 DEF ToBeDrawn

\* What running does to them.
LEMMA DrawnAfterRun ==
    ASSUME EdtType
    PROVE  /\ Show \/ Hide => ToBeDrawn' = ToBeDrawn
           /\ ShowNoLine => ToBeDrawn' \subseteq ToBeDrawn
<1>1. ASSUME Show \/ Hide, NEW r \in Renderer PROVE WillShow(r)' <=> WillShow(r)
  BY <1>1, RunKeeps, GutterAssumption
<1>2. ASSUME ShowNoLine, NEW r \in Renderer PROVE WillShow(r)' => WillShow(r)
  BY <1>2, NoLineLoses, GutterAssumption
<1> QED
  BY <1>1, <1>2 DEF ToBeDrawn

\* With nothing posted or run they stay.
LEMMA DrawnStays ==
    ASSUME UNCHANGED edt
    PROVE  ToBeDrawn' = ToBeDrawn
BY DEF ToBeDrawn, WillShow, edt

\* A step of one thread, in the numbers of redraws.
LEMMA BusyStep ==
    ASSUME GutterTypeOK, NEW t \in Drawer, NEW s, pc' = [pc EXCEPT ![t] = s]
    PROVE  /\ Busy \in Nat /\ Busy' \in Nat
           /\ pc'[t] = s /\ \A u \in Drawer : u # t => pc'[u] = pc[u]
           /\ InRedraw(t) /\ s \notin {"idle", "update"} => Busy' = Busy
           /\ InRedraw(t) /\ s \in {"idle", "update"} => Busy = Busy' + 1
           /\ ~InRedraw(t) /\ s \notin {"idle", "update"} => Busy' = Busy + 1
           /\ ~InRedraw(t) /\ s \in {"idle", "update"} => Busy' = Busy
<1>1. pc'[t] = s /\ \A u \in Drawer : u # t => pc'[u] = pc[u]
  BY DEF GutterTypeOK
<1>2. (t = "reader" /\ "edt" # t) \/ (t = "edt" /\ "reader" # t)
  BY OtherDrawer
<1> QED
  BY <1>1, <1>2, OtherDrawer DEF Busy, Redrawing, InRedraw

\* Numbers of renderers (c, d), redraws (b, e) and overlaps (o, x) before and
\* after a step.
LEMMA Arithmetic ==
    ASSUME NEW b \in Nat, NEW e \in Nat, NEW o \in Nat, NEW x \in Nat
    PROVE  /\ o <= x /\ e = b => e + o <= b + x
           /\ o <= x /\ b = e + 1 => e + o < b + x /\ e + o <= b + x
           /\ x = o + 1 /\ e = b + 1 => e + o <= b + x
           /\ \A c, d \in Nat : d <= c /\ e + o <= b + x =>
                /\ c + b <= o => d + e <= x
                /\ c + b <= 1 + o => d + e <= 1 + x
                /\ c + b <= 1 + o /\ (d < c \/ e + o < b + x) => d + e <= x
OBVIOUS

\* The same with the sets the renderers are counted of.
LEMMA SetArithmetic ==
    ASSUME NEW W, IsFiniteSet(W), NEW V \in SUBSET W,
           NEW b \in Nat, NEW e \in Nat, NEW o \in Nat, NEW x \in Nat, e + o <= b + x
    PROVE  /\ IsFiniteSet(V)
           /\ Cardinality(W) + b <= o => Cardinality(V) + e <= x
           /\ Cardinality(W) + b <= 1 + o => Cardinality(V) + e <= 1 + x
           /\ Cardinality(W) + b <= 1 + o /\ (V # W \/ e + o < b + x) => Cardinality(V) + e <= x
           /\ Cardinality(V) + e <= x => Cardinality(V) + e <= 1 + x
<1>1. /\ IsFiniteSet(V) /\ Cardinality(V) \in Nat /\ Cardinality(W) \in Nat
      /\ Cardinality(V) <= Cardinality(W)
      /\ V # W => Cardinality(V) < Cardinality(W)
  BY Fewer
<1> QED
  BY <1>1, Arithmetic

\* The bound survives a step that draws no more and starts no redraw without an
\* overlap, if one in the list stays or there is one less.
LEMMA CountKept ==
    ASSUME CountInvariant, overlaps \in Nat, overlaps' \in Nat, Busy \in Nat, Busy' \in Nat,
           ToBeDrawn' \subseteq ToBeDrawn,
           Busy' + overlaps <= Busy + overlaps',
           InHand => \/ InHand' \/ ToBeDrawn' # ToBeDrawn
                     \/ Busy' + overlaps < Busy + overlaps'
    PROVE  CountInvariant'
<1>1. IsFiniteSet(ToBeDrawn)
  BY Zenon DEF CountInvariant
<1>2. /\ IsFiniteSet(ToBeDrawn')
      /\ Cardinality(ToBeDrawn) + Busy <= overlaps => Cardinality(ToBeDrawn') + Busy' <= overlaps'
      /\ Cardinality(ToBeDrawn) + Busy <= 1 + overlaps
              => Cardinality(ToBeDrawn') + Busy' <= 1 + overlaps'
      /\ Cardinality(ToBeDrawn) + Busy <= 1 + overlaps
              /\ (ToBeDrawn' # ToBeDrawn \/ Busy' + overlaps < Busy + overlaps')
              => Cardinality(ToBeDrawn') + Busy' <= overlaps'
      /\ Cardinality(ToBeDrawn') + Busy' <= overlaps'
              => Cardinality(ToBeDrawn') + Busy' <= 1 + overlaps'
  BY <1>1, SetArithmetic, Zenon
<1>3. Cardinality(ToBeDrawn) + Busy <= IF InHand THEN 1 + overlaps ELSE overlaps
  BY Zenon DEF CountInvariant
<1>4. Cardinality(ToBeDrawn') + Busy' <= IF InHand' THEN 1 + overlaps' ELSE overlaps'
  <2>1. CASE InHand
    BY <1>2, <1>3, <2>1, Zenon
  <2>2. CASE ~InHand
    BY <1>2, <1>3, <2>2, Zenon
  <2> QED
    BY <2>1, <2>2
<1> QED
  BY <1>2, <1>4, Zenon DEF CountInvariant

\* With no redraw under way and no overlap before, what will be drawn is in the
\* list of the active profiler.
LEMMA OneInList ==
    ASSUME GutterTypeOK, CountInvariant, overlaps = 0, \A t \in Drawer : ~InRedraw(t)
    PROVE  ToBeDrawn \subseteq renderers[activeProfiler]
<1> DEFINE R == renderers[activeProfiler]
<1>1. Busy = 0 /\ \A t \in Drawer : ~Renews(t)
  BY OtherDrawer DEF Busy, Redrawing, Renews, InRedraw
<1>2. IsFiniteSet(ToBeDrawn) /\ Cardinality(ToBeDrawn) + Busy <= IF InHand THEN 1 ELSE 0
  BY DEF CountInvariant
<1>3. Cardinality(ToBeDrawn) \in Nat /\ (Cardinality(ToBeDrawn) = 0 => ToBeDrawn = {})
  BY <1>2, Fewer
<1>4. CASE InHand
  <2>1. ToBeDrawn \ R # ToBeDrawn
    BY <1>1, <1>4 DEF InHand
  <2>2. /\ Cardinality(ToBeDrawn \ R) \in Nat
        /\ Cardinality(ToBeDrawn \ R) < Cardinality(ToBeDrawn)
        /\ Cardinality(ToBeDrawn \ R) = 0 => ToBeDrawn \ R = {}
    BY <1>2, <2>1, Fewer
  <2> QED
    BY <1>1, <1>2, <1>3, <1>4, <2>2
<1> QED
  BY <1>1, <1>2, <1>3, <1>4

\* Where the threads are in a state where none redraws.
LEMMA HandWithoutRedraw ==
    ASSUME InHand, \A t \in Drawer : ~Renews(t)
    PROVE  ToBeDrawn \cap renderers[activeProfiler] # {}
BY DEF InHand

\* A step that touches one thread only keeps what the other one promises.
LEMMA HandOfOther ==
    ASSUME GutterTypeOK, NEW t \in Drawer, NEW u \in Drawer, u # t, Renews(u),
           pc'[u] = pc[u], on' = on, own'[u] = own[u],
           activeProfiler' = activeProfiler,
           own[u] \in renderers[activeProfiler] => own[u] \in renderers'[activeProfiler]
    PROVE  Renews(u)'
BY DEF Renews

\* The steps after which a renderer in the list, or a redraw that brings one, is
\* still there.
LEMMA HandKept ==
    ASSUME GutterTypeOK, InHand,
           \/ \E t \in Drawer : Clear(t) \/ Draw(t)
           \/ \E ls, ms \in LineSets : LineProfile(ls, ms)
           \/ \E ls \in LineSets : LineProfileClear(ls)
           \/ EdtIdle /\ (Show \/ Hide) /\ UNCHANGED <<renderers, activeProfiler, work>>
    PROVE  InHand'
<1>1. ASSUME NEW t \in Drawer, Clear(t) PROVE InHand'
  <2>1. /\ pc' = [pc EXCEPT ![t] = "add"] /\ pc[t] = "clear"
        /\ renderers' = [renderers EXCEPT ![on[t]] = {}]
        /\ UNCHANGED <<edt, on, own, activeProfiler>>
    BY <1>1 DEF Clear
  <2>2. /\ pc'[t] = "add" /\ \A u \in Drawer : u # t => pc'[u] = pc[u]
        /\ on[t] # activeProfiler => renderers'[activeProfiler] = renderers[activeProfiler]
    BY <2>1 DEF GutterTypeOK
  <2>3. ToBeDrawn' = ToBeDrawn
    BY <2>1, DrawnStays
  <2>4. CASE on[t] = activeProfiler
    <3>1. Renews(t)'
      BY <2>1, <2>2, <2>4 DEF Renews
    <3> QED
      BY <3>1 DEF InHand
  <2>5. CASE on[t] # activeProfiler
    <3>1. CASE ToBeDrawn \cap renderers[activeProfiler] # {}
      BY <2>1, <2>2, <2>3, <2>5, <3>1 DEF InHand
    <3>2. ASSUME NEW u \in Drawer, Renews(u) PROVE InHand'
      <4>1. u # t
        BY <2>1, <2>5, <3>2 DEF Renews
      <4>2. Renews(u)'
        BY <2>1, <2>2, <2>5, <3>2, <4>1, HandOfOther
      <4> QED
        BY <4>2 DEF InHand
    <3> QED
      BY <3>1, <3>2 DEF InHand
  <2> QED
    BY <2>4, <2>5
<1>2. ASSUME NEW t \in Drawer, Draw(t) PROVE InHand'
  <2>1. /\ pc[t] = "measure" /\ pc' = [pc EXCEPT ![t] = "idle"]
        /\ own' = [own EXCEPT ![t] = None] /\ invokeLater("show", {own[t]})
        /\ UNCHANGED <<device, on, renderers, activeProfiler>>
    BY <1>2 DEF Draw, Leave
  <2>2. /\ \A u \in Drawer : u # t => pc'[u] = pc[u] /\ own'[u] = own[u]
        /\ own[t] \in Renderer
    BY <2>1 DEF GutterTypeOK
  <2>3. ToBeDrawn' = ToBeDrawn \cup {own[t]}
    BY <2>1, <2>2, DrawnAfterPost DEF GutterTypeOK
  <2>4. CASE ToBeDrawn \cap renderers[activeProfiler] # {}
    BY <2>1, <2>3, <2>4 DEF InHand
  <2>5. ASSUME NEW u \in Drawer, Renews(u) PROVE InHand'
    <3>1. CASE u = t
      <4>1. own[t] \in renderers[activeProfiler]
        BY <2>1, <2>5, <3>1 DEF Renews
      <4> QED
        BY <2>1, <2>3, <4>1 DEF InHand
    <3>2. CASE u # t
      <4>1. Renews(u)'
        BY <2>1, <2>2, <2>5, <3>2, HandOfOther
      <4> QED
        BY <4>1 DEF InHand
    <3> QED
      BY <3>1, <3>2
  <2> QED
    BY <2>4, <2>5 DEF InHand
<1>3. ASSUME NEW ls \in LineSets, NEW ms \in LineSets, LineProfile(ls, ms) PROVE InHand'
  <2>1. /\ pc["reader"] = "idle" /\ pc' = [pc EXCEPT !["reader"] = "update"]
        /\ UNCHANGED <<edt, on, own, renderers, activeProfiler>>
    BY <1>3 DEF LineProfile
  <2>2. \A u \in Drawer : u # "reader" => pc'[u] = pc[u]
    BY <2>1 DEF GutterTypeOK
  <2>3. \A u \in Drawer : Renews(u) => Renews(u)'
    BY <2>1, <2>2 DEF Renews
  <2>4. ToBeDrawn' = ToBeDrawn
    BY <2>1, DrawnStays
  <2> QED
    BY <2>1, <2>3, <2>4 DEF InHand
<1>4. ASSUME ToBeDrawn' = ToBeDrawn, UNCHANGED <<renderers, activeProfiler, work>> PROVE InHand'
  BY <1>4 DEF InHand, Renews, work
<1>5. ASSUME NEW ls \in LineSets, LineProfileClear(ls) PROVE InHand'
  <2>1. UNCHANGED edt /\ UNCHANGED <<renderers, activeProfiler, work>>
    BY <1>5 DEF LineProfileClear
  <2> QED
    BY <1>4, <2>1, DrawnStays
<1>6. ASSUME Show \/ Hide, UNCHANGED <<renderers, activeProfiler, work>> PROVE InHand'
  <2>1. ToBeDrawn' = ToBeDrawn
    BY <1>6, DrawnAfterRun DEF GutterTypeOK
  <2> QED
    BY <1>4, <1>6, <2>1
<1> QED
  BY <1>1, <1>2, <1>3, <1>5, <1>6

\* The next renderer of a redraw is in the list, unless the redraw ends here.
LEMMA HandAdded ==
    ASSUME GutterTypeOK, NEW t \in Drawer,
           AddNone(t) \/ \E r \in gutterFresh : Add(t, r), InHand
    PROVE  InHand' \/ (on[t] = activeProfiler /\ pc' = [pc EXCEPT ![t] = "idle"]
                         /\ (~known \/ on[t] = "none" \/ lines[on[t]] = {}))
<1>1. pc[t] = "add" /\ UNCHANGED <<edt, on, activeProfiler>>
  BY DEF AddNone, Add
<1>2. ToBeDrawn' = ToBeDrawn
  BY <1>1, DrawnStays
<1>3. renderers[activeProfiler] \subseteq renderers'[activeProfiler]
  <2>1. CASE AddNone(t)
    BY <2>1 DEF AddNone
  <2>2. ASSUME NEW r \in gutterFresh, Add(t, r)
        PROVE  renderers[activeProfiler] \subseteq renderers'[activeProfiler]
    BY <2>2 DEF Add, GutterTypeOK
  <2> QED
    BY <2>1, <2>2
<1>4. \A u \in Drawer : u # t => pc'[u] = pc[u] /\ own'[u] = own[u]
  BY ZenonT(40) DEF AddNone, Add, Leave, GutterTypeOK
<1>5. CASE ToBeDrawn \cap renderers[activeProfiler] # {}
  BY <1>1, <1>2, <1>3, <1>5 DEF InHand
<1>6. ASSUME NEW u \in Drawer, u # t, Renews(u) PROVE InHand'
  <2>1. Renews(u)'
    BY <1>1, <1>3, <1>4, <1>6, HandOfOther
  <2> QED
    BY <2>1 DEF InHand
<1>7. CASE Renews(t)
  <2>1. on[t] = activeProfiler
    BY <1>1, <1>7 DEF Renews
  <2>2. CASE AddNone(t)
    BY <2>1, <2>2 DEF AddNone, Leave
  <2>3. ASSUME NEW r \in gutterFresh, Add(t, r), lines[on[t]] = {}
        PROVE  pc' = [pc EXCEPT ![t] = "idle"]
    BY <2>3 DEF Add, Leave
  <2>4. ASSUME NEW r \in gutterFresh, Add(t, r), lines[on[t]] # {}
        PROVE  InHand'
    <3>1. pc'[t] = "measure" /\ own'[t] = r /\ r \in renderers'[activeProfiler]
      BY <2>1, <2>4 DEF Add, GutterTypeOK
    <3>2. Renews(t)'
      BY <1>1, <2>1, <3>1 DEF Renews
    <3> QED
      BY <3>2 DEF InHand
  <2> QED
    BY <2>1, <2>2, <2>3, <2>4
<1> QED
  BY <1>5, <1>6, <1>7 DEF InHand

\* A redraw, or a change of profilers, that begins: the renderer in the list goes,
\* or the other thread is in a redraw and the overlap counts.
LEMMA CountStarted ==
    ASSUME GutterTypeOK, CountInvariant, NEW t \in Drawer, ~InRedraw(t),
           deactivateRenderers(activeProfiler), UNCHANGED device,
           NEW s \in {"clear", "switch"}, pc' = [pc EXCEPT ![t] = s],
           NoteOverlap(t), InHand'
    PROVE  CountInvariant'
<1> DEFINE R == renderers[activeProfiler]
<1>1. R \in SUBSET Renderer /\ overlaps \in Nat
  BY DEF GutterTypeOK
<1>2. ToBeDrawn' = ToBeDrawn \ R
  BY <1>1, DrawnAfterPost DEF GutterTypeOK, deactivateRenderers
<1>3. Busy \in Nat /\ Busy' \in Nat /\ Busy' = Busy + 1
  <2>1. s \notin {"idle", "update"}
    OBVIOUS
  <2> QED
    BY <2>1, BusyStep, Zenon
<1>4. CASE InRedraw(Other(t))
  <2>1. overlaps' = overlaps + 1
    BY <1>4 DEF NoteOverlap
  <2>2. overlaps' \in Nat /\ Busy' + overlaps <= Busy + overlaps'
    BY <1>1, <1>3, <2>1
  <2>3. ToBeDrawn' \subseteq ToBeDrawn
    BY <1>2
  <2> QED
    BY <1>1, <1>3, <2>2, <2>3, CountKept
<1>5. CASE ~InRedraw(Other(t))
  <2>1. overlaps' = overlaps /\ \A u \in Drawer : ~InRedraw(u)
    BY <1>5, OtherDrawer DEF NoteOverlap
  <2>2. Busy = 0 /\ \A u \in Drawer : ~Renews(u)
    BY <2>1, OtherDrawer DEF Busy, Redrawing, Renews, InRedraw
  <2>3. IsFiniteSet(ToBeDrawn) /\ ToBeDrawn \ R \in SUBSET ToBeDrawn
    BY DEF CountInvariant
  <2>4. /\ IsFiniteSet(ToBeDrawn \ R) /\ Cardinality(ToBeDrawn \ R) \in Nat
        /\ Cardinality(ToBeDrawn) \in Nat
        /\ Cardinality(ToBeDrawn \ R) <= Cardinality(ToBeDrawn)
        /\ ToBeDrawn \ R # ToBeDrawn => Cardinality(ToBeDrawn \ R) < Cardinality(ToBeDrawn)
    BY <2>3, Fewer
  <2>5. Cardinality(ToBeDrawn \ R) + 1 <= 1 + overlaps
    <3>1. CASE InHand
      <4>1. ToBeDrawn \ R # ToBeDrawn
        BY <2>2, <3>1, HandWithoutRedraw
      <4>2. Cardinality(ToBeDrawn) + Busy <= 1 + overlaps
        BY <3>1 DEF CountInvariant
      <4> QED
        BY <1>1, <2>2, <2>4, <4>1, <4>2
    <3>2. CASE ~InHand
      <4>1. Cardinality(ToBeDrawn) + Busy <= overlaps
        BY <3>2 DEF CountInvariant
      <4> QED
        BY <1>1, <2>2, <2>4, <4>1
    <3> QED
      BY <3>1, <3>2
  <2>6. Busy' = 1
    BY <1>3, <2>2
  <2>7. IsFiniteSet(ToBeDrawn') /\ Cardinality(ToBeDrawn') + Busy' <= 1 + overlaps'
    BY <1>2, <2>1, <2>4, <2>5, <2>6
  <2> QED
    BY <2>7 DEF CountInvariant
<1> QED
  BY <1>4, <1>5

\* The steps that leave the active profiler, the list and the overlaps alone and
\* post nothing, with the redraw they end, if any.
LEMMA CountEnded ==
    ASSUME GutterTypeOK, CountInvariant, NEW t \in Drawer, InRedraw(t),
           ToBeDrawn' \subseteq ToBeDrawn, pc' = [pc EXCEPT ![t] = "idle"],
           overlaps' = overlaps \/ NoteOverlap(t)
    PROVE  CountInvariant'
<1>1. Busy \in Nat /\ Busy' \in Nat /\ Busy = Busy' + 1
  <2>1. "idle" \in {"idle", "update"}
    OBVIOUS
  <2> QED
    BY <2>1, BusyStep, Zenon
<1>2. overlaps \in Nat /\ overlaps' \in Nat /\ overlaps <= overlaps'
  BY DEF GutterTypeOK, NoteOverlap
<1>3. Busy' + overlaps < Busy + overlaps' /\ Busy' + overlaps <= Busy + overlaps'
  BY <1>1, <1>2, Arithmetic, Zenon
<1> QED
  BY <1>1, <1>2, <1>3, CountKept, Zenon

\* A step of a thread that stays where it was, in or out of a redraw.
LEMMA CountStays ==
    ASSUME GutterTypeOK, CountInvariant, ToBeDrawn' \subseteq ToBeDrawn,
           \/ pc' = pc
           \/ \E t \in Drawer : \E s \in {"update", "clear", "add", "measure"} :
                 pc' = [pc EXCEPT ![t] = s] /\ (InRedraw(t) <=> s # "update"),
           overlaps' = overlaps \/ \E t \in Drawer : NoteOverlap(t),
           InHand => InHand' \/ ToBeDrawn' # ToBeDrawn
    PROVE  CountInvariant'
<1>1. Busy \in Nat /\ Busy' \in Nat /\ Busy' = Busy
  <2>1. CASE pc' = pc
    BY <2>1, OtherDrawer DEF Busy, Redrawing, InRedraw
  <2>2. ASSUME NEW t \in Drawer, NEW s \in {"update", "clear", "add", "measure"},
               pc' = [pc EXCEPT ![t] = s], InRedraw(t) <=> s # "update"
        PROVE  Busy \in Nat /\ Busy' \in Nat /\ Busy' = Busy
    <3>1. s \in {"idle", "update"} <=> s = "update"
      OBVIOUS
    <3> QED
      BY <2>2, <3>1, BusyStep, Zenon
  <2> QED
    BY <2>1, <2>2
<1>2. overlaps \in Nat /\ overlaps' \in Nat /\ overlaps <= overlaps'
  BY DEF GutterTypeOK, NoteOverlap
<1>3. Busy' + overlaps <= Busy + overlaps'
  BY <1>1, <1>2, Arithmetic, Zenon
<1> QED
  BY <1>1, <1>2, <1>3, CountKept, Zenon

\* A redraw or a change of profilers that was begun promises a renderer.
LEMMA HandBegun ==
    ASSUME GutterTypeOK,
           \/ Update
           \/ ActivateProfiler /\ activeProfiler # "none"
           \/ onQuickConfigChange
           \/ \E p \in Profiler : SwitchProfiler(p) /\ p # "none"
    PROVE  InHand'
<1>1. ASSUME NEW t \in Drawer, Begin(t, activeProfiler'), activeProfiler' \in Profiler
      PROVE  InHand'
  <2>1. pc'[t] = "clear" /\ on'[t] = activeProfiler'
    BY <1>1 DEF Begin, GutterTypeOK
  <2>2. Renews(t)'
    BY <2>1 DEF Renews
  <2> QED
    BY <2>2 DEF InHand
<1>2. CASE Update
  BY <1>1, <1>2, OtherDrawer DEF Update, GutterTypeOK
<1>3. CASE ActivateProfiler /\ activeProfiler # "none"
  BY <1>1, <1>3, OtherDrawer DEF ActivateProfiler, GutterTypeOK
<1>4. CASE onQuickConfigChange
  <2>1. pc'["edt"] = "switch"
    BY <1>4, OtherDrawer DEF onQuickConfigChange, GutterTypeOK
  <2>2. Renews("edt")'
    BY <2>1 DEF Renews
  <2> QED
    BY <2>2, OtherDrawer DEF InHand
<1>5. ASSUME NEW p \in Profiler, SwitchProfiler(p), p # "none" PROVE InHand'
  BY <1>1, <1>5, OtherDrawer DEF SwitchProfiler
<1> QED
  BY <1>2, <1>3, <1>4, <1>5

\* Which renderers will be drawn after a step that draws none.
LEMMA DrawnSteps ==
    ASSUME GutterTypeOK, GutterNext
    PROVE  \/ \E t \in Drawer : Draw(t)
           \/ ToBeDrawn' \subseteq ToBeDrawn
<1>1. ASSUME NEW p \in Profiler, deactivateRenderers(p), UNCHANGED device
      PROVE  ToBeDrawn' \subseteq ToBeDrawn
  <2>1. renderers[p] \in SUBSET Renderer
    BY DEF GutterTypeOK
  <2>2. ToBeDrawn' = ToBeDrawn \ renderers[p]
    BY <1>1, <2>1, DrawnAfterPost DEF GutterTypeOK, deactivateRenderers
  <2> QED
    BY <2>2
<1>2. ASSUME NEW t \in Drawer, Clear(t) \/ AddNone(t) \/ \E r \in gutterFresh : Add(t, r)
      PROVE  UNCHANGED edt
  BY <1>2 DEF Clear, AddNone, Add
<1>3. CASE DrawAborts \/ \E ls, ms \in LineSets : LineProfile(ls, ms) \/ LineProfileClear(ls)
  BY <1>3, DrawnStays DEF DrawAborts, LineProfile, LineProfileClear
<1>4. CASE Update \/ onQuickConfigChange \/ DeactivateProfiler
  BY <1>1, <1>4 DEF Update, Begin, onQuickConfigChange, DeactivateProfiler, GutterTypeOK
<1>5. CASE ActivateProfiler
  <2>1. CASE activeProfiler = "none"
    BY <1>5, <2>1, DrawnStays DEF ActivateProfiler, edt
  <2>2. CASE activeProfiler # "none"
    BY <1>1, <1>5, <2>2 DEF ActivateProfiler, Begin, GutterTypeOK
  <2> QED
    BY <2>1, <2>2
<1>6. ASSUME NEW p \in Profiler, SwitchProfiler(p) PROVE ToBeDrawn' \subseteq ToBeDrawn
  <2>1. CASE p = "none"
    BY <1>6, <2>1, DrawnStays DEF SwitchProfiler, edt
  <2>2. CASE p # "none"
    BY <1>1, <1>6, <2>2 DEF SwitchProfiler, Begin
  <2> QED
    BY <2>1, <2>2
<1>7. CASE Run
  BY <1>7, DrawnAfterRun DEF Run, GutterTypeOK
<1> QED
  BY <1>2, <1>3, <1>4, <1>5, <1>6, <1>7, DrawnStays DEF GutterNext

\* Every step keeps the count.
LEMMA CountStep ==
    ASSUME GutterTypeOK, CountInvariant, GutterNext
    PROVE  CountInvariant'
<1> USE OtherDrawer
<1>1. ASSUME NEW t \in Drawer, Clear(t) PROVE CountInvariant'
  <2>1. pc' = [pc EXCEPT ![t] = "add"] /\ InRedraw(t) /\ overlaps' = overlaps /\ UNCHANGED edt
    BY <1>1 DEF Clear, InRedraw, gutterHistory
  <2>2. ToBeDrawn' \subseteq ToBeDrawn /\ (InHand => InHand')
    BY <1>1, <2>1, DrawnStays, HandKept
  <2> QED
    BY <2>1, <2>2, CountStays
<1>2. ASSUME NEW t \in Drawer, AddNone(t) PROVE CountInvariant'
  <2>1. pc' = [pc EXCEPT ![t] = "idle"] /\ InRedraw(t) /\ overlaps' = overlaps /\ UNCHANGED edt
    BY <1>2 DEF AddNone, Leave, InRedraw, gutterHistory
  <2>2. ToBeDrawn' \subseteq ToBeDrawn
    BY <2>1, DrawnStays
  <2> QED
    BY <2>1, <2>2, CountEnded
<1>3. ASSUME NEW t \in Drawer, NEW r \in gutterFresh, Add(t, r) PROVE CountInvariant'
  <2>1. InRedraw(t) /\ overlaps' = overlaps /\ UNCHANGED edt
    BY <1>3 DEF Add, InRedraw, gutterHistory
  <2>2. ToBeDrawn' \subseteq ToBeDrawn
    BY <2>1, DrawnStays
  <2>3. CASE lines[on[t]] = {}
    <3>1. pc' = [pc EXCEPT ![t] = "idle"]
      BY <1>3, <2>3 DEF Add, Leave
    <3> QED
      BY <2>1, <2>2, <3>1, CountEnded
  <2>4. CASE lines[on[t]] # {}
    <3>1. pc' = [pc EXCEPT ![t] = "measure"]
      BY <1>3, <2>4 DEF Add
    <3>2. pc'[t] = "measure"
      BY <3>1 DEF GutterTypeOK
    <3>3. pc' # [pc EXCEPT ![t] = "idle"]
      BY <3>2 DEF GutterTypeOK
    <3>4. InHand => InHand'
      BY <1>3, <3>3, HandAdded
    <3> QED
      BY <2>1, <2>2, <3>1, <3>4, CountStays
  <2> QED
    BY <2>3, <2>4
<1>4. ASSUME NEW t \in Drawer, Draw(t) PROVE CountInvariant'
  <2>1. /\ pc' = [pc EXCEPT ![t] = "idle"] /\ pc[t] = "measure" /\ InRedraw(t)
        /\ overlaps' = overlaps /\ invokeLater("show", {own[t]}) /\ UNCHANGED device
    BY <1>4 DEF Draw, Leave, InRedraw, gutterHistory
  <2>2. own[t] \in Renderer /\ overlaps \in Nat
    BY <2>1 DEF GutterTypeOK
  <2>3. ToBeDrawn' = ToBeDrawn \cup {own[t]}
    BY <2>1, <2>2, DrawnAfterPost DEF GutterTypeOK
  <2>4. Busy \in Nat /\ Busy' \in Nat /\ Busy = Busy' + 1
    <3>1. "idle" \in {"idle", "update"}
      OBVIOUS
    <3> QED
      BY <2>1, <3>1, BusyStep, Zenon
  <2>5. IsFiniteSet(ToBeDrawn)
    BY DEF CountInvariant
  <2>6. /\ IsFiniteSet(ToBeDrawn') /\ Cardinality(ToBeDrawn') \in Nat
        /\ Cardinality(ToBeDrawn) \in Nat
        /\ Cardinality(ToBeDrawn') <= Cardinality(ToBeDrawn) + 1
    BY <2>3, <2>5, OneMore
  <2>7. Cardinality(ToBeDrawn') + Busy' <= Cardinality(ToBeDrawn) + Busy
    BY <2>4, <2>6
  <2>8. CASE InHand
    <3>1. InHand'
      BY <1>4, <2>8, HandKept
    <3>2. Cardinality(ToBeDrawn) + Busy <= 1 + overlaps
      BY <2>8 DEF CountInvariant
    <3>3. Cardinality(ToBeDrawn') + Busy' <= 1 + overlaps'
      BY <2>1, <2>2, <2>4, <2>6, <2>7, <3>2
    <3> QED
      BY <2>6, <3>1, <3>3 DEF CountInvariant
  <2>9. CASE ~InHand
    <3>1. Cardinality(ToBeDrawn) + Busy <= overlaps
      BY <2>9 DEF CountInvariant
    <3>2. /\ Cardinality(ToBeDrawn') + Busy' <= overlaps'
          /\ Cardinality(ToBeDrawn') + Busy' <= 1 + overlaps'
      BY <2>1, <2>2, <2>4, <2>6, <2>7, <3>1
    <3> QED
      BY <2>6, <3>2 DEF CountInvariant
  <2> QED
    BY <2>8, <2>9
<1>5. CASE DrawAborts
  <2>1. pc' = [pc EXCEPT !["edt"] = "idle"] /\ InRedraw("edt") /\ overlaps' = overlaps /\ UNCHANGED edt
    BY <1>5 DEF DrawAborts, InRedraw
  <2>2. ToBeDrawn' \subseteq ToBeDrawn
    BY <2>1, DrawnStays
  <2> QED
    BY <2>1, <2>2, CountEnded
<1>6. ASSUME NEW ls \in LineSets, NEW ms \in LineSets, LineProfile(ls, ms) PROVE CountInvariant'
  <2>1. /\ pc' = [pc EXCEPT !["reader"] = "update"] /\ ~InRedraw("reader")
        /\ overlaps' = overlaps /\ UNCHANGED edt
    BY <1>6 DEF LineProfile, InRedraw, gutterHistory
  <2>2. ToBeDrawn' \subseteq ToBeDrawn /\ (InHand => InHand')
    BY <1>6, <2>1, DrawnStays, HandKept
  <2> QED
    BY <2>1, <2>2, CountStays
<1>7. ASSUME NEW ls \in LineSets, LineProfileClear(ls) PROVE CountInvariant'
  <2>1. pc' = pc /\ overlaps' = overlaps /\ UNCHANGED edt
    BY <1>7 DEF LineProfileClear, work, gutterHistory
  <2>2. ToBeDrawn' \subseteq ToBeDrawn /\ (InHand => InHand')
    BY <1>7, <2>1, DrawnStays, HandKept
  <2> QED
    BY <2>1, <2>2, CountStays
<1>8. CASE Update
  <2>1. /\ ~InRedraw("reader") /\ pc' = [pc EXCEPT !["reader"] = "clear"]
        /\ deactivateRenderers(activeProfiler) /\ UNCHANGED device /\ NoteOverlap("reader")
    BY <1>8 DEF Update, Begin, InRedraw
  <2> QED
    BY <1>8, <2>1, HandBegun, CountStarted
<1>9. CASE ActivateProfiler
  <2>1. CASE activeProfiler = "none"
    <3>1. pc' = pc /\ overlaps' = overlaps /\ UNCHANGED edt /\ UNCHANGED <<on, own, renderers, activeProfiler>>
      BY <1>9, <2>1 DEF ActivateProfiler, edt
    <3>2. ToBeDrawn' = ToBeDrawn
      BY <3>1, DrawnStays
    <3>3. InHand => InHand'
      BY <3>1, <3>2 DEF InHand, Renews
    <3> QED
      BY <3>1, <3>2, <3>3, CountStays
  <2>2. CASE activeProfiler # "none"
    <3>1. /\ ~InRedraw("edt") /\ pc' = [pc EXCEPT !["edt"] = "clear"]
          /\ deactivateRenderers(activeProfiler) /\ UNCHANGED device /\ NoteOverlap("edt")
      BY <1>9, <2>2 DEF ActivateProfiler, EdtIdle, Begin, InRedraw
    <3> QED
      BY <1>9, <2>2, <3>1, HandBegun, CountStarted
  <2> QED
    BY <2>1, <2>2
<1>10. CASE onQuickConfigChange
  <2>1. /\ ~InRedraw("edt") /\ pc' = [pc EXCEPT !["edt"] = "switch"]
        /\ deactivateRenderers(activeProfiler) /\ UNCHANGED device /\ NoteOverlap("edt")
    BY <1>10 DEF onQuickConfigChange, EdtIdle, InRedraw
  <2> QED
    BY <1>10, <2>1, HandBegun, CountStarted
<1>11. ASSUME NEW p \in Profiler, SwitchProfiler(p) PROVE CountInvariant'
  <2>1. InRedraw("edt")
    BY <1>11 DEF SwitchProfiler, InRedraw
  <2>2. ToBeDrawn' \subseteq ToBeDrawn
    <3>1. ASSUME Draw("reader") PROVE FALSE
      BY <1>11, <3>1 DEF SwitchProfiler, Draw, Leave, Begin, GutterTypeOK
    <3>2. ASSUME Draw("edt") PROVE FALSE
      BY <1>11, <3>2 DEF SwitchProfiler, Draw
    <3> QED
      BY <3>1, <3>2, DrawnSteps
  <2>3. CASE p = "none"
    <3>1. pc' = [pc EXCEPT !["edt"] = "idle"] /\ NoteOverlap("edt")
      BY <1>11, <2>3 DEF SwitchProfiler, Leave
    <3> QED
      BY <2>1, <2>2, <3>1, CountEnded
  <2>4. CASE p # "none"
    <3>1. pc' = [pc EXCEPT !["edt"] = "clear"] /\ NoteOverlap("edt")
      BY <1>11, <2>4 DEF SwitchProfiler, Begin
    <3>2. InHand'
      BY <1>11, <2>4, HandBegun
    <3> QED
      BY <2>1, <2>2, <3>1, <3>2, CountStays
  <2> QED
    BY <2>3, <2>4
<1>12. CASE DeactivateProfiler
  <2>1. /\ UNCHANGED <<pc, on, own, renderers, activeProfiler, overlaps, device>>
        /\ deactivateRenderers(activeProfiler) /\ renderers[activeProfiler] \in SUBSET Renderer
    BY <1>12 DEF DeactivateProfiler, work, GutterTypeOK
  <2>2. ToBeDrawn' = ToBeDrawn \ renderers[activeProfiler]
    BY <2>1, DrawnAfterPost DEF GutterTypeOK, deactivateRenderers
  <2>3. InHand => InHand' \/ ToBeDrawn' # ToBeDrawn
    <3>1. CASE ToBeDrawn \cap renderers[activeProfiler] # {}
      BY <2>2, <3>1
    <3>2. ASSUME NEW t \in Drawer, Renews(t) PROVE InHand'
      BY <2>1, <3>2 DEF InHand, Renews
    <3> QED
      BY <3>1, <3>2 DEF InHand
  <2>4. ToBeDrawn' \subseteq ToBeDrawn
    BY <2>2
  <2> QED
    BY <2>1, <2>3, <2>4, CountStays
<1>13. CASE Run
  <2>1. pc' = pc /\ overlaps' = overlaps /\ ToBeDrawn' \subseteq ToBeDrawn
    BY <1>13, DrawnAfterRun DEF Run, work, GutterTypeOK
  <2>2. InHand => InHand' \/ ToBeDrawn' # ToBeDrawn
    BY <1>13 DEF Run, InHand, Renews, work
  <2> QED
    BY <2>1, <2>2, CountStays
<1> QED
  BY <1>1, <1>2, <1>3, <1>4, <1>5, <1>6, <1>7, <1>8, <1>9, <1>10, <1>11, <1>12, <1>13
     DEF GutterNext

\* Every step keeps a renderer for the values, or the promise of one.
LEMMA ShownStep ==
    ASSUME GutterTypeOK, ShownInvariant, GutterNext
    PROVE  ShownInvariant'
<1> DEFINE Wanted == /\ gutterFront /\ ~lost /\ activeProfiler # "none"
                     /\ lines[activeProfiler] # {}
           Coming == InHand \/ pc["reader"] = "update"
<1> USE OtherDrawer
<1>1. /\ (\E p \in Profiler : lines[p] # {}) => known
      /\ Wanted => Coming
  BY DEF ShownInvariant
<1>2. activeProfiler \in Profiler
  BY DEF GutterTypeOK
<1>3. SUFFICES ((\E p \in Profiler : lines'[p] # {}) => known') /\ (Wanted' => Coming')
  BY DEF ShownInvariant
<1> HIDE DEF Wanted, Coming
<1>4. ASSUME NEW t \in Drawer, Clear(t) PROVE Wanted' => Coming'
  <2>1. /\ UNCHANGED <<gutterFront, lost, activeProfiler, lines>>
        /\ pc[t] # "update" /\ \A u \in Drawer : u # t => pc'[u] = pc[u]
    BY <1>4 DEF Clear, gutterHistory, GutterTypeOK
  <2>2. InHand => InHand'
    BY <1>4, HandKept
  <2> QED
    BY <1>1, <2>1, <2>2 DEF Wanted, Coming
<1>5. ASSUME NEW t \in Drawer, Draw(t) PROVE Wanted' => Coming'
  <2>1. /\ UNCHANGED <<gutterFront, lost, activeProfiler, lines>>
        /\ pc[t] # "update" /\ \A u \in Drawer : u # t => pc'[u] = pc[u]
    BY <1>5 DEF Draw, Leave, gutterHistory, GutterTypeOK
  <2>2. InHand => InHand'
    BY <1>5, HandKept
  <2> QED
    BY <1>1, <2>1, <2>2 DEF Wanted, Coming
<1>6. ASSUME NEW t \in Drawer, AddNone(t) \/ \E r \in gutterFresh : Add(t, r)
      PROVE  Wanted' => Coming'
  <2>1. /\ UNCHANGED <<gutterFront, lost, activeProfiler, lines, known>>
        /\ pc[t] # "update" /\ \A u \in Drawer : u # t => pc'[u] = pc[u]
    BY ZenonT(40), <1>6 DEF AddNone, Add, Leave, gutterHistory, GutterTypeOK
  <2>2. CASE ~InHand
    BY <1>1, <2>1, <2>2 DEF Wanted, Coming
  <2>3. CASE InHand
    <3>1. InHand' \/ (on[t] = activeProfiler /\ (~known \/ on[t] = "none" \/ lines[on[t]] = {}))
      BY <1>6, <2>3, HandAdded
    <3>2. Wanted' => Wanted /\ known /\ activeProfiler # "none" /\ lines[activeProfiler] # {}
      BY <1>1, <1>2, <2>1 DEF Wanted
    <3> QED
      BY <3>1, <3>2 DEF Coming
  <2> QED
    BY <2>2, <2>3
<1>7. ASSUME NEW ls \in LineSets, LineProfileClear(ls) PROVE Wanted' => Coming'
  <2>1. UNCHANGED <<gutterFront, lost, activeProfiler, pc>>
    BY <1>7 DEF LineProfileClear, gutterHistory, work
  <2>2. lines'[activeProfiler] \subseteq lines[activeProfiler]
    BY <1>2, <1>7 DEF LineProfileClear, GutterTypeOK
  <2>3. InHand => InHand'
    BY <1>7, HandKept
  <2> QED
    BY <1>1, <2>1, <2>2, <2>3 DEF Wanted, Coming
<1>8. ASSUME NEW ls \in LineSets, NEW ms \in LineSets, LineProfile(ls, ms) PROVE Coming'
  BY <1>8 DEF LineProfile, Coming, GutterTypeOK
<1>9. CASE Update \/ onQuickConfigChange
  <2>1. InHand'
    BY <1>9, HandBegun
  <2> QED
    BY <1>1, <1>9, <2>1 DEF Coming, Update, onQuickConfigChange
<1>10. ASSUME ActivateProfiler PROVE Wanted' => Coming'
  <2>1. activeProfiler' = activeProfiler
    BY <1>10 DEF ActivateProfiler
  <2> QED
    BY <1>10, <2>1, HandBegun DEF Wanted, Coming
<1>11. ASSUME NEW p \in Profiler, SwitchProfiler(p) PROVE Wanted' => Coming'
  <2>1. activeProfiler' = p
    BY <1>11 DEF SwitchProfiler
  <2> QED
    BY <1>11, <2>1, HandBegun DEF Wanted, Coming
<1>12. CASE DrawAborts
  BY <1>1, <1>12 DEF DrawAborts, Wanted
<1>13. CASE DeactivateProfiler
  BY <1>1, <1>13 DEF DeactivateProfiler, Wanted
<1>14. CASE Run
  <2>1. UNCHANGED <<gutterFront, activeProfiler, lines, known, pc>>
    BY <1>14 DEF Run, work
  <2>2. CASE EdtIdle /\ (Show \/ Hide) /\ UNCHANGED lost
    <3>1. InHand => InHand'
      BY <1>14, <2>2, HandKept DEF Run
    <3> QED
      BY <1>1, <2>1, <2>2, <3>1 DEF Wanted, Coming
  <2>3. CASE lost'
    BY <1>1, <2>1, <2>3 DEF Wanted
  <2> QED
    BY <1>14, <2>2, <2>3 DEF Run
<1>15. ASSUME NEW t \in Drawer,
              Clear(t) \/ Draw(t) \/ AddNone(t) \/ \E r \in gutterFresh : Add(t, r)
       PROVE  UNCHANGED <<lines, known>>
  BY <1>15 DEF Clear, Draw, AddNone, Add
<1>16. ASSUME NEW ls \in LineSets, LineProfileClear(ls)
       PROVE  (\E p \in Profiler : lines'[p] # {}) => known'
  <2>1. known' = known /\ \A p \in Profiler : lines'[p] \subseteq lines[p]
    BY <1>16 DEF LineProfileClear, GutterTypeOK
  <2> QED
    BY <1>1, <2>1
<1>17. ASSUME ActivateProfiler \/ \E p \in Profiler : SwitchProfiler(p)
       PROVE  UNCHANGED <<lines, known>>
  BY <1>17 DEF ActivateProfiler, SwitchProfiler
<1>18. ASSUME NEW ls \in LineSets, NEW ms \in LineSets, LineProfile(ls, ms) PROVE known'
  BY <1>18 DEF LineProfile
<1> QED
  BY <1>1, <1>4, <1>5, <1>6, <1>7, <1>8, <1>9, <1>10, <1>11, <1>12, <1>13, <1>14, <1>15,
     <1>16, <1>17, <1>18 DEF GutterNext

\* Every step keeps a tab that was left without a gutter.
LEMMA HiddenStep ==
    ASSUME GutterTypeOK, CountInvariant, HiddenInvariant, GutterNext
    PROVE  HiddenInvariant'
<1> DEFINE Left == ~active /\ ~gutterLate
<1> USE OtherDrawer
<1>1. Left => /\ \A t \in Drawer : pc[t] \in {"idle", "update", "switch"}
              /\ overlaps = 0 => ToBeDrawn = {}
  BY DEF HiddenInvariant
<1>2. SUFFICES ASSUME Left'
               PROVE  /\ \A t \in Drawer : pc'[t] \in {"idle", "update", "switch"}
                      /\ overlaps' = 0 => ToBeDrawn' = {}
  BY DEF HiddenInvariant
<1>3. ASSUME NEW t \in Drawer,
             Clear(t) \/ AddNone(t) \/ (\E r \in gutterFresh : Add(t, r)) \/ Draw(t)
      PROVE  FALSE
  <2>1. /\ pc[t] \in {"clear", "add", "measure"} /\ gutterLate' = gutterLate
        /\ active => active'
    BY <1>3 DEF Clear, AddNone, Add, Draw, Leave, gutterHistory
  <2> QED
    BY <1>1, <1>2, <2>1
<1>4. CASE DrawAborts
  BY <1>1, <1>2, <1>4 DEF DrawAborts
<1>5. CASE Update
  BY <1>2, <1>5 DEF Update, Begin
<1>6. CASE ActivateProfiler
  BY <1>2, <1>6 DEF ActivateProfiler, Begin
<1>7. ToBeDrawn' \subseteq ToBeDrawn
  BY <1>3, DrawnSteps
<1>8. ASSUME Left, overlaps' = 0 => overlaps = 0,
             \A t \in Drawer : pc'[t] = pc[t] \/ pc'[t] \in {"idle", "update", "switch"}
      PROVE  /\ \A t \in Drawer : pc'[t] \in {"idle", "update", "switch"}
             /\ overlaps' = 0 => ToBeDrawn' = {}
  BY <1>1, <1>7, <1>8
<1>9. CASE (\E ls, ms \in LineSets : LineProfile(ls, ms)) \/ \E ls \in LineSets : LineProfileClear(ls)
  <2>1. Left /\ overlaps' = overlaps
    BY <1>2, <1>9 DEF LineProfile, LineProfileClear, gutterHistory
  <2>2. \A t \in Drawer : pc'[t] = pc[t] \/ pc'[t] \in {"idle", "update", "switch"}
    BY <1>9 DEF LineProfile, LineProfileClear, work, GutterTypeOK
  <2> QED
    BY <1>8, <2>1, <2>2
<1>10. ASSUME NEW t \in Drawer, NoteOverlap(t) PROVE overlaps' = 0 => overlaps = 0
  BY <1>10 DEF NoteOverlap, GutterTypeOK
<1>11. CASE onQuickConfigChange
  <2>1. Left /\ NoteOverlap("edt")
    BY <1>2, <1>11 DEF onQuickConfigChange
  <2>2. \A t \in Drawer : pc'[t] = pc[t] \/ pc'[t] \in {"idle", "update", "switch"}
    BY <1>11 DEF onQuickConfigChange, GutterTypeOK
  <2> QED
    BY <1>8, <1>10, <2>1, <2>2
<1>12. ASSUME NEW p \in Profiler, SwitchProfiler(p)
       PROVE  /\ \A t \in Drawer : pc'[t] \in {"idle", "update", "switch"}
              /\ overlaps' = 0 => ToBeDrawn' = {}
  <2>1. p = "none"
    BY <1>2, <1>12 DEF SwitchProfiler, Begin
  <2>2. Left /\ NoteOverlap("edt")
    BY <1>2, <1>12, <2>1 DEF SwitchProfiler, Leave
  <2>3. \A t \in Drawer : pc'[t] = pc[t] \/ pc'[t] \in {"idle", "update", "switch"}
    BY <1>12, <2>1 DEF SwitchProfiler, Leave, GutterTypeOK
  <2> QED
    BY <1>8, <1>10, <2>2, <2>3
<1>13. CASE DeactivateProfiler
  <2>1. /\ UNCHANGED <<pc, overlaps, device>> /\ deactivateRenderers(activeProfiler)
        /\ \A t \in Drawer : ~InRedraw(t)
    BY <1>2, <1>13 DEF DeactivateProfiler, work
  <2>2. \A t \in Drawer : pc'[t] \in {"idle", "update", "switch"}
    BY <2>1 DEF InRedraw
  <2>3. ASSUME overlaps' = 0 PROVE ToBeDrawn' = {}
    <3>1. ToBeDrawn \subseteq renderers[activeProfiler] /\ renderers[activeProfiler] \in SUBSET Renderer
      BY <2>1, <2>3, OneInList DEF GutterTypeOK
    <3>2. ToBeDrawn' = ToBeDrawn \ renderers[activeProfiler]
      BY <2>1, <3>1, DrawnAfterPost DEF GutterTypeOK, deactivateRenderers
    <3> QED
      BY <3>1, <3>2
  <2> QED
    BY <2>2, <2>3
<1>14. CASE Run
  <2>1. Left /\ UNCHANGED <<pc, overlaps>>
    BY <1>2, <1>14 DEF Run, work
  <2> QED
    BY <1>8, <2>1
<1> QED
  BY <1>3, <1>4, <1>5, <1>6, <1>9, <1>11, <1>12, <1>13, <1>14 DEF GutterNext

\* The three parts of GutterInvariant hold in every reachable state
\* (ProfilePreviewRenderer.update, RunConfHandler.deactivate).
THEOREM GutterCorrect == GutterSpec => [](GutterTypeOK /\ GutterInvariant)
<1>1. ASSUME GutterInit PROVE GutterInvariant
  <2>1. Idle /\ \A r \in Renderer : ~device[r]
    BY <1>1, GutterAssumption DEF GutterInit, EdtInit, Idle
  <2>2. ToBeDrawn = {}
    BY <2>1, IdleDrawn, GutterAssumption DEF ToBeDrawn
  <2>3. /\ Busy = 0 /\ overlaps = 0 /\ \A t \in Drawer : pc[t] = "idle"
        /\ \A p \in Profiler : lines[p] = {}
        /\ activeProfiler \in Profiler
    BY <1>1, OtherDrawer DEF GutterInit, Busy, Redrawing, InRedraw
  <2>4. IsFiniteSet(ToBeDrawn) /\ Cardinality(ToBeDrawn) = 0
    BY <2>2, FS_EmptySet
  <2> QED
    BY <2>2, <2>3, <2>4 DEF GutterInvariant, CountInvariant, ShownInvariant, HiddenInvariant
<1>2. ASSUME GutterInvariant, UNCHANGED gutterVars PROVE GutterInvariant'
  <2>1. ToBeDrawn' = ToBeDrawn /\ Busy' = Busy /\ (InHand' <=> InHand)
    BY <1>2, DrawnStays
       DEF gutterVars, gutterState, work, Busy, Redrawing, InRedraw, InHand, Renews
  <2> QED
    BY <1>2, <2>1 DEF GutterInvariant, CountInvariant, ShownInvariant, HiddenInvariant,
       gutterVars, gutterState, work, gutterHistory
<1>3. GutterTypeOK /\ GutterInvariant /\ GutterNext => GutterInvariant'
  BY CountStep, ShownStep, HiddenStep DEF GutterInvariant
<1> QED
  BY <1>1, <1>2, <1>3, GutterTypes, PTL DEF GutterSpec

\* The gutter in the editor: one too many for each overlap at most, the values of
\* the active profiler shown, nothing of a tab that was left
\* (ProfilePreviewRenderer.update, activate and deactivate).
THEOREM GutterFollowsCorrect == GutterSpec => []GutterFollows
<1>1. ASSUME GutterTypeOK, GutterInvariant, Quiet PROVE GutterFollows
  <2>1. Drawn = ToBeDrawn
    BY <1>1, IdleDrawn, GutterAssumption DEF Quiet, Drawn, ToBeDrawn
  <2>2. /\ \A t \in Drawer : pc[t] = "idle" /\ ~InRedraw(t) /\ ~Renews(t)
        /\ pc["reader"] # "update"
    BY <1>1, OtherDrawer DEF Quiet, InRedraw, Renews
  <2>3. Busy = 0
    BY <2>2, OtherDrawer DEF Busy, Redrawing
  <2>4. Cardinality(ToBeDrawn) <= 1 + overlaps
    <3>1. IsFiniteSet(ToBeDrawn) /\ overlaps \in Nat
      BY <1>1 DEF GutterInvariant, CountInvariant, GutterTypeOK
    <3>2. Cardinality(ToBeDrawn) \in Nat
      BY <3>1, Fewer
    <3>3. Cardinality(ToBeDrawn) + 0 <= IF InHand THEN 1 + overlaps ELSE overlaps
      BY <1>1, <2>3 DEF GutterInvariant, CountInvariant
    <3> QED
      BY <3>1, <3>2, <3>3
  <2>5. overlaps = 0 => ToBeDrawn \subseteq renderers[activeProfiler]
    BY <1>1, <2>2, OneInList DEF GutterInvariant
  <2>6. ValuesAreShown
    BY <1>1, <2>1, <2>2 DEF ValuesAreShown, GutterInvariant, ShownInvariant, InHand
  <2>7. HiddenTabShowsNoGutter
    BY <1>1, <2>1 DEF HiddenTabShowsNoGutter, GutterInvariant, HiddenInvariant
  <2> QED
    BY <2>1, <2>4, <2>5, <2>6, <2>7 DEF GutterFollows, GutterBound
<1>2. ~Quiet => GutterFollows
  BY DEF GutterFollows, GutterBound, ValuesAreShown, HiddenTabShowsNoGutter
<1> QED
  BY <1>1, <1>2, GutterCorrect, PTL

-----------------------------------------------------------------------------
(* FileValues: sums of values in any order, the folds of collapsed regions, and
   the aggregates of a line. *)

\* Every set of numbers that is not empty has a least one.
LEMMA LeastNumber ==
  ASSUME NEW T, T \subseteq Nat, T # {}
  PROVE  \E x \in T : \A y \in T : x <= y
<1> DEFINE R == OpToRel(<, Nat)
<1>1. \E x \in T : \A y \in T : ~(<<y, x>> \in R)
  <2>1. IsWellFoundedOn(R, Nat)
    BY NatLessThanWellFounded
  <2> HIDE DEF R
  <2> QED BY <2>1, WFMin
<1>2. PICK x \in T : \A y \in T : ~(<<y, x>> \in R)
  BY <1>1
<1>3. ASSUME NEW y \in T PROVE x <= y
  <2>1. x \in Nat /\ y \in Nat /\ ~(<<y, x>> \in R)
    BY <1>2
  <2> QED BY <2>1 DEF OpToRel
<1> QED BY <1>3

\* What holds for 0, and for a number when it holds for the one before, holds for all.
LEMMA AllNumbers ==
  ASSUME NEW T, 0 \in T, \A n \in Nat : n \in T => n + 1 \in T
  PROVE  Nat \subseteq T
<1> SUFFICES ASSUME Nat \ T # {}
             PROVE  FALSE
  OBVIOUS
<1>1. PICK x \in Nat \ T : \A y \in Nat \ T : x <= y
  <2>1. Nat \ T \subseteq Nat
    OBVIOUS
  <2> QED BY <2>1, LeastNumber
<1>2. x # 0 /\ x - 1 \in Nat /\ x - 1 + 1 = x
  OBVIOUS
<1>3. x - 1 \in T
  BY <1>1, <1>2
<1> QED
  BY <1>2, <1>3

LEMMA UpTo ==
  ASSUME NEW k \in Nat
  PROVE  /\ k + 1 \in 1..(k + 1)
         /\ \A x \in 1..(k + 1) : x # k + 1 => x \in 1..k
         /\ \A n \in Nat : k + 1 <= n => k + 1 \in 1..n /\ 1..(k + 1) \subseteq 1..n
OBVIOUS

\* Induction: a collection with the empty set, and with every set of lines that one
\* element was taken out of and left a member, has all sets of lines.
LEMMA SetsUp ==
  ASSUME NEW n \in Nat, NEW T, {} \in T,
         \A s \in SUBSET (1..n), x \in 1..n : x \in s /\ s \ {x} \in T => s \in T
  PROVE  SUBSET (1..n) \subseteq T
<1> DEFINE N == {k \in Nat : k <= n => SUBSET (1..k) \subseteq T}
<1>1. 0 \in N
  <2>1. 1..0 = {}
    OBVIOUS
  <2> QED BY <2>1
<1>2. ASSUME NEW k \in Nat, k \in N
      PROVE  k + 1 \in N
  <2> SUFFICES ASSUME k + 1 <= n, NEW s \in SUBSET (1..(k + 1))
               PROVE  s \in T
    OBVIOUS
  <2>1. SUBSET (1..k) \subseteq T
    BY <1>2
  <2>2. CASE k + 1 \in s
    <3>1. s \ {k + 1} \in SUBSET (1..k)
      BY UpTo
    <3>2. k \in Nat /\ k + 1 <= n
      OBVIOUS
    <3>3. k + 1 \in 1..n /\ 1..(k + 1) \subseteq 1..n
      BY <3>2
    <3> QED BY <2>1, <2>2, <3>1, <3>3
  <2>3. CASE k + 1 \notin s
    <3>1. s \in SUBSET (1..k)
      BY <2>3, UpTo
    <3> QED BY <2>1, <3>1
  <2> QED BY <2>2, <2>3
<1> HIDE DEF N
<1>3. Nat \subseteq N
  BY <1>1, <1>2, AllNumbers
<1> QED BY <1>3 DEF N

\* g is the sum of w over the sets of numbers up to n, in whatever order it is taken
Adds(g, w, n) ==
  /\ \A x \in 1..n : w[x] \in Int
  /\ g \in [SUBSET (1..n) -> Int] /\ g[{}] = 0
  /\ \A s \in SUBSET (1..n), x \in 1..n : x \in s => g[s] = g[s \ {x}] + w[x]

LEMMA AddsExists ==
  ASSUME NEW n \in Nat, NEW w, \A x \in 1..n : w[x] \in Int
  PROVE  \E g : Adds(g, w, n)
<1> DEFINE N == {k \in Nat : k <= n => \E g : Adds(g, w, k)}
<1>1. 0 \in N
  <2>1. 1..0 = {}
    OBVIOUS
  <2>2. Adds([s \in SUBSET (1..0) |-> 0], w, 0)
    BY <2>1 DEF Adds
  <2> QED BY <2>2
<1>2. ASSUME NEW k \in Nat, k \in N
      PROVE  k + 1 \in N
  <2> SUFFICES ASSUME k + 1 <= n
               PROVE  \E g : Adds(g, w, k + 1)
    OBVIOUS
  <2>1. PICK g : Adds(g, w, k)
    BY <1>2
  <2>2. w[k + 1] \in Int
    OBVIOUS
  <2> HIDE DEF N
  <2> DEFINE f == [s \in SUBSET (1..(k + 1)) |->
                     IF k + 1 \in s THEN g[s \ {k + 1}] + w[k + 1] ELSE g[s]]
  <2>3. ASSUME NEW s \in SUBSET (1..(k + 1))
        PROVE  /\ s \ {k + 1} \in SUBSET (1..k)
               /\ k + 1 \notin s => s \in SUBSET (1..k)
    <3>1. \A x \in s : x \in 1..(k + 1)
      OBVIOUS
    <3>2. \A x \in 1..(k + 1) : x # k + 1 => x \in 1..k
      BY UpTo
    <3> QED BY <3>1, <3>2
  <2>4. \A s \in SUBSET (1..(k + 1)) : k + 1 \in s => f[s] = g[s \ {k + 1}] + w[k + 1]
    OBVIOUS
  <2>5. \A s \in SUBSET (1..(k + 1)) : k + 1 \notin s => f[s] = g[s]
    OBVIOUS
  <2>6. \A s \in SUBSET (1..k) : g[s] \in Int
    BY <2>1 DEF Adds
  <2>7. f \in [SUBSET (1..(k + 1)) -> Int]
    BY <2>2, <2>3, <2>6
  <2>8. f[{}] = 0
    <3>1. {} \in SUBSET (1..(k + 1)) /\ k + 1 \notin {}
      OBVIOUS
    <3> QED BY <3>1, <2>5, <2>1 DEF Adds
  <2> HIDE DEF f
  <2>9. ASSUME NEW s \in SUBSET (1..(k + 1)), NEW x \in 1..(k + 1), x \in s
        PROVE  f[s] = f[s \ {x}] + w[x]
    <3>1. s \ {x} \in SUBSET (1..(k + 1))
      OBVIOUS
    <3>2. CASE x = k + 1
      <4>1. f[s \ {x}] = g[s \ {k + 1}]
        BY <3>1, <3>2, <2>5
      <4> QED BY <3>2, <4>1, <2>4, <2>9
    <3>3. CASE x # k + 1
      <4>1. x \in 1..k
        BY <3>3
      <4>2. CASE k + 1 \in s
        <5>1. f[s] = g[s \ {k + 1}] + w[k + 1]
          BY <2>4, <4>2
        <5>2. f[s \ {x}] = g[(s \ {x}) \ {k + 1}] + w[k + 1]
          BY <2>4, <4>2, <3>1, <3>3
        <5>3. (s \ {x}) \ {k + 1} = (s \ {k + 1}) \ {x}
          OBVIOUS
        <5>4. s \ {k + 1} \in SUBSET (1..k) /\ x \in s \ {k + 1}
          BY <2>3, <2>9, <3>3
        <5>5. g[s \ {k + 1}] = g[(s \ {k + 1}) \ {x}] + w[x]
          BY <2>1, <4>1, <5>4 DEF Adds
        <5>6. (s \ {k + 1}) \ {x} \in SUBSET (1..k)
          BY <5>4
        <5>7. g[(s \ {k + 1}) \ {x}] \in Int /\ w[x] \in Int
          BY <5>6, <2>6
        <5> QED BY <5>1, <5>2, <5>3, <5>5, <5>7, <2>2
      <4>3. CASE k + 1 \notin s
        <5>1. f[s] = g[s] /\ f[s \ {x}] = g[s \ {x}]
          BY <2>5, <4>3, <3>1
        <5>2. s \in SUBSET (1..k)
          BY <2>3, <4>3
        <5> QED BY <5>1, <5>2, <2>1, <4>1, <2>9 DEF Adds
      <4> QED BY <4>2, <4>3
    <3> QED BY <3>2, <3>3
  <2>10. Adds(f, w, k + 1)
    <3>1. \A x \in 1..(k + 1) : w[x] \in Int
      OBVIOUS
    <3> QED BY <3>1, <2>7, <2>8, <2>9 DEF Adds
  <2> QED BY <2>10
<1> HIDE DEF N
<1>3. Nat \subseteq N
  BY <1>1, <1>2, AllNumbers
<1> QED BY <1>3 DEF N

\* h takes the elements of the subsets of V one by one, c[s] first
OneByOne(h, w, c, V) ==
  \A s \in SUBSET V :
    /\ s # {} => c[s] \in s
    /\ h[s] = IF s = {} THEN 0 ELSE h[s \ {c[s]}] + w[c[s]]

\* A fold that adds the elements one by one, in any order, finds the sum.
LEMMA FoldAdds ==
  ASSUME NEW n \in Nat, NEW w, NEW g, Adds(g, w, n),
         NEW V \in SUBSET (1..n), NEW c, NEW h, OneByOne(h, w, c, V)
  PROVE  h[V] = g[V]
<1> DEFINE N == {k \in Nat : \A s \in SUBSET V : Cardinality(s) = k => h[s] = g[s]}
<1>2. \A s \in SUBSET V : IsFiniteSet(s)
  <2>1. IsFiniteSet(1..n)
    BY FS_Interval
  <2> QED BY <2>1, FS_Subset
<1>3. 0 \in N
  <2>1. \A s \in SUBSET V : Cardinality(s) = 0 => s = {}
    BY <1>2, FS_EmptySet
  <2> QED BY <2>1 DEF Adds, OneByOne
<1>4. ASSUME NEW k \in Nat, k \in N
      PROVE  k + 1 \in N
  <2>0. k + 1 \in Nat
    OBVIOUS
  <2> SUFFICES ASSUME NEW s \in SUBSET V, Cardinality(s) = k + 1
               PROVE  h[s] = g[s]
    BY <2>0
  <2>1. s # {}
    <3>1. Cardinality({}) = 0
      BY FS_EmptySet
    <3>2. k \in Nat /\ k + 1 # 0
      OBVIOUS
    <3> QED BY <3>1, <3>2
  <2>2. c[s] \in s
    BY <2>1 DEF OneByOne
  <2>3. Cardinality(s \ {c[s]}) = k
    <3>1. IsFiniteSet(s)
      BY <1>2
    <3>2. Cardinality(s \ {c[s]}) = Cardinality(s) - 1
      BY <3>1, <2>2, FS_RemoveElement
    <3>3. k \in Nat
      OBVIOUS
    <3> QED BY <3>2, <3>3
  <2>4. h[s \ {c[s]}] = g[s \ {c[s]}]
    <3>1. s \ {c[s]} \in SUBSET V
      OBVIOUS
    <3> HIDE DEF N
    <3>2. \A r \in SUBSET V : Cardinality(r) = k => h[r] = g[r]
      BY <1>4 DEF N
    <3> QED BY <2>3, <3>1, <3>2
  <2>5. h[s] = h[s \ {c[s]}] + w[c[s]]
    BY <2>1 DEF OneByOne
  <2>6. g[s] = g[s \ {c[s]}] + w[c[s]]
    BY <2>2 DEF Adds
  <2> QED BY <2>4, <2>5, <2>6
<1>5. V \in SUBSET V /\ Cardinality(V) \in Nat
  BY <1>2, FS_CardinalityType
<1> HIDE DEF N
<1>6. Nat \subseteq N
  BY <1>3, <1>4, AllNumbers
<1> QED BY <1>5, <1>6 DEF N

\* SumOver is the sum over the lines that have a value, in whatever order.
LEMMA SumOverAdds ==
  ASSUME NEW n \in Nat, NEW w, NEW g, Adds(g, w, n),
         NEW vals, NEW within, Valued(vals, within) \in SUBSET (1..n),
         \A x \in Valued(vals, within) : vals[x] = w[x]
  PROVE  SumOver(vals, within) = g[Valued(vals, within)]
<1> DEFINE V == Valued(vals, within)
           A(f) == f = [s \in SUBSET V |-> IF s = {} THEN 0 ELSE
                          f[s \ {CHOOSE x \in s : TRUE}] + vals[CHOOSE x \in s : TRUE]]
           c == [s \in SUBSET V |-> CHOOSE x \in s : TRUE]
           h == CHOOSE k : A(k)
<1>1. SumOver(vals, within) = h[V]
  BY DEF SumOver, FoldSet, MapThenFoldSet
<1>2. \A s \in SUBSET V : s # {} => (CHOOSE x \in s : TRUE) \in s
  OBVIOUS
<1>3. V \in SUBSET (1..n) /\ \A x \in V : vals[x] = w[x]
  OBVIOUS
<1> HIDE DEF V
<1>4. A([s \in SUBSET V |-> g[s]])
  <2>1. ASSUME NEW s \in SUBSET V
        PROVE  g[s] = IF s = {} THEN 0 ELSE
                 [t \in SUBSET V |-> g[t]][s \ {CHOOSE x \in s : TRUE}] + vals[CHOOSE x \in s : TRUE]
    <3>1. s # {} => (CHOOSE x \in s : TRUE) \in s
      BY <1>2
    <3> DEFINE y == CHOOSE x \in s : TRUE
    <3> HIDE DEF y
    <3>2. s # {} => y \in s
      BY <3>1 DEF y
    <3>3. g[{}] = 0
      BY DEF Adds
    <3>4. CASE s # {}
      <4>1. y \in 1..n /\ s \in SUBSET (1..n) /\ vals[y] = w[y]
        BY <1>3, <3>2, <3>4
      <4>2. g[s] = g[s \ {y}] + w[y]
        BY <3>2, <3>4, <4>1 DEF Adds
      <4>3. [t \in SUBSET V |-> g[t]][s \ {y}] = g[s \ {y}]
        OBVIOUS
      <4> QED BY <3>4, <4>1, <4>2, <4>3 DEF y
    <3> QED BY <3>3, <3>4
  <2> HIDE DEF A
  <2>2. [s \in SUBSET V |-> g[s]] =
          [s \in SUBSET V |-> IF s = {} THEN 0 ELSE
             [t \in SUBSET V |-> g[t]][s \ {CHOOSE x \in s : TRUE}] + vals[CHOOSE x \in s : TRUE]]
    BY <2>1
  <2> QED BY <2>2 DEF A
<1>5. A(h)
  <2>1. \E k : A(k)
    BY <1>4
  <2> HIDE DEF A
  <2> QED BY <2>1
<1> HIDE DEF h
<1>6. \A s \in SUBSET V : s # {} => c[s] \in s
  BY <1>2
<1>7. OneByOne(h, w, c, V)
  <2>1. ASSUME NEW s \in SUBSET V
        PROVE  h[s] = IF s = {} THEN 0 ELSE
                 h[s \ {CHOOSE x \in s : TRUE}] + vals[CHOOSE x \in s : TRUE]
    BY <1>5
  <2>2. \A s \in SUBSET V : c[s] = CHOOSE x \in s : TRUE
    OBVIOUS
  <2> HIDE DEF c, A
  <2>3. ASSUME NEW s \in SUBSET V
        PROVE  h[s] = IF s = {} THEN 0 ELSE h[s \ {c[s]}] + w[c[s]]
    <3>1. s # {} => vals[c[s]] = w[c[s]]
      BY <1>3, <1>6
    <3>2. h[s] = IF s = {} THEN 0 ELSE h[s \ {c[s]}] + vals[c[s]]
      BY <2>1, <2>2
    <3> QED BY <3>1, <3>2
  <2> QED BY <2>3, <1>6 DEF OneByOne
<1> HIDE DEF c, A
<1>8. h[V] = g[V]
  BY <1>3, <1>7, FoldAdds
<1> QED BY <1>1, <1>8 DEF V

\* More of each element, no less in all.
LEMMA AddsMonotone ==
  ASSUME NEW n \in Nat, NEW w, NEW g, Adds(g, w, n),
         NEW v, NEW f, Adds(f, v, n),
         NEW t \in SUBSET (1..n), \A x \in t : w[x] <= v[x]
  PROVE  g[t] <= f[t]
<1> DEFINE T == {s \in SUBSET (1..n) : s \subseteq t => g[s] <= f[s]}
<1>1. {} \in T
  <2>1. g[{}] = 0 /\ f[{}] = 0
    BY DEF Adds
  <2> QED BY <2>1
<1>2. ASSUME NEW s \in SUBSET (1..n), NEW x \in 1..n, x \in s /\ s \ {x} \in T
      PROVE  s \in T
  <2>1. g[s] = g[s \ {x}] + w[x] /\ f[s] = f[s \ {x}] + v[x]
    BY <1>2 DEF Adds
  <2>2. g[s \ {x}] \in Int /\ f[s \ {x}] \in Int /\ w[x] \in Int /\ v[x] \in Int
    BY DEF Adds
  <2>3. s \subseteq t => g[s \ {x}] <= f[s \ {x}] /\ w[x] <= v[x]
    BY <1>2
  <2>4. s \subseteq t => g[s] <= f[s]
    BY <2>1, <2>2, <2>3
  <2> QED BY <2>4
<1> HIDE DEF T
<1>3. t \in T
  BY <1>1, <1>2, SetsUp
<1> QED BY <1>3 DEF T

\* Where nothing is negative, more elements are no less in all.
LEMMA AddsLarger ==
  ASSUME NEW n \in Nat, NEW w, NEW g, Adds(g, w, n),
         NEW t \in SUBSET (1..n), \A x \in t : w[x] >= 0, NEW r \in SUBSET t
  PROVE  0 <= g[r] /\ g[r] <= g[t]
<1> DEFINE T == {s \in SUBSET (1..n) : s \subseteq t => \A u \in SUBSET s : 0 <= g[u] /\ g[u] <= g[s]}
<1>1. {} \in T
  <2>1. g[{}] = 0
    BY DEF Adds
  <2>2. \A u \in SUBSET {} : u = {}
    OBVIOUS
  <2> QED BY <2>1, <2>2
<1>2. ASSUME NEW s \in SUBSET (1..n), NEW x \in 1..n, x \in s /\ s \ {x} \in T
      PROVE  s \in T
  <2> SUFFICES ASSUME s \subseteq t, NEW u \in SUBSET s
               PROVE  0 <= g[u] /\ g[u] <= g[s]
    OBVIOUS
  <2>1. w[x] \in Int /\ w[x] >= 0
    BY <1>2 DEF Adds
  <2>2. \A q \in SUBSET (s \ {x}) : 0 <= g[q] /\ g[q] <= g[s \ {x}]
    BY <1>2
  <2>3. g[s] = g[s \ {x}] + w[x] /\ g[s \ {x}] \in Int
    BY <1>2 DEF Adds
  <2>4. CASE x \in u
    <3>1. u \ {x} \in SUBSET (s \ {x})
      OBVIOUS
    <3>2. u \in SUBSET (1..n)
      OBVIOUS
    <3>3. g[u] = g[u \ {x}] + w[x] /\ g[u \ {x}] \in Int
      BY <2>4, <3>2 DEF Adds
    <3>4. 0 <= g[u \ {x}] /\ g[u \ {x}] <= g[s \ {x}]
      BY <2>2, <3>1
    <3> QED BY <3>3, <3>4, <2>1, <2>3
  <2>5. CASE x \notin u
    <3>1. u \in SUBSET (s \ {x}) /\ u \in SUBSET (1..n)
      BY <2>5
    <3>2. g[u] \in Int
      BY <3>1 DEF Adds
    <3>3. 0 <= g[u] /\ g[u] <= g[s \ {x}]
      BY <2>2, <3>1
    <3> QED BY <3>2, <3>3, <2>1, <2>3
  <2> QED BY <2>4, <2>5
<1> HIDE DEF T
<1>3. t \in T
  BY <1>1, <1>2, SetsUp
<1> QED BY <1>3 DEF T

-----------------------------------------------------------------------------
(* Sums of sequences. *)

\* Sum is the sum over the places of the sequence.
LEMMA SumAdds ==
  ASSUME NEW s \in Seq(Int), NEW n \in Nat, Len(s) <= n, NEW w, NEW g, Adds(g, w, n),
         \A i \in 1..Len(s) : w[i] = s[i]
  PROVE  Sum(s) = g[1..Len(s)]
<1> DEFINE V == DOMAIN s
           A(f) == f = [t \in SUBSET V |-> IF t = {} THEN 0 ELSE
                          f[t \ {Max(t)}] + s[Max(t)]]
           c == [t \in SUBSET V |-> Max(t)]
           h == CHOOSE k : A(k)
<1>1. Sum(s) = h[V]
  BY DEF Sum, FoldLeft, MapThenFoldSet
<1>2. V = 1..Len(s) /\ V \in SUBSET (1..n)
  <2>1. Len(s) \in Nat /\ DOMAIN s = 1..Len(s)
    OBVIOUS
  <2> QED BY <2>1
<1>3. \A x \in V : s[x] = w[x]
  BY <1>2
<1> HIDE DEF V
<1>4. ASSUME NEW t \in SUBSET V, t # {}
      PROVE  Max(t) \in t
  <2>1. \E x \in t : \A y \in t : x >= y
    <3> DEFINE U == {k \in Nat : \A y \in t : k >= y}
    <3>1. n \in U /\ U \subseteq Nat
      BY <1>2
    <3> HIDE DEF U
    <3>2. PICK k \in U : \A j \in U : k <= j
      BY <3>1, LeastNumber
    <3>3. k \in Nat /\ \A y \in t : k >= y
      BY DEF U
    <3>4. k \in t
      <4>1. SUFFICES ASSUME k \notin t
                     PROVE  FALSE
        OBVIOUS
      <4>2. \A y \in t : y \in Nat /\ y # 0
        BY <1>2
      <4>3. k # 0 /\ k - 1 \in Nat
        BY <1>4, <3>3, <4>2
      <4>4. \A y \in t : k - 1 >= y
        BY <3>3, <4>1, <4>2, <4>3
      <4>5. k - 1 \in U
        BY <4>3, <4>4 DEF U
      <4> QED BY <3>2, <3>3, <4>5
    <3> QED BY <3>3, <3>4
  <2> QED BY <2>1 DEF Max
<1>5. A([t \in SUBSET V |-> g[t]])
  <2>1. ASSUME NEW t \in SUBSET V
        PROVE  g[t] = IF t = {} THEN 0 ELSE
                 [u \in SUBSET V |-> g[u]][t \ {Max(t)}] + s[Max(t)]
    <3> DEFINE y == Max(t)
    <3>1. t # {} => y \in t
      BY <1>4
    <3> HIDE DEF y
    <3>2. g[{}] = 0
      BY DEF Adds
    <3>3. CASE t # {}
      <4>1. y \in 1..n /\ t \in SUBSET (1..n) /\ s[y] = w[y]
        BY <1>2, <1>3, <3>1, <3>3
      <4>2. g[t] = g[t \ {y}] + w[y]
        BY <3>1, <3>3, <4>1 DEF Adds
      <4>3. [u \in SUBSET V |-> g[u]][t \ {y}] = g[t \ {y}]
        OBVIOUS
      <4> QED BY <3>3, <4>1, <4>2, <4>3 DEF y
    <3> QED BY <3>2, <3>3
  <2> HIDE DEF A
  <2>2. [t \in SUBSET V |-> g[t]] =
          [t \in SUBSET V |-> IF t = {} THEN 0 ELSE
             [u \in SUBSET V |-> g[u]][t \ {Max(t)}] + s[Max(t)]]
    BY <2>1
  <2> QED BY <2>2 DEF A
<1>6. A(h)
  <2>1. \E k : A(k)
    BY <1>5
  <2> HIDE DEF A
  <2> QED BY <2>1
<1> HIDE DEF h
<1>7. OneByOne(h, w, c, V)
  <2>1. \A t \in SUBSET V : h[t] = IF t = {} THEN 0 ELSE h[t \ {Max(t)}] + s[Max(t)]
    BY <1>6
  <2> HIDE DEF A
  <2>2. ASSUME NEW t \in SUBSET V
        PROVE  /\ t # {} => c[t] \in t
               /\ h[t] = IF t = {} THEN 0 ELSE h[t \ {c[t]}] + w[c[t]]
    <3>1. c[t] = Max(t)
      OBVIOUS
    <3> HIDE DEF c
    <3>2. t # {} => c[t] \in t
      BY <3>1, <1>4
    <3>3. t # {} => s[c[t]] = w[c[t]]
      BY <1>3, <3>2
    <3>4. h[t] = IF t = {} THEN 0 ELSE h[t \ {c[t]}] + s[c[t]]
      BY <2>1, <3>1
    <3> QED BY <3>2, <3>3, <3>4
  <2> HIDE DEF c
  <2> QED BY <2>2 DEF OneByOne
<1> HIDE DEF c, A
<1>8. h[V] = g[V]
  <2>1. V \in SUBSET (1..n)
    BY <1>2
  <2> HIDE DEF V
  <2> QED BY <2>1, <1>7, FoldAdds
<1> QED BY <1>1, <1>2, <1>8

LEMMA SumAppend ==
  ASSUME NEW s \in Seq(Int), NEW x \in Int
  PROVE  /\ Sum(s) \in Int
         /\ Sum(<<x>>) = x
         /\ Sum(Append(s, x)) = Sum(s) + x
<1> DEFINE a == Append(s, x)
           n == Len(s) + 1
<1>1. a \in Seq(Int) /\ Len(a) = n /\ n \in Nat /\ Len(s) \in Nat
  OBVIOUS
<1>2. a[n] = x /\ \A i \in 1..Len(s) : a[i] = s[i]
  OBVIOUS
<1>3. \A i \in 1..n : a[i] \in Int
  BY <1>1
<1> HIDE DEF a, n
<1>4. PICK g : Adds(g, a, n)
  BY <1>1, <1>3, AddsExists
<1>5. Sum(a) = g[1..n]
  BY <1>1, <1>4, SumAdds
<1>6. Sum(s) = g[1..Len(s)]
  BY <1>1, <1>2, <1>4, SumAdds DEF n
<1>7. /\ n \in 1..n /\ (1..n) \ {n} = 1..Len(s) /\ 1..Len(s) \in SUBSET (1..n)
     /\ 1..n \in SUBSET (1..n)
  BY <1>1 DEF n
<1>8. g[1..n] = g[1..Len(s)] + a[n] /\ g[1..Len(s)] \in Int
  <2>1. \A t \in SUBSET (1..n), y \in 1..n : y \in t => g[t] = g[t \ {y}] + a[y]
    BY <1>4 DEF Adds
  <2>2. \A t \in SUBSET (1..n) : g[t] \in Int
    BY <1>4 DEF Adds
  <2>3. g[1..n] = g[(1..n) \ {n}] + a[n]
    BY <1>7, <2>1
  <2> QED BY <1>7, <2>2, <2>3
<1>9. Sum(<<x>>) = x
  <2>1. <<x>> \in Seq(Int) /\ Len(<<x>>) = 1 /\ <<x>>[1] = x
    OBVIOUS
  <2>2. PICK f : Adds(f, <<x>>, 1)
    <3>1. 1 \in Nat /\ \A i \in 1..1 : <<x>>[i] \in Int
      BY <2>1
    <3> QED BY <3>1, AddsExists
  <2> DEFINE b == <<x>>
  <2> HIDE DEF b
  <2>3. Sum(b) = f[1..1]
    <3>1. b \in Seq(Int) /\ Len(b) = 1 /\ 1 \in Nat /\ Adds(f, b, 1)
      BY <2>1, <2>2 DEF b
    <3>2. \A i \in 1..Len(b) : b[i] = b[i]
      OBVIOUS
    <3>3. Sum(b) = f[1..Len(b)]
      <4>1. Len(b) <= 1
        BY <3>1
      <4> QED BY <3>1, <3>2, <4>1, SumAdds
    <3> QED BY <3>1, <3>3
  <2>4. 1 \in 1..1 /\ 1..1 \in SUBSET (1..1) /\ (1..1) \ {1} = {}
    OBVIOUS
  <2>5. f[1..1] = f[{}] + <<x>>[1] /\ f[{}] = 0
    BY <2>2, <2>4 DEF Adds
  <2> QED BY <2>1, <2>3, <2>5 DEF b
<1> QED BY <1>2, <1>5, <1>6, <1>8, <1>9 DEF a

-----------------------------------------------------------------------------
(* Folded lines. *)

LineValues == [FileLine -> Int \cup {NoValue}]
Times == [FileLine -> Nat \cup {NoValue}]

\* the values as numbers
Number(vals) == [l \in FileLine |-> IF vals[l] = NoValue THEN 0 ELSE vals[l]]

LEMMA SumOverLines ==
  ASSUME NEW vals \in LineValues
  PROVE  \E g : /\ Adds(g, Number(vals), LineCount)
               /\ \A within \in SUBSET FileLine :
                    /\ SumOver(vals, within) = g[Valued(vals, within)]
                    /\ SumOver(vals, within) \in Int
<1> DEFINE w == Number(vals)
<1>1. LineCount \in Nat
  BY ValuesAssumption
<1>2. \A x \in FileLine : w[x] \in Int
  BY DEF LineValues, Number
<1>3. \A x \in FileLine : vals[x] # NoValue => vals[x] = w[x]
  BY DEF Number
<1> HIDE DEF w
<1>4. PICK g : Adds(g, w, LineCount)
  BY <1>1, <1>2, AddsExists DEF FileLine
<1>5. ASSUME NEW within \in SUBSET FileLine
      PROVE  /\ SumOver(vals, within) = g[Valued(vals, within)]
             /\ SumOver(vals, within) \in Int
  <2>1. Valued(vals, within) \in SUBSET (1..LineCount)
    BY DEF Valued, FileLine
  <2>2. \A x \in Valued(vals, within) : vals[x] = w[x]
    BY <1>3 DEF Valued
  <2>3. SumOver(vals, within) = g[Valued(vals, within)]
    BY <1>1, <1>4, <2>1, <2>2, SumOverAdds
  <2> QED BY <2>1, <2>3, <1>4 DEF Adds
<1> QED BY <1>4, <1>5 DEF w

\* The sum over some lines depends on the values of those lines only.
LEMMA SumOverAgree ==
  ASSUME NEW u \in LineValues, NEW v \in LineValues, NEW within \in SUBSET FileLine,
         \A l \in within : u[l] = v[l]
  PROVE  Valued(u, within) = Valued(v, within) /\ SumOver(u, within) = SumOver(v, within)
<1>1. LineCount \in Nat
  BY ValuesAssumption
<1>2. Valued(u, within) = Valued(v, within)
  BY DEF Valued
<1>3. PICK g : Adds(g, Number(u), LineCount) /\ SumOver(u, within) = g[Valued(u, within)]
  BY SumOverLines
<1>4. Valued(v, within) \in SUBSET (1..LineCount)
  BY DEF Valued, FileLine
<1>5. \A x \in Valued(v, within) : v[x] = Number(u)[x]
  BY DEF Valued, Number
<1>6. SumOver(v, within) = g[Valued(v, within)]
  BY <1>1, <1>3, <1>4, <1>5, SumOverAdds
<1> QED BY <1>2, <1>3, <1>6

\* Where more lines have a value, and no less of it, the sum is no less.
LEMMA SumOverMore ==
  ASSUME NEW u \in Times, NEW v \in Times, NEW within \in SUBSET FileLine,
         \A l \in within : u[l] # NoValue => v[l] # NoValue /\ u[l] <= v[l]
  PROVE  /\ SumOver(u, within) \in Nat /\ SumOver(v, within) \in Nat
         /\ SumOver(u, within) <= SumOver(v, within)
         /\ \A l \in within : v[l] # NoValue => v[l] <= SumOver(v, within)
<1> DEFINE U == Valued(u, within)
           V == Valued(v, within)
<1>1. LineCount \in Nat
  BY ValuesAssumption
<1>2. u \in LineValues /\ v \in LineValues
  BY DEF Times, LineValues
<1>3. PICK g : /\ Adds(g, Number(u), LineCount)
               /\ SumOver(u, within) = g[U] /\ SumOver(u, within) \in Int
  BY <1>2, SumOverLines
<1>4. PICK f : /\ Adds(f, Number(v), LineCount)
               /\ SumOver(v, within) = f[V] /\ SumOver(v, within) \in Int
  BY <1>2, SumOverLines
<1>5. U \in SUBSET V /\ V \in SUBSET (1..LineCount) /\ U \in SUBSET (1..LineCount)
  BY DEF Valued, FileLine
<1>6. \A x \in U : Number(u)[x] = u[x] /\ Number(u)[x] >= 0
  BY <1>5 DEF Valued, Number, Times, FileLine
<1>7. \A x \in V : Number(v)[x] = v[x] /\ Number(v)[x] >= 0
  BY <1>5 DEF Valued, Number, Times, FileLine
<1>8. \A x \in U : u[x] <= v[x]
  BY DEF Valued
<1>9. \A l \in within : v[l] # NoValue => l \in V
  BY DEF Valued
<1> HIDE DEF U, V
<1>10. g[U] <= f[U]
  <2>1. \A x \in U : Number(u)[x] <= Number(v)[x]
    BY <1>5, <1>6, <1>7, <1>8
  <2> QED BY <1>1, <1>3, <1>4, <1>5, <2>1, AddsMonotone
<1>11. \A R \in SUBSET V : 0 <= f[R] /\ f[R] <= f[V]
  BY <1>1, <1>4, <1>5, <1>7, AddsLarger
<1>12. 0 <= g[U]
  BY <1>1, <1>3, <1>5, <1>6, AddsLarger
<1>13. f[U] \in Int
  BY <1>4, <1>5 DEF Adds
<1>14. ASSUME NEW l \in V
       PROVE  v[l] <= f[V]
  <2>1. l \in 1..LineCount /\ {l} \in SUBSET (1..LineCount) /\ {l} \ {l} = {}
    BY <1>5
  <2>2. f[{l}] = f[{l} \ {l}] + Number(v)[l] /\ f[{}] = 0 /\ Number(v)[l] \in Int
    BY <1>4, <2>1 DEF Adds
  <2>3. f[{l}] = v[l]
    <3>1. f[{l} \ {l}] = f[{}]
      BY <2>1
    <3>2. Number(v)[l] = v[l]
      BY <1>7
    <3> QED BY <2>2, <3>1, <3>2
  <2>4. {l} \in SUBSET V
    OBVIOUS
  <2> QED BY <1>11, <2>3, <2>4
<1>15. f[U] <= f[V] /\ 0 <= f[V]
  BY <1>5, <1>11
<1> QED BY <1>3, <1>4, <1>9, <1>10, <1>12, <1>13, <1>14, <1>15

Span(region) == region[1]..region[2]

\* One collapsed region.
LEMMA FoldIs ==
  ASSUME NEW region \in FileLine \X FileLine, NEW vals \in LineValues
  PROVE  /\ Span(region) \in SUBSET FileLine
         /\ Fold(region, vals) \in LineValues
         /\ \A l \in FileLine : ~Covers(region, l) => Fold(region, vals)[l] = vals[l]
         /\ Valued(vals, Span(region)) # {} =>
              \A l \in Span(region) :
                Fold(region, vals)[l] = SumOver(vals, Span(region))
         /\ Valued(vals, Span(region)) = {} => Fold(region, vals) = vals
<1> DEFINE within == Span(region)
<1>1. within \in SUBSET FileLine
  BY ValuesAssumption DEF FileLine, Span
<1>2. SumOver(vals, within) \in Int
  BY <1>1, SumOverLines
<1>3. Fold(region, vals) = IF Valued(vals, within) = {} THEN vals
        ELSE [l \in FileLine |-> IF l \in within THEN SumOver(vals, within) ELSE vals[l]]
  BY DEF Fold, Span
<1>4. \A l : Covers(region, l) <=> l \in within
  BY DEF Covers, Span
<1> HIDE DEF within
<1>5. \A l \in FileLine : vals[l] \in Int \cup {NoValue}
  BY DEF LineValues
<1>6. Fold(region, vals) \in LineValues
  <2>1. CASE Valued(vals, within) = {}
    BY <1>3, <2>1
  <2>2. CASE Valued(vals, within) # {}
    <3>1. [l \in FileLine |-> IF l \in within THEN SumOver(vals, within) ELSE vals[l]] \in LineValues
      BY <1>2, <1>5 DEF LineValues
    <3> QED BY <1>3, <2>2, <3>1
  <2> QED BY <2>1, <2>2
<1>7. \A l \in FileLine : ~Covers(region, l) => Fold(region, vals)[l] = vals[l]
  BY <1>3, <1>4
<1>8. Valued(vals, within) # {} => \A l \in within : Fold(region, vals)[l] = SumOver(vals, within)
  BY <1>1, <1>3
<1>9. Valued(vals, within) = {} => Fold(region, vals) = vals
  BY <1>3
<1> QED BY <1>1, <1>6, <1>7, <1>8, <1>9 DEF within

\* f is the fold over the regions of every set of places, base at the empty set
Folds(f, regions, base, V) ==
  \A s \in SUBSET V : f[s] = IF s = {} THEN base ELSE Fold(regions[Min(s)], f[s \ {Min(s)}])

LEMMA MinIs ==
  ASSUME NEW s, s \subseteq Int, NEW x \in s, \A y \in s : x <= y
  PROVE  Min(s) = x
<1>1. Min(s) \in s /\ \A y \in s : Min(s) <= y
  BY DEF Min
<1>2. Min(s) <= x /\ x <= Min(s) /\ x \in Int /\ Min(s) \in Int
  BY <1>1
<1> QED BY <1>2

FoldsAll(f, regions, base, V) ==
  f = [s \in SUBSET V |-> IF s = {} THEN base ELSE Fold(regions[Min(s)], f[s \ {Min(s)}])]

Folded(regions, base) == FoldRight(Fold, regions, base)

LEMMA FoldsExist ==
  ASSUME NEW regions, NEW base, NEW n \in Nat
  PROVE  \E f : FoldsAll(f, regions, base, 1..n)
<1> DEFINE V(m) == (n - m + 1)..n
           N == {m \in Nat : m <= n => \E f : Folds(f, regions, base, V(m))}
<1>1. 0 \in N
  <2>1. V(0) = {}
    OBVIOUS
  <2>2. Folds([s \in SUBSET V(0) |-> base], regions, base, V(0))
    BY <2>1 DEF Folds
  <2> QED BY <2>2
<1>2. ASSUME NEW m \in Nat, m \in N
      PROVE  m + 1 \in N
  <2>1. SUFFICES ASSUME m + 1 <= n
                 PROVE  \E f : Folds(f, regions, base, V(m + 1))
    OBVIOUS
  <2>2. PICK g : Folds(g, regions, base, V(m))
    BY <1>2, <2>1
  <2>3. n - m \in Nat /\ n - m \in Int
    BY <2>1
  <2>4. \A y \in V(m + 1) : y \in Int /\ n - m <= y /\ (y # n - m => y \in V(m))
    BY <2>1
  <2>5. V(m) \subseteq V(m + 1) /\ n - m \notin V(m)
    BY <2>1
  <2> HIDE DEF V, N
  <2> DEFINE k == n - m
             f == [s \in SUBSET V(m + 1) |-> IF k \in s THEN Fold(regions[k], g[s \ {k}]) ELSE g[s]]
  <2>6. ASSUME NEW s \in SUBSET V(m + 1)
        PROVE  f[s] = IF s = {} THEN base ELSE Fold(regions[Min(s)], f[s \ {Min(s)}])
    <3>1. f[s] = IF k \in s THEN Fold(regions[k], g[s \ {k}]) ELSE g[s]
      OBVIOUS
    <3>2. \A t \in SUBSET V(m) : f[t] = g[t]
      BY <2>5
    <3> HIDE DEF f
    <3>3. CASE k \in s
      <4>1. Min(s) = k
        BY <3>3, <2>4, MinIs
      <4>2. s \ {k} \in SUBSET V(m)
        BY <2>4
      <4> QED BY <3>1, <3>2, <3>3, <4>1, <4>2
    <3>4. CASE k \notin s
      <4>1. s \in SUBSET V(m)
        BY <3>4, <2>4
      <4>2. g[s] = IF s = {} THEN base ELSE Fold(regions[Min(s)], g[s \ {Min(s)}])
        BY <2>2, <4>1 DEF Folds
      <4>3. f[s \ {Min(s)}] = g[s \ {Min(s)}]
        BY <3>2, <4>1
      <4> QED BY <3>1, <3>4, <4>2, <4>3
    <3> QED BY <3>3, <3>4
  <2> HIDE DEF f
  <2>7. Folds(f, regions, base, V(m + 1))
    BY <2>6 DEF Folds
  <2> QED BY <2>7
<1>3. n \in N
  <2> HIDE DEF N
  <2> QED BY <1>1, <1>2, AllNumbers
<1>4. V(n) = 1..n
  OBVIOUS
<1>5. PICK f : Folds(f, regions, base, 1..n)
  BY <1>3, <1>4
<1> DEFINE h == [s \in SUBSET (1..n) |-> f[s]]
<1>6. ASSUME NEW s \in SUBSET (1..n)
      PROVE  h[s] = IF s = {} THEN base ELSE Fold(regions[Min(s)], h[s \ {Min(s)}])
  <2>1. h[s] = f[s] /\ h[s \ {Min(s)}] = f[s \ {Min(s)}]
    OBVIOUS
  <2> QED BY <1>5, <2>1 DEF Folds
<1>7. h = [s \in SUBSET (1..n) |-> h[s]]
  OBVIOUS
<1> HIDE DEF h
<1>8. h = [s \in SUBSET (1..n) |-> IF s = {} THEN base ELSE Fold(regions[Min(s)], h[s \ {Min(s)}])]
  BY <1>6, <1>7
<1> QED BY <1>8 DEF FoldsAll

\* h[i] is what is shown once the regions from i on are folded
Steps(h, regions, base) ==
  /\ Folded(regions, base) = h[1]
  /\ h[Len(regions) + 1] = base
  /\ \A i \in 1..Len(regions) : h[i] = Fold(regions[i], h[i + 1])

\* What getFoldedValues does: region after region, from the last to the first.
LEMMA FoldedStepwise ==
  ASSUME NEW regions \in Seq(FileLine \X FileLine), NEW base
  PROVE  \E h : Steps(h, regions, base)
<1> DEFINE V == DOMAIN regions
           A(f) == f = [s \in SUBSET V |-> IF s = {} THEN base ELSE
                          Fold(regions[Min(s)], f[s \ {Min(s)}])]
           g == CHOOSE f : A(f)
           n == Len(regions)
           h == [i \in 1..(n + 1) |-> g[i..n]]
<1>1. Folded(regions, base) = g[V]
  BY DEF Folded, FoldRight, MapThenFoldSet
<1>2. V = 1..n /\ n \in Nat
  OBVIOUS
<1> HIDE DEF V, n
<1>3. A(g)
  <2>1. \E f : A(f)
    <3>1. PICK f : FoldsAll(f, regions, base, V)
      BY <1>2, FoldsExist
    <3>2. A(f)
      BY <3>1 DEF FoldsAll
    <3> HIDE DEF A
    <3> QED BY <3>2
  <2> HIDE DEF A
  <2> QED BY <2>1
<1> HIDE DEF g
<1>4. \A s \in SUBSET V : g[s] = IF s = {} THEN base ELSE Fold(regions[Min(s)], g[s \ {Min(s)}])
  BY <1>3
<1> HIDE DEF A
<1>5. h[1] = g[V]
  BY <1>2
<1>6. h[n + 1] = base
  <2>1. (n + 1)..n = {} /\ n + 1 \in 1..(n + 1) /\ {} \in SUBSET V
    BY <1>2
  <2>2. g[{}] = base
    BY <1>4, <2>1
  <2> QED BY <2>1, <2>2
<1>7. ASSUME NEW i \in 1..n
      PROVE  h[i] = Fold(regions[i], h[i + 1])
  <2>1. i \in 1..(n + 1) /\ i + 1 \in 1..(n + 1) /\ i..n \in SUBSET V
    BY <1>2
  <2>2. i \in i..n /\ i..n \subseteq Int /\ (\A y \in i..n : i <= y) /\ (i..n) \ {i} = (i + 1)..n
    BY <1>2
  <2>3. Min(i..n) = i
    BY <2>2, MinIs
  <2>4. g[i..n] = Fold(regions[i], g[(i + 1)..n])
    BY <1>4, <2>1, <2>2, <2>3
  <2> QED BY <2>1, <2>4
<1> HIDE DEF h
<1> QED BY <1>1, <1>5, <1>6, <1>7 DEF n, Steps

-----------------------------------------------------------------------------
(* What a profiler shows. *)

Region(regions, i) == Span(regions[i])

\* Each line of a region with values shows the sum of the region, the others their own
\* value, when no two regions share a line.
LEMMA SideBySideSums ==
  ASSUME NEW regions \in SideBySide, NEW base \in LineValues, NEW l \in FileLine
  PROVE  LET shown == Folded(regions, base)
             filled == {i \in DOMAIN regions : Valued(base, Region(regions, i)) # {}}
         IN  /\ (\A i \in filled : ~Covers(regions[i], l)) => shown[l] = base[l]
             /\ \A i \in filled : Covers(regions[i], l) =>
                  shown[l] = SumOver(base, Region(regions, i))
<1> DEFINE n == Len(regions)
           filled == {i \in DOMAIN regions : Valued(base, Region(regions, i)) # {}}
\* what a line shows once the regions from i on are folded
           Right(v, i) ==
             /\ v \in LineValues
             /\ \A k \in FileLine :
                  /\ (\A j \in filled : j >= i => ~Covers(regions[j], k)) => v[k] = base[k]
                  /\ \A j \in filled : j >= i /\ Covers(regions[j], k) =>
                       v[k] = SumOver(base, Region(regions, j))
<1>1. regions \in Seq(FileLine \X FileLine) /\ n \in Nat /\ DOMAIN regions = 1..n
  BY ValuesAssumption DEF SideBySide
<1>2. \A i \in 1..n : regions[i] \in FileLine \X FileLine
  BY <1>1
<1>3. \A i, j \in 1..n, k \in FileLine :
        Covers(regions[i], k) /\ Covers(regions[j], k) => i = j
  BY <1>1 DEF SideBySide
<1>4. PICK h : /\ Folded(regions, base) = h[1]
               /\ h[n + 1] = base
               /\ \A i \in 1..n : h[i] = Fold(regions[i], h[i + 1])
  <2>1. PICK h : Steps(h, regions, base)
    BY <1>1, FoldedStepwise
  <2> QED BY <2>1 DEF Steps
<1>5. filled \subseteq 1..n /\ \A i \in 1..n : i \in filled <=> Valued(base, Region(regions, i)) # {}
  BY <1>1
<1> HIDE DEF n, filled
<1>6. Right(h[n + 1], n + 1)
  <2>1. \A j \in filled : ~(j >= n + 1)
    BY <1>1, <1>5
  <2> QED BY <1>4, <2>1
<1>7. ASSUME NEW i \in 1..n, Right(h[i + 1], i + 1)
      PROVE  Right(h[i], i)
  <2> DEFINE v == h[i + 1]
             R == Region(regions, i)
  <2>1. h[i] = Fold(regions[i], v) /\ regions[i] \in FileLine \X FileLine
    BY <1>2, <1>4
  <2>2. v \in LineValues
    BY <1>7
  <2>3. \A k \in FileLine : Covers(regions[i], k) => v[k] = base[k]
    <3>1. SUFFICES ASSUME NEW k \in FileLine, Covers(regions[i], k)
                   PROVE  v[k] = base[k]
      OBVIOUS
    <3>2. \A j \in filled : j >= i + 1 => ~Covers(regions[j], k)
      BY <1>1, <1>3, <1>5, <3>1
    <3> QED BY <1>7, <3>2
  <2> HIDE DEF v
  <2>4. /\ R \in SUBSET FileLine
        /\ h[i] \in LineValues
        /\ \A k \in FileLine : ~Covers(regions[i], k) => h[i][k] = v[k]
        /\ Valued(v, R) # {} => \A k \in R : h[i][k] = SumOver(v, R)
        /\ Valued(v, R) = {} => h[i] = v
    BY <2>1, <2>2, FoldIs DEF Region
  <2>5. \A k : Covers(regions[i], k) <=> k \in R
    BY DEF Covers, Region, Span
  <2>6. Valued(v, R) = Valued(base, R) /\ SumOver(v, R) = SumOver(base, R)
    BY <2>2, <2>3, <2>4, <2>5, SumOverAgree
  <2>7. i \in filled <=> Valued(v, R) # {}
    BY <1>5, <2>6
  <2> HIDE DEF R
  <2>8. ASSUME NEW k \in FileLine
        PROVE  /\ (\A j \in filled : j >= i => ~Covers(regions[j], k)) => h[i][k] = base[k]
               /\ \A j \in filled : j >= i /\ Covers(regions[j], k) =>
                    h[i][k] = SumOver(base, Region(regions, j))
    <3>1. \A j \in filled : j >= i + 1 => j >= i
      BY <1>1, <1>5
    <3>2. \A j \in filled : j >= i => j = i \/ j >= i + 1
      BY <1>1, <1>5
    <3>3. /\ (\A j \in filled : j >= i + 1 => ~Covers(regions[j], k)) => v[k] = base[k]
          /\ \A j \in filled : j >= i + 1 /\ Covers(regions[j], k) =>
               v[k] = SumOver(base, Region(regions, j))
      BY <1>7 DEF v
    <3>4. CASE Covers(regions[i], k)
      <4>1. \A j \in filled : Covers(regions[j], k) => j = i
        BY <1>3, <1>5, <3>4
      <4>2. i \in filled => h[i][k] = SumOver(base, R)
        BY <2>4, <2>5, <2>6, <2>7, <3>4
      <4>3. i \notin filled => h[i][k] = base[k]
        BY <2>3, <2>4, <2>7, <3>4
      <4>4. i >= i
        BY <1>1
      <4> QED BY <3>4, <4>1, <4>2, <4>3, <4>4 DEF R
    <3>5. CASE ~Covers(regions[i], k)
      <4>1. h[i][k] = v[k]
        BY <2>4, <3>5
      <4> QED BY <3>1, <3>2, <3>3, <3>5, <4>1
    <3> QED BY <3>4, <3>5
  <2> QED BY <2>4, <2>8
<1> HIDE DEF Right
<1>8. Right(h[1], 1)
  <2> DEFINE T == {m \in Nat : m <= n => Right(h[n + 1 - m], n + 1 - m)}
  <2>1. 0 \in T
    BY <1>1, <1>6
  <2>2. ASSUME NEW m \in Nat, m \in T
        PROVE  m + 1 \in T
    <3>1. SUFFICES ASSUME m + 1 <= n
                   PROVE  Right(h[n + 1 - (m + 1)], n + 1 - (m + 1))
      OBVIOUS
    <3>2. n - m \in 1..n /\ n + 1 - (m + 1) = n - m /\ n + 1 - m = (n - m) + 1
      BY <1>1, <3>1
    <3>3. Right(h[n + 1 - m], n + 1 - m)
      BY <1>1, <2>2, <3>1
    <3> QED BY <1>7, <3>2, <3>3
  <2> HIDE DEF T
  <2>3. n \in T
    BY <1>1, <2>1, <2>2, AllNumbers
  <2>4. n + 1 - n = 1 /\ n <= n
    BY <1>1
  <2> QED BY <2>3, <2>4 DEF T
<1>9. \A j \in filled : j >= 1
  BY <1>1, <1>5
<1> QED BY <1>4, <1>8, <1>9 DEF Right, filled

\* The lines of the first region, folded last, show the same, and no less than its sum.
LEMMA FirstRegionSum ==
  ASSUME NEW regions \in Seq(FileLine \X FileLine), NEW base \in Times,
         1 \in DOMAIN regions, Valued(base, Region(regions, 1)) # {},
         NEW l \in Region(regions, 1)
  PROVE  LET shown == Folded(regions, base)
         IN  /\ shown[l] = shown[regions[1][1]]
             /\ shown[l] >= SumOver(base, Region(regions, 1))
<1> DEFINE n == Len(regions)
\* folding only adds
           More(v) == /\ v \in Times
                      /\ \A k \in FileLine : base[k] # NoValue => v[k] # NoValue /\ base[k] <= v[k]
<1>1. n \in Nat /\ DOMAIN regions = 1..n /\ 1 \in 1..n
  OBVIOUS
<1>2. \A i \in 1..n : regions[i] \in FileLine \X FileLine
  OBVIOUS
<1>3. PICK h : /\ Folded(regions, base) = h[1]
               /\ h[n + 1] = base
               /\ \A i \in 1..n : h[i] = Fold(regions[i], h[i + 1])
  <2>1. PICK h : Steps(h, regions, base)
    BY FoldedStepwise
  <2> QED BY <2>1 DEF Steps
<1>4. NoValue \notin Int
  BY ValuesAssumption
<1>5. More(h[n + 1])
  <2>1. \A k \in FileLine : base[k] # NoValue => base[k] <= base[k]
    BY DEF Times
  <2> QED BY <1>3, <2>1
<1> HIDE DEF n
<1>6. ASSUME NEW i \in 1..n, More(h[i + 1])
      PROVE  /\ More(h[i])
             /\ Valued(h[i + 1], Region(regions, i)) # {} =>
                  \A k \in Region(regions, i) :
                    h[i][k] = SumOver(h[i + 1], Region(regions, i))
             /\ Region(regions, i) \in SUBSET FileLine
             /\ SumOver(base, Region(regions, i)) <= SumOver(h[i + 1], Region(regions, i))
  <2> DEFINE v == h[i + 1]
             R == Region(regions, i)
  <2>1. h[i] = Fold(regions[i], v) /\ regions[i] \in FileLine \X FileLine
    BY <1>2, <1>3
  <2>2. /\ v \in Times
        /\ \A k \in FileLine : base[k] # NoValue => v[k] # NoValue /\ base[k] <= v[k]
    BY <1>6
  <2> HIDE DEF v
  <2>3. v \in LineValues
    BY <2>2 DEF Times, LineValues
  <2>4. /\ R \in SUBSET FileLine
        /\ h[i] \in LineValues
        /\ \A k \in FileLine : ~Covers(regions[i], k) => h[i][k] = v[k]
        /\ Valued(v, R) # {} => \A k \in R : h[i][k] = SumOver(v, R)
        /\ Valued(v, R) = {} => h[i] = v
    BY <2>1, <2>3, FoldIs DEF Region
  <2>5. \A k : Covers(regions[i], k) <=> k \in R
    BY DEF Covers, Region, Span
  <2> HIDE DEF R
  <2>6. /\ SumOver(v, R) \in Nat /\ SumOver(base, R) <= SumOver(v, R)
        /\ \A k \in R : v[k] # NoValue => v[k] <= SumOver(v, R)
    <3>1. \A k \in R : base[k] # NoValue => v[k] # NoValue /\ base[k] <= v[k]
      BY <2>2, <2>4
    <3> QED BY <2>2, <2>4, <3>1, SumOverMore
  <2>7. ASSUME NEW k \in FileLine
        PROVE  /\ h[i][k] \in Nat \cup {NoValue}
               /\ base[k] # NoValue => h[i][k] # NoValue /\ base[k] <= h[i][k]
    <3>1. v[k] \in Nat \cup {NoValue} /\ base[k] \in Nat \cup {NoValue}
      BY <2>2 DEF Times
    <3>2. base[k] # NoValue => v[k] # NoValue /\ base[k] <= v[k]
      BY <2>2
    <3>3. CASE k \in R /\ Valued(v, R) # {}
      <4>1. h[i][k] = SumOver(v, R)
        BY <2>4, <3>3
      <4>2. v[k] # NoValue => v[k] <= SumOver(v, R)
        BY <2>6, <3>3
      <4> QED BY <1>4, <2>6, <3>1, <3>2, <4>1, <4>2
    <3>4. CASE ~(k \in R /\ Valued(v, R) # {})
      <4>1. h[i][k] = v[k]
        BY <2>4, <2>5, <3>4
      <4> QED BY <3>1, <3>2, <4>1
    <3> QED BY <3>3, <3>4
  <2>8. h[i] \in Times
    <3>1. h[i] = [k \in FileLine |-> h[i][k]]
      BY <2>4 DEF LineValues
    <3> QED BY <2>7, <3>1 DEF Times
  <2> QED BY <2>4, <2>6, <2>7, <2>8 DEF v, R
<1> HIDE DEF More
<1>7. \A i \in 1..(n + 1) : More(h[i])
  <2> DEFINE T == {m \in Nat : m <= n => More(h[n + 1 - m])}
  <2>1. 0 \in T
    BY <1>1, <1>5
  <2>2. ASSUME NEW m \in Nat, m \in T
        PROVE  m + 1 \in T
    <3>1. SUFFICES ASSUME m + 1 <= n
                   PROVE  More(h[n + 1 - (m + 1)])
      OBVIOUS
    <3>2. n - m \in 1..n /\ n + 1 - (m + 1) = n - m /\ n + 1 - m = (n - m) + 1
      BY <1>1, <3>1
    <3>3. More(h[n + 1 - m])
      BY <1>1, <2>2, <3>1
    <3> QED BY <1>6, <3>2, <3>3
  <2> HIDE DEF T
  <2>3. Nat \subseteq T
    BY <2>1, <2>2, AllNumbers
  <2>4. ASSUME NEW i \in 1..(n + 1)
        PROVE  More(h[i])
    <3>1. n + 1 - i \in Nat /\ n + 1 - i <= n /\ n + 1 - (n + 1 - i) = i
      BY <1>1
    <3> QED BY <2>3, <3>1 DEF T
  <2> QED BY <2>4
<1>8. More(h[1 + 1])
  BY <1>1, <1>7
<1> DEFINE R == Region(regions, 1)
<1>9. R \in SUBSET FileLine /\ SumOver(base, R) <= SumOver(h[1 + 1], R)
      /\ (Valued(h[1 + 1], R) # {} => \A k \in R : h[1][k] = SumOver(h[1 + 1], R))
  BY <1>1, <1>6, <1>8
<1>10. regions[1][1] \in R
  <2>1. regions[1] \in FileLine \X FileLine
    BY <1>1, <1>2
  <2> QED BY <2>1, ValuesAssumption DEF Region, Span, FileLine
<1>11. Valued(h[1 + 1], R) # {}
  BY <1>8, <1>9 DEF More, Valued
<1>12. SumOver(base, R) \in Int /\ SumOver(h[1 + 1], R) \in Int
  <2>1. base \in LineValues /\ h[1 + 1] \in LineValues
    BY <1>8 DEF More, Times, LineValues
  <2> QED BY <1>9, <2>1, SumOverLines
<1> HIDE DEF R
<1>13. l \in R
  BY DEF R
<1>14. h[1][l] = SumOver(h[1 + 1], R) /\ h[1][regions[1][1]] = SumOver(h[1 + 1], R)
  BY <1>9, <1>10, <1>11, <1>13
<1>15. h[1][l] >= SumOver(base, R)
  BY <1>9, <1>12, <1>14
<1> QED BY <1>3, <1>14, <1>15 DEF R

-----------------------------------------------------------------------------
(* One line: the aggregates of a sequence of values. *)

LEMMA Extremes ==
  ASSUME NEW s \in Seq(Int), s # <<>>
  PROVE  /\ Largest(s) \in ToSet(s) /\ \A y \in ToSet(s) : y <= Largest(s)
         /\ Smallest(s) \in ToSet(s) /\ \A y \in ToSet(s) : Smallest(s) <= y
         /\ ToSet(s) \subseteq Int
<1> DEFINE n == Len(s)
           T == {k \in Nat : k + 1 <= n =>
                   /\ \E i \in 1..(k + 1) : \A j \in 1..(k + 1) : s[j] <= s[i]
                   /\ \E i \in 1..(k + 1) : \A j \in 1..(k + 1) : s[i] <= s[j]}
<1>1. n \in Nat /\ n # 0 /\ (\A i \in 1..n : s[i] \in Int) /\ DOMAIN s = 1..n
  OBVIOUS
<1> HIDE DEF n
<1>2. 0 \in T
  <2>1. 1..(0 + 1) = {1} /\ (0 + 1 <= n => s[1] \in Int)
    BY <1>1
  <2>2. 0 + 1 <= n => s[1] <= s[1]
    BY <2>1
  <2> QED BY <2>1, <2>2
<1>3. ASSUME NEW k \in Nat, k \in T
      PROVE  k + 1 \in T
  <2>1. SUFFICES ASSUME k + 1 + 1 <= n
                 PROVE  /\ \E i \in 1..(k + 1 + 1) : \A j \in 1..(k + 1 + 1) : s[j] <= s[i]
                        /\ \E i \in 1..(k + 1 + 1) : \A j \in 1..(k + 1 + 1) : s[i] <= s[j]
    OBVIOUS
  <2>2. k + 1 <= n /\ k + 2 \in 1..n /\ k + 1 + 1 = k + 2
    BY <1>1, <2>1
  <2>3. \A i \in 1..(k + 2) : i \in 1..n /\ (i # k + 2 => i \in 1..(k + 1))
    BY <1>1, <2>2
  <2>4. PICK a \in 1..(k + 1) : \A j \in 1..(k + 1) : s[j] <= s[a]
    BY <1>3, <2>2
  <2>5. PICK b \in 1..(k + 1) : \A j \in 1..(k + 1) : s[b] <= s[j]
    BY <1>3, <2>2
  <2> HIDE DEF T
  <2>6. /\ a \in 1..(k + 2) /\ b \in 1..(k + 2) /\ k + 2 \in 1..(k + 2)
        /\ s[a] \in Int /\ s[b] \in Int /\ s[k + 2] \in Int
    BY <1>1, <2>2, <2>3
  <2>7. \A j \in 1..(k + 2) : s[j] \in Int /\ (j = k + 2 \/ (s[j] <= s[a] /\ s[b] <= s[j]))
    BY <1>1, <2>3, <2>4, <2>5
  <2>8. \E i \in 1..(k + 2) : \A j \in 1..(k + 2) : s[j] <= s[i]
    <3>1. CASE s[k + 2] <= s[a]
      BY <2>6, <2>7, <3>1
    <3>2. CASE s[a] <= s[k + 2]
      <4>1. \A j \in 1..(k + 2) : s[j] <= s[k + 2]
        BY <2>6, <2>7, <3>2
      <4> QED BY <2>6, <4>1
    <3>3. s[k + 2] <= s[a] \/ s[a] <= s[k + 2]
      BY <2>6
    <3> QED BY <3>1, <3>2, <3>3
  <2>9. \E i \in 1..(k + 2) : \A j \in 1..(k + 2) : s[i] <= s[j]
    <3>1. CASE s[b] <= s[k + 2]
      BY <2>6, <2>7, <3>1
    <3>2. CASE s[k + 2] <= s[b]
      <4>1. \A j \in 1..(k + 2) : s[k + 2] <= s[j]
        BY <2>6, <2>7, <3>2
      <4> QED BY <2>6, <4>1
    <3>3. s[k + 2] <= s[b] \/ s[b] <= s[k + 2]
      BY <2>6
    <3> QED BY <3>1, <3>2, <3>3
  <2> QED BY <2>2, <2>8, <2>9
<1> HIDE DEF T
<1>4. Nat \subseteq T
  BY <1>2, <1>3, AllNumbers
<1>5. n - 1 \in T /\ n - 1 + 1 = n
  BY <1>1, <1>4
<1>6. /\ \E i \in 1..n : \A j \in 1..n : s[j] <= s[i]
      /\ \E i \in 1..n : \A j \in 1..n : s[i] <= s[j]
  BY <1>1, <1>5 DEF T
<1>7. ToSet(s) = {s[i] : i \in 1..n}
  BY <1>1 DEF ToSet
<1>8. \E x \in ToSet(s) : \A y \in ToSet(s) : y <= x
  BY <1>6, <1>7
<1>9. \E x \in ToSet(s) : \A y \in ToSet(s) : x <= y
  BY <1>6, <1>7
<1>10. ToSet(s) \subseteq Int
  BY <1>1, <1>7
<1> QED BY <1>8, <1>9, <1>10 DEF Largest, Smallest

LEMMA ExtremesOfAppend ==
  ASSUME NEW s \in Seq(Int), NEW x \in Int
  PROVE  /\ s = <<>> => Largest(Append(s, x)) = x /\ Smallest(Append(s, x)) = x
         /\ s # <<>> =>
              /\ Largest(s) \in Int /\ Smallest(s) \in Int
              /\ Largest(Append(s, x)) = IF x > Largest(s) THEN x ELSE Largest(s)
              /\ Smallest(Append(s, x)) = IF x < Smallest(s) THEN x ELSE Smallest(s)
<1> DEFINE a == Append(s, x)
<1>1. a \in Seq(Int) /\ a # <<>>
  <2>1. a \in Seq(Int)
    OBVIOUS
  <2>2. Len(a) = Len(s) + 1 /\ Len(s) \in Nat
    OBVIOUS
  <2> QED BY <2>1, <2>2
<1>2. ToSet(a) = ToSet(s) \cup {x}
  <2>1. DOMAIN a = 1..(Len(s) + 1) /\ DOMAIN s = 1..Len(s) /\ Len(s) \in Nat
    OBVIOUS
  <2>2. a[Len(s) + 1] = x /\ \A i \in 1..Len(s) : a[i] = s[i]
    OBVIOUS
  <2>3. 1..(Len(s) + 1) = (1..Len(s)) \cup {Len(s) + 1}
    BY <2>1
  <2> HIDE DEF a
  <2> QED BY <2>1, <2>2, <2>3 DEF ToSet
<1> HIDE DEF a
<1>3. /\ Largest(a) \in ToSet(a) /\ \A y \in ToSet(a) : y <= Largest(a)
      /\ Smallest(a) \in ToSet(a) /\ \A y \in ToSet(a) : Smallest(a) <= y
  BY <1>1, Extremes
<1>4. CASE s = <<>>
  <2>1. ToSet(s) = {}
    BY <1>4 DEF ToSet
  <2> QED BY <1>2, <1>3, <1>4, <2>1 DEF a
<1>5. CASE s # <<>>
  <2>1. /\ Largest(s) \in ToSet(s) /\ \A y \in ToSet(s) : y <= Largest(s)
        /\ Smallest(s) \in ToSet(s) /\ \A y \in ToSet(s) : Smallest(s) <= y
        /\ ToSet(s) \subseteq Int
    BY <1>5, Extremes
  <2>2. Largest(s) \in Int /\ Smallest(s) \in Int /\ Largest(a) \in Int /\ Smallest(a) \in Int
    BY <1>2, <1>3, <2>1
  <2>3. /\ x <= Largest(a) /\ Largest(s) <= Largest(a)
        /\ Smallest(a) <= x /\ Smallest(a) <= Smallest(s)
    BY <1>2, <1>3, <2>1
  <2>4. /\ Largest(a) = x \/ Largest(a) <= Largest(s)
        /\ Smallest(a) = x \/ Smallest(s) <= Smallest(a)
    BY <1>2, <1>3, <2>1
  <2>5. Largest(a) = IF x > Largest(s) THEN x ELSE Largest(s)
    BY <2>2, <2>3, <2>4
  <2>6. Smallest(a) = IF x < Smallest(s) THEN x ELSE Smallest(s)
    BY <2>2, <2>3, <2>4
  <2> QED BY <1>5, <2>2, <2>5, <2>6 DEF a
<1> QED BY <1>4, <1>5

\* the aggregates a, m, x and y of the values s: sum, mean, maximum and the last one
LineSound(s, a, m, x, y) ==
  IF s = <<>> THEN a = NoValue /\ m = NoValue /\ x = NoValue /\ y = NoValue
  ELSE /\ a = Sum(s) /\ y = Last(s)
       /\ x = IF Largest(s) > 0 THEN Largest(s) ELSE NoValue
       /\ m \in Smallest(s)..Largest(s)

\* One more value.
LEMMA LineAppend ==
  ASSUME NEW s \in Seq(Int), NEW v \in Int, NEW a, NEW m, NEW x, NEW y, LineSound(s, a, m, x, y)
  PROVE  LineSound(Append(s, v), newAdd(a, v), newMean(m, v), newMax(x, v), v)
<1>1. Append(s, v) # <<>> /\ Last(Append(s, v)) = v
  BY DEF Last
<1>2. NoValue \notin Int
  BY ValuesAssumption
<1>3. CASE s = <<>>
  <2>1. a = NoValue /\ m = NoValue /\ x = NoValue
    BY <1>3 DEF LineSound
  <2>2. Append(s, v) = <<v>>
    BY <1>3
  <2>3. newAdd(a, v) = v /\ newMean(m, v) = Half(v + v) /\ newMax(x, v) = IF v > 0 THEN v ELSE NoValue
    BY <2>1 DEF newAdd, newMean, newMax, getOrDefault
  <2>4. Half(v + v) = v
    BY DEF Half
  <2>5. Largest(Append(s, v)) = v /\ Smallest(Append(s, v)) = v
    BY <1>3, ExtremesOfAppend
  <2>6. Sum(Append(s, v)) = v
    BY <2>2, SumAppend
  <2>7. v \in v..v
    OBVIOUS
  <2> QED BY <1>1, <2>3, <2>4, <2>5, <2>6, <2>7 DEF LineSound
<1>4. CASE s # <<>>
  <2>1. /\ a = Sum(s) /\ x = IF Largest(s) > 0 THEN Largest(s) ELSE NoValue
        /\ m \in Smallest(s)..Largest(s)
    BY <1>4 DEF LineSound
  <2>2. /\ Largest(s) \in Int /\ Smallest(s) \in Int
        /\ Largest(Append(s, v)) = IF v > Largest(s) THEN v ELSE Largest(s)
        /\ Smallest(Append(s, v)) = IF v < Smallest(s) THEN v ELSE Smallest(s)
    BY <1>4, ExtremesOfAppend
  <2>3. Sum(s) \in Int /\ Sum(Append(s, v)) = Sum(s) + v
    BY SumAppend
  <2>4. newAdd(a, v) = Sum(Append(s, v))
    BY <1>2, <2>1, <2>3 DEF newAdd, getOrDefault
  <2>5. m \in Int /\ Smallest(s) <= m /\ m <= Largest(s)
    BY <2>1, <2>2
  <2>6. newMean(m, v) = Half(v + m)
    BY <1>2, <2>5 DEF newMean, getOrDefault
  <2>7. Half(v + m) \in Smallest(Append(s, v))..Largest(Append(s, v))
    <3>1. Half(v + m) \in Int /\ (v <= m => v <= Half(v + m) /\ Half(v + m) <= m)
          /\ (m <= v => m <= Half(v + m) /\ Half(v + m) <= v)
      BY <2>5 DEF Half
    <3> QED BY <2>2, <2>5, <3>1
  <2>8. newMax(x, v) = IF Largest(Append(s, v)) > 0 THEN Largest(Append(s, v)) ELSE NoValue
    <3>1. getOrDefault(x, 0) = IF Largest(s) > 0 THEN Largest(s) ELSE 0
      BY <1>2, <2>1, <2>2 DEF getOrDefault
    <3> QED BY <2>1, <2>2, <3>1 DEF newMax
  <2> QED BY <1>1, <2>4, <2>6, <2>7, <2>8 DEF LineSound
<1> QED BY <1>3, <1>4

-----------------------------------------------------------------------------
(* The invariant. *)

ValuesType ==
  /\ add \in [FileProfiler -> LineValues] /\ mean \in [FileProfiler -> LineValues]
  /\ max \in [FileProfiler -> LineValues] /\ min \in [FileProfiler -> LineValues]
  /\ last \in [FileProfiler -> LineValues]
  /\ lineToFrame \in [FileProfiler -> [FileLine -> Frame \cup {NoValue}]]
  /\ samples \in [FileProfiler -> [FileLine -> Seq(Int)]]

\* every line of every profiler; times are not negative
ValuesInv ==
  /\ ValuesType
  /\ \A p \in FileProfiler, l \in FileLine :
       /\ LineSound(samples[p][l], add[p][l], mean[p][l], max[p][l], last[p][l])
       /\ samples[p][l] = <<>> => min[p][l] = NoValue
       /\ add[p][l] # NoValue => lineToFrame[p][l] # NoValue
       /\ p = "time" => add[p][l] \in Nat \cup {NoValue}

LEMMA ValuesAtStart == ValuesInit => ValuesInv
<1> SUFFICES ASSUME ValuesInit
             PROVE  ValuesInv
  OBVIOUS
<1>1. ValuesType
  BY DEF ValuesInit, ValuesType, EveryLine, LineValues
<1>2. ASSUME NEW p \in FileProfiler, NEW l \in FileLine
      PROVE  /\ LineSound(samples[p][l], add[p][l], mean[p][l], max[p][l], last[p][l])
             /\ samples[p][l] = <<>> => min[p][l] = NoValue
             /\ add[p][l] = NoValue
  BY DEF ValuesInit, EveryLine, LineSound
<1> QED BY <1>1, <1>2 DEF ValuesInv

LEMMA ValuesOnProfile ==
  ASSUME ValuesInv, NEW timeValues \in TimeValues, NEW memoryValues \in MemoryValues,
         NEW frame \in Frame, NEW frameLine \in FileLine,
         LineProfileValues(timeValues, memoryValues, frame, frameLine)
  PROVE  ValuesInv'
<1> DEFINE w == [p \in FileProfiler |-> IF p = "time" THEN timeValues ELSE memoryValues]
<1>1. ASSUME NEW p \in FileProfiler
      PROVE  /\ DOMAIN w[p] \subseteq FileLine
             /\ \A l \in DOMAIN w[p] : w[p][l] \in Int /\ (p = "time" => w[p][l] \in Nat)
  <2>1. w[p] = IF p = "time" THEN timeValues ELSE memoryValues
    OBVIOUS
  <2> QED BY <2>1, ValuesAssumption
<1>2. /\ add' = [p \in FileProfiler |-> Put(add[p], w[p],
                  [l \in Sampled(w[p]) |-> newAdd(add[p][l], w[p][l])])]
      /\ mean' = [p \in FileProfiler |-> Put(mean[p], w[p],
                  [l \in Sampled(w[p]) |-> newMean(mean[p][l], w[p][l])])]
      /\ max' = [p \in FileProfiler |-> Put(max[p], w[p],
                  [l \in Sampled(w[p]) |-> newMax(max[p][l], w[p][l])])]
      /\ min' = [p \in FileProfiler |-> Put(min[p], w[p],
                  [l \in Sampled(w[p]) |-> newMin(min[p][l], max[p][l], w[p][l])])]
      /\ last' = [p \in FileProfiler |-> Put(last[p], w[p], w[p])]
      /\ lineToFrame' = [p \in FileProfiler |-> newFrames(lineToFrame[p], w[p], frame, frameLine)]
      /\ samples' = [p \in FileProfiler |-> Put(samples[p], w[p],
                  [l \in Sampled(w[p]) |-> Append(samples[p][l], w[p][l])])]
  BY DEF LineProfileValues
<1> HIDE DEF w
<1>3. NoValue \notin Int /\ NoValue \notin Frame
  BY ValuesAssumption
<1>4. ASSUME NEW p \in FileProfiler, NEW l \in FileLine
      PROVE  /\ add[p][l] \in Int \cup {NoValue} /\ mean[p][l] \in Int \cup {NoValue}
             /\ max[p][l] \in Int \cup {NoValue} /\ min[p][l] \in Int \cup {NoValue}
             /\ last[p][l] \in Int \cup {NoValue}
             /\ lineToFrame[p][l] \in Frame \cup {NoValue} /\ samples[p][l] \in Seq(Int)
  BY DEF ValuesInv, ValuesType, LineValues
\* a line that counts
<1>5. ASSUME NEW p \in FileProfiler, NEW l \in Sampled(w[p])
      PROVE  /\ l \in FileLine
             /\ w[p][l] \in Int
             /\ add'[p][l] = newAdd(add[p][l], w[p][l])
             /\ mean'[p][l] = newMean(mean[p][l], w[p][l])
             /\ max'[p][l] = newMax(max[p][l], w[p][l])
             /\ min'[p][l] = newMin(min[p][l], max[p][l], w[p][l])
             /\ last'[p][l] = w[p][l]
             /\ lineToFrame'[p][l] = frame
             /\ samples'[p][l] = Append(samples[p][l], w[p][l])
             /\ p = "time" => w[p][l] \in Nat
  <2>1. l \in FileLine /\ l \in DOMAIN w[p] /\ w[p][l] \in Int /\ (p = "time" => w[p][l] \in Nat)
    BY <1>1 DEF Sampled
  <2>2. lineToFrame'[p][l] = frame
    BY <1>2, <2>1 DEF newFrames
  <2> QED BY <1>2, <2>1, <2>2 DEF Put
\* a line that does not
<1>6. ASSUME NEW p \in FileProfiler, NEW l \in FileLine, l \notin Sampled(w[p])
      PROVE  /\ add'[p][l] = add[p][l] /\ mean'[p][l] = mean[p][l] /\ max'[p][l] = max[p][l]
             /\ min'[p][l] = min[p][l] /\ last'[p][l] = last[p][l]
             /\ lineToFrame'[p][l] \in {lineToFrame[p][l], frame}
             /\ samples'[p][l] = samples[p][l]
  <2>1. lineToFrame'[p][l] \in {lineToFrame[p][l], frame}
    BY <1>2 DEF newFrames
  <2> QED BY <1>2, <1>6, <2>1 DEF Put
<1>7. ASSUME NEW p \in FileProfiler, NEW l \in FileLine
      PROVE  /\ add'[p][l] \in Int \cup {NoValue} /\ mean'[p][l] \in Int \cup {NoValue}
             /\ max'[p][l] \in Int \cup {NoValue} /\ min'[p][l] \in Int \cup {NoValue}
             /\ last'[p][l] \in Int \cup {NoValue}
             /\ lineToFrame'[p][l] \in Frame \cup {NoValue} /\ samples'[p][l] \in Seq(Int)
  <2>1. CASE l \in Sampled(w[p])
    <3>1. newAdd(add[p][l], w[p][l]) \in Int
      BY <1>4, <1>5, <2>1 DEF newAdd, getOrDefault
    <3>2. newMean(mean[p][l], w[p][l]) \in Int
      BY <1>4, <1>5, <2>1 DEF newMean, getOrDefault, Half
    <3>3. newMax(max[p][l], w[p][l]) \in Int \cup {NoValue}
      BY <1>4, <1>5, <2>1 DEF newMax, getOrDefault
    <3>4. newMin(min[p][l], max[p][l], w[p][l]) \in Int \cup {NoValue}
      BY <1>4, <1>5, <2>1 DEF newMin
    <3>5. Append(samples[p][l], w[p][l]) \in Seq(Int)
      BY <1>4, <1>5, <2>1
    <3> QED BY <1>5, <2>1, <3>1, <3>2, <3>3, <3>4, <3>5
  <2>2. CASE l \notin Sampled(w[p])
    BY <1>4, <1>6, <2>2
  <2> QED BY <2>1, <2>2
<1>8. ValuesType'
  <2>1. /\ add' = [p \in FileProfiler |-> [l \in FileLine |-> add'[p][l]]]
        /\ mean' = [p \in FileProfiler |-> [l \in FileLine |-> mean'[p][l]]]
        /\ max' = [p \in FileProfiler |-> [l \in FileLine |-> max'[p][l]]]
        /\ min' = [p \in FileProfiler |-> [l \in FileLine |-> min'[p][l]]]
        /\ last' = [p \in FileProfiler |-> [l \in FileLine |-> last'[p][l]]]
        /\ samples' = [p \in FileProfiler |-> [l \in FileLine |-> samples'[p][l]]]
    BY <1>2 DEF Put
  <2>2. lineToFrame' = [p \in FileProfiler |-> [l \in FileLine |-> lineToFrame'[p][l]]]
    BY <1>2 DEF newFrames
  <2>3. add' \in [FileProfiler -> [FileLine -> Int \cup {NoValue}]]
    BY <1>7, <2>1
  <2>4. mean' \in [FileProfiler -> [FileLine -> Int \cup {NoValue}]]
    BY <1>7, <2>1
  <2>5. max' \in [FileProfiler -> [FileLine -> Int \cup {NoValue}]]
    BY <1>7, <2>1
  <2>6. min' \in [FileProfiler -> [FileLine -> Int \cup {NoValue}]]
    BY <1>7, <2>1
  <2>7. last' \in [FileProfiler -> [FileLine -> Int \cup {NoValue}]]
    BY <1>7, <2>1
  <2>8. samples' \in [FileProfiler -> [FileLine -> Seq(Int)]]
    BY <1>7, <2>1
  <2>9. lineToFrame' \in [FileProfiler -> [FileLine -> Frame \cup {NoValue}]]
    BY <1>7, <2>2
  <2> QED BY <2>3, <2>4, <2>5, <2>6, <2>7, <2>8, <2>9 DEF ValuesType, LineValues
<1>9. ASSUME NEW p \in FileProfiler, NEW l \in FileLine
      PROVE  /\ LineSound(samples'[p][l], add'[p][l], mean'[p][l], max'[p][l], last'[p][l])
             /\ samples'[p][l] = <<>> => min'[p][l] = NoValue
             /\ add'[p][l] # NoValue => lineToFrame'[p][l] # NoValue
             /\ p = "time" => add'[p][l] \in Nat \cup {NoValue}
  <2>1. /\ LineSound(samples[p][l], add[p][l], mean[p][l], max[p][l], last[p][l])
        /\ samples[p][l] = <<>> => min[p][l] = NoValue
        /\ add[p][l] # NoValue => lineToFrame[p][l] # NoValue
        /\ p = "time" => add[p][l] \in Nat \cup {NoValue}
    BY DEF ValuesInv
  <2>2. CASE l \in Sampled(w[p])
    <3>1. w[p][l] \in Int /\ samples[p][l] \in Seq(Int)
      BY <1>4, <1>5, <2>2
    <3>2. LineSound(Append(samples[p][l], w[p][l]), newAdd(add[p][l], w[p][l]),
                    newMean(mean[p][l], w[p][l]), newMax(max[p][l], w[p][l]), w[p][l])
      BY <2>1, <3>1, LineAppend
    <3>3. Append(samples[p][l], w[p][l]) # <<>>
      BY <3>1
    <3>4. p = "time" => newAdd(add[p][l], w[p][l]) \in Nat
      BY <1>3, <1>5, <2>1, <2>2 DEF newAdd, getOrDefault
    <3> QED BY <1>3, <1>5, <2>2, <3>2, <3>3, <3>4
  <2>3. CASE l \notin Sampled(w[p])
    <3>1. /\ add'[p][l] = add[p][l] /\ mean'[p][l] = mean[p][l] /\ max'[p][l] = max[p][l]
          /\ min'[p][l] = min[p][l] /\ last'[p][l] = last[p][l]
          /\ lineToFrame'[p][l] \in {lineToFrame[p][l], frame}
          /\ samples'[p][l] = samples[p][l]
      BY <1>6, <2>3
    <3> QED BY <1>3, <2>1, <3>1
  <2> QED BY <2>2, <2>3
<1> QED BY <1>8, <1>9 DEF ValuesInv

LEMMA ValuesOnClear ==
  ASSUME ValuesInv, NEW within \in SUBSET FileLine, LineProfileClearValues(within)
  PROVE  ValuesInv'
<1>1. ValuesType
  BY DEF ValuesInv
<1>2. /\ add' = clear(add, within) /\ mean' = clear(mean, within) /\ last' = clear(last, within)
      /\ max' = clear(max, within) /\ min' = clear(min, within) /\ lineToFrame' = lineToFrame
      /\ samples' = [samples EXCEPT !["time"] = [l \in FileLine |-> IF l \in within THEN <<>> ELSE @[l]]]
  BY DEF LineProfileClearValues
<1>3. ASSUME NEW f \in [FileProfiler -> LineValues]
      PROVE  /\ clear(f, within) \in [FileProfiler -> LineValues]
             /\ clear(f, within)["memory"] = f["memory"]
             /\ \A l \in FileLine : clear(f, within)["time"][l] = IF l \in within THEN NoValue ELSE f["time"][l]
  BY DEF clear, LineValues, FileProfiler
<1>4. /\ samples' \in [FileProfiler -> [FileLine -> Seq(Int)]]
      /\ samples'["memory"] = samples["memory"]
      /\ \A l \in FileLine : samples'["time"][l] = IF l \in within THEN <<>> ELSE samples["time"][l]
  <2>1. samples \in [FileProfiler -> [FileLine -> Seq(Int)]]
    BY <1>1 DEF ValuesType
  <2>2. [l \in FileLine |-> IF l \in within THEN <<>> ELSE samples["time"][l]] \in [FileLine -> Seq(Int)]
    BY <2>1 DEF FileProfiler
  <2> QED BY <1>2, <2>1, <2>2 DEF FileProfiler
<1>5. ValuesType'
  BY <1>1, <1>2, <1>3, <1>4 DEF ValuesType
<1>6. ASSUME NEW p \in FileProfiler, NEW l \in FileLine
      PROVE  /\ LineSound(samples'[p][l], add'[p][l], mean'[p][l], max'[p][l], last'[p][l])
             /\ samples'[p][l] = <<>> => min'[p][l] = NoValue
             /\ add'[p][l] # NoValue => lineToFrame'[p][l] # NoValue
             /\ p = "time" => add'[p][l] \in Nat \cup {NoValue}
  <2>1. /\ LineSound(samples[p][l], add[p][l], mean[p][l], max[p][l], last[p][l])
        /\ samples[p][l] = <<>> => min[p][l] = NoValue
        /\ add[p][l] # NoValue => lineToFrame[p][l] # NoValue
        /\ p = "time" => add[p][l] \in Nat \cup {NoValue}
    BY DEF ValuesInv
  <2>2. /\ add \in [FileProfiler -> LineValues] /\ mean \in [FileProfiler -> LineValues]
        /\ max \in [FileProfiler -> LineValues] /\ min \in [FileProfiler -> LineValues]
        /\ last \in [FileProfiler -> LineValues]
    BY <1>1 DEF ValuesType
  <2>3. CASE p = "time" /\ l \in within
    <3>1. /\ samples'[p][l] = <<>> /\ add'[p][l] = NoValue /\ mean'[p][l] = NoValue
          /\ max'[p][l] = NoValue /\ min'[p][l] = NoValue /\ last'[p][l] = NoValue
      BY <1>2, <1>3, <1>4, <2>2, <2>3
    <3> QED BY <3>1 DEF LineSound
  <2>4. CASE ~(p = "time" /\ l \in within)
    <3>1. /\ samples'[p][l] = samples[p][l] /\ add'[p][l] = add[p][l] /\ mean'[p][l] = mean[p][l]
          /\ max'[p][l] = max[p][l] /\ min'[p][l] = min[p][l] /\ last'[p][l] = last[p][l]
          /\ lineToFrame'[p][l] = lineToFrame[p][l]
      BY <1>2, <1>3, <1>4, <2>2, <2>4 DEF FileProfiler
    <3> QED BY <2>1, <3>1
  <2> QED BY <2>3, <2>4
<1> QED BY <1>5, <1>6 DEF ValuesInv

LEMMA ValuesOnStep == ValuesInv /\ [ValuesNext]_valueVars => ValuesInv'
<1> SUFFICES ASSUME ValuesInv, [ValuesNext]_valueVars
             PROVE  ValuesInv'
  OBVIOUS
<1>1. CASE \E v \in TimeValues, m \in MemoryValues, frame \in Frame, line \in FileLine :
             LineProfileValues(v, m, frame, line)
  BY <1>1, ValuesOnProfile
<1>2. CASE \E within \in SUBSET FileLine : LineProfileClearValues(within)
  BY <1>2, ValuesOnClear
<1>3. CASE UNCHANGED valueVars
  BY <1>3 DEF valueVars, ValuesInv, ValuesType
<1> QED BY <1>1, <1>2, <1>3 DEF ValuesNext

\* What the maps of FileValues hold always follows the values that were received.
THEOREM ValuesInvariant == ValuesSpec => []ValuesInv
<1>1. ValuesInit => ValuesInv
  BY ValuesAtStart
<1>2. ValuesInv /\ [ValuesNext]_valueVars => ValuesInv'
  BY ValuesOnStep
<1> QED BY <1>1, <1>2, PTL DEF ValuesSpec

\* What is shown of values that are sound.
LEMMA ValuesFolded == ValuesInv => FoldedSum
<1> SUFFICES ASSUME ValuesInv, NEW p \in FileProfiler
             PROVE  /\ \A regions \in FoldRegions : RegionsSummed(p, regions, Total(p))
                    /\ \A frame \in Frame, l \in FileLine :
                         getFoldedValues(p, add, frame, <<>>)[l] \in {NoValue, Total(p)[l]}
  BY DEF FoldedSum
<1>1. add[p] \in LineValues
  BY DEF ValuesInv, ValuesType
<1>2. ASSUME NEW l \in FileLine
      PROVE  add[p][l] = Total(p)[l]
  <2>1. LineSound(samples[p][l], add[p][l], mean[p][l], max[p][l], last[p][l])
    BY DEF ValuesInv
  <2> QED BY <2>1 DEF LineSound, Total
<1>3. [l \in FileLine |-> add[p][l]] = add[p] /\ add[p] = Total(p)
  <2>1. add[p] = [l \in FileLine |-> add[p][l]]
    BY <1>1 DEF LineValues
  <2>2. Total(p) = [l \in FileLine |-> Total(p)[l]]
    BY DEF Total
  <2>3. [l \in FileLine |-> add[p][l]] = [l \in FileLine |-> Total(p)[l]]
    BY <1>2
  <2> QED BY <2>1, <2>2, <2>3
<1>4. ASSUME NEW regions \in FoldRegions
      PROVE  RegionsSummed(p, regions, Total(p))
  <2> DEFINE shown == Folded(regions, Total(p))
  <2>1. getFoldedValues(p, add, NoValue, regions) = shown
    <3> DEFINE b == [l \in FileLine |-> IF NoValue = NoValue \/ lineToFrame[p][l] = NoValue
                                       THEN add[p][l] ELSE NoValue]
    <3>1. b = Total(p)
      BY <1>3
    <3>2. getFoldedValues(p, add, NoValue, regions) = Folded(regions, b)
      BY DEF getFoldedValues, Folded
    <3> HIDE DEF b
    <3> QED BY <3>1, <3>2
  <2>2. Total(p) \in LineValues /\ regions \in Seq(FileLine \X FileLine)
    BY <1>1, <1>3, ValuesAssumption
  <2>3. ASSUME NEW i \in DOMAIN regions
        PROVE  regions[i][1]..regions[i][2] = Region(regions, i)
    BY DEF Region, Span
  <2>4. ASSUME regions \in SideBySide, NEW l \in FileLine
        PROVE  /\ (\A i \in {i \in DOMAIN regions : Valued(Total(p), Region(regions, i)) # {}} :
                      ~Covers(regions[i], l)) => shown[l] = Total(p)[l]
               /\ \A i \in {i \in DOMAIN regions : Valued(Total(p), Region(regions, i)) # {}} :
                    Covers(regions[i], l) => shown[l] = SumOver(Total(p), Region(regions, i))
    BY <2>2, <2>4, SideBySideSums
  <2>5. ASSUME p = "time", 1 \in DOMAIN regions, Valued(Total(p), Region(regions, 1)) # {},
               NEW l \in Region(regions, 1)
        PROVE  /\ shown[l] = shown[regions[1][1]]
               /\ shown[l] >= SumOver(Total(p), Region(regions, 1))
    <3>1. \A k \in FileLine : add[p][k] \in Nat \cup {NoValue}
      BY <2>5 DEF ValuesInv
    <3>2. Total(p) \in Times
      BY <1>3, <3>1 DEF Times
    <3> QED BY <2>2, <2>5, <3>2, FirstRegionSum
  <2> HIDE DEF shown
  <2> DEFINE filled == {i \in DOMAIN regions : Valued(Total(p), regions[i][1]..regions[i][2]) # {}}
  <2>6. filled = {i \in DOMAIN regions : Valued(Total(p), Region(regions, i)) # {}}
    BY <2>3
  <2>7. /\ regions \in SideBySide =>
            /\ \A l \in FileLine :
                 (\A i \in filled : ~Covers(regions[i], l)) => shown[l] = Total(p)[l]
            /\ \A i \in filled, l \in FileLine :
                 Covers(regions[i], l) => shown[l] = SumOver(Total(p), regions[i][1]..regions[i][2])
        /\ p = "time" /\ 1 \in filled =>
            \A l \in regions[1][1]..regions[1][2] :
              /\ shown[l] = shown[regions[1][1]]
              /\ shown[l] >= SumOver(Total(p), regions[1][1]..regions[1][2])
    <3>1. \A i \in filled : i \in DOMAIN regions
      OBVIOUS
    <3>2. \A i \in filled : Valued(Total(p), Region(regions, i)) # {}
      BY <2>6
    <3> HIDE DEF filled
    <3>3. ASSUME regions \in SideBySide, NEW l \in FileLine, \A i \in filled : ~Covers(regions[i], l)
          PROVE  shown[l] = Total(p)[l]
      BY <2>4, <2>6, <3>3
    <3>4. ASSUME regions \in SideBySide, NEW i \in filled, NEW l \in FileLine, Covers(regions[i], l)
          PROVE  shown[l] = SumOver(Total(p), regions[i][1]..regions[i][2])
      <4>1. shown[l] = SumOver(Total(p), Region(regions, i))
        BY <2>4, <2>6, <3>4
      <4> QED BY <2>3, <3>1, <4>1
    <3>5. ASSUME p = "time", 1 \in filled, NEW l \in regions[1][1]..regions[1][2]
          PROVE  /\ shown[l] = shown[regions[1][1]]
                 /\ shown[l] >= SumOver(Total(p), regions[1][1]..regions[1][2])
      <4>1. regions[1][1]..regions[1][2] = Region(regions, 1)
        BY <2>3, <3>1, <3>5
      <4>2. l \in Region(regions, 1) /\ Valued(Total(p), Region(regions, 1)) # {} /\ 1 \in DOMAIN regions
        BY <3>1, <3>2, <3>5, <4>1
      <4> QED BY <2>5, <3>5, <4>1, <4>2
    <3> QED BY <3>3, <3>4, <3>5
  <2> QED BY <2>1, <2>7 DEF RegionsSummed
<1>5. ASSUME NEW frame \in Frame, NEW l \in FileLine
      PROVE  getFoldedValues(p, add, frame, <<>>)[l] \in {NoValue, Total(p)[l]}
  <2> DEFINE b == [k \in FileLine |-> IF frame = NoValue \/ lineToFrame[p][k] = frame
                                     THEN add[p][k] ELSE NoValue]
             none == <<>>
  <2>1. getFoldedValues(p, add, frame, <<>>) = Folded(none, b)
    BY DEF getFoldedValues, Folded
  <2>2. b[l] \in {NoValue, Total(p)[l]}
    BY <1>2
  <2>3. none \in Seq(FileLine \X FileLine) /\ Len(none) = 0
    OBVIOUS
  <2> HIDE DEF b, none
  <2>4. PICK h : Steps(h, none, b)
    BY <2>3, FoldedStepwise
  <2>5. Folded(none, b) = b
    BY <2>3, <2>4 DEF Steps
  <2> QED BY <2>1, <2>2, <2>5
<1> QED BY <1>4, <1>5

\* After any events of any values the profiler's maps are the sum, the last and the largest
\* of what was received for a line, the running mean is within its range, every line with a
\* value has a frame, and collapsed regions show the sums of their lines.
THEOREM ValuesStaySound == ValuesSpec => []ValuesSound
<1>1. ValuesInv => AggregatesFollowSamples
  BY DEF ValuesInv, LineSound, AggregatesFollowSamples
<1>2. ValuesInv => MeanBounded /\ FrameKnown
  BY DEF ValuesInv, LineSound, MeanBounded, FrameKnown
<1>3. ValuesInv => ValuesSound
  BY <1>1, <1>2, ValuesFolded DEF ValuesSound
<1> QED BY <1>3, ValuesInvariant, PTL
=============================================================================
