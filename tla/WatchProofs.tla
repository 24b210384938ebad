----------------------------- MODULE WatchProofs ----------------------------
(***************************************************************************)
(* Proofs about the threads of watchdog. First InotifyBuffer, for any      *)
(* number of names and changes: the elements on their way always stand for *)
(* the difference between what a handler knows and the directory, so that  *)
(* a handler knows the directory once they have all been handed out. Then  *)
(* Observer, for any number of threads, watches, handlers and emitters:    *)
(* types, who holds the observer's lock, that only registered handlers are *)
(* called, and that the queue implements DedupQueue.                       *)
(***************************************************************************)
EXTENDS Observer, InotifyBuffer, SequenceTheorems, TLAPS

-----------------------------------------------------------------------------
(* InotifyBuffer.                                                              *)

LEMMA ElementFacts ==
  ASSUME NEW e \in Element
  PROVE  /\ Len(e) \in {1, 2} /\ e[1] \in Event /\ DOMAIN e = 1..Len(e)
         /\ Len(e) = 2 => e[2] \in Event
  BY DEF Element

LEMMA EventFacts ==
  ASSUME NEW ev \in Event
  PROVE  /\ ev.mask \in Masks /\ ev.name \in FileNames /\ ev.id \in Nat
         /\ ev.mask = "delete_self" => ev.name = Gone
         /\ <<ev>> \in Element /\ Len(<<ev>>) = 1 /\ <<ev>>[1] = ev
  BY BufferAssumption DEF Event, Element

\* An element changes what a handler knows of a name only as Touches and Adds say.
LEMMA MeaningByName ==
  ASSUME NEW e \in Element, NEW v, NEW n
  PROVE  n \in Meaning(v, e) <=> Adds(e, n) \/ (n \in v /\ ~Touches(e, n))
<1>1. CASE Len(e) = 2
  BY <1>1, ElementFacts DEF Meaning, Adds, Touches
<1>2. CASE Len(e) = 1
  BY <1>2, ElementFacts, EventFacts DEF Meaning, Adds, Touches, Masks
<1> QED
  BY <1>1, <1>2, ElementFacts

LEMMA AddsTouches ==
  ASSUME NEW e \in Element, NEW n, Adds(e, n)
  PROVE  Touches(e, n) /\ n \in FileNames
  BY ElementFacts, EventFacts DEF Adds, Touches

\* One more event at the end of the pipeline.
LEMMA OutcomeAppend ==
  ASSUME NEW p \in Seq(Element), NEW e \in Element, NEW v
  PROVE  Outcome(v, Append(p, e)) = Meaning(Outcome(v, p), e)
<1> DEFINE q == Append(p, e)
<1>1. /\ DOMAIN p = 1..Len(p) /\ DOMAIN q = 1..Len(p) + 1 /\ Len(p) \in Nat
      /\ q[Len(p) + 1] = e /\ \A i \in 1..Len(p) : q[i] = p[i]
  OBVIOUS
<1> HIDE DEF q
<1>2. ASSUME NEW n
      PROVE  n \in Outcome(v, q) <=> n \in Meaning(Outcome(v, p), e)
  <2>1. Adds(e, n) => n \in Outcome(v, q)
    BY <1>1, AddsTouches DEF Outcome
  <2>2. n \in Outcome(v, p) /\ ~Touches(e, n) => n \in Outcome(v, q)
    BY <1>1 DEF Outcome
  <2>3. n \in Outcome(v, q) => Adds(e, n) \/ (n \in Outcome(v, p) /\ ~Touches(e, n))
    BY <1>1 DEF Outcome
  <2> QED
    BY <2>1, <2>2, <2>3, MeaningByName
<1> QED
  BY <1>2 DEF q

\* The oldest element is handed out.
LEMMA OutcomeTail ==
  ASSUME NEW p \in Seq(Element), p # <<>>, NEW v \in SUBSET FileNames
  PROVE  Outcome(Meaning(v, Head(p)), Tail(p)) = Outcome(v, p)
<1> DEFINE q == Tail(p)
<1> DEFINE e == Head(p)
<1>1. /\ DOMAIN p = 1..Len(p) /\ DOMAIN q = 1..Len(p) - 1 /\ Len(p) \in Nat /\ Len(p) >= 1
      /\ e = p[1] /\ e \in Element /\ \A i \in 1..Len(p) - 1 : q[i] = p[i + 1]
  OBVIOUS
<1> HIDE DEF q, e
<1>2. ASSUME NEW n
      PROVE  n \in Outcome(Meaning(v, e), q) <=> n \in Outcome(v, p)
  <2>0. \A i \in 2..Len(p) : i - 1 \in DOMAIN q /\ q[i - 1] = p[i]
    BY <1>1
  <2>1. n \in Outcome(Meaning(v, e), q) => n \in Outcome(v, p)
    <3>1. CASE n \in FileNames /\ n \in Meaning(v, e) /\ \A i \in DOMAIN q : ~Touches(q[i], n)
      <4>1. \A i \in DOMAIN p : i > 1 => ~Touches(p[i], n)
        BY SMTT(30), <1>1, <2>0, <3>1
      <4> QED
        BY <1>1, <3>1, <4>1, MeaningByName DEF Outcome
    <3>2. CASE \E i \in DOMAIN q : Adds(q[i], n) /\ \A j \in DOMAIN q : j > i => ~Touches(q[j], n)
      <4>1. PICK i \in DOMAIN q : Adds(q[i], n) /\ \A j \in DOMAIN q : j > i => ~Touches(q[j], n)
        BY <3>2
      <4>2. i + 1 \in DOMAIN p /\ Adds(p[i + 1], n) /\ p[i + 1] \in Element
        BY <1>1, <4>1
      <4>3. \A j \in DOMAIN p : j > i + 1 => ~Touches(p[j], n)
        BY <1>1, <2>0, <4>1
      <4> QED
        BY <4>2, <4>3, AddsTouches DEF Outcome
    <3> QED
      BY <3>1, <3>2 DEF Outcome
  <2>2. n \in Outcome(v, p) => n \in Outcome(Meaning(v, e), q)
    <3>1. CASE n \in FileNames /\ n \in v /\ \A i \in DOMAIN p : ~Touches(p[i], n)
      <4>1. n \in Meaning(v, e)
        BY <1>1, <3>1, MeaningByName
      <4>2. \A i \in DOMAIN q : ~Touches(q[i], n)
        BY <1>1, <3>1
      <4> QED
        BY <3>1, <4>1, <4>2 DEF Outcome
    <3>2. CASE n \in FileNames /\ \E i \in DOMAIN p : Adds(p[i], n) /\ \A j \in DOMAIN p : j > i => ~Touches(p[j], n)
      <4>1. PICK i \in DOMAIN p : Adds(p[i], n) /\ \A j \in DOMAIN p : j > i => ~Touches(p[j], n)
        BY <3>2
      <4>2. CASE i = 1
        <5>1. n \in Meaning(v, e)
          BY <1>1, <4>1, <4>2, MeaningByName
        <5>2. \A j \in DOMAIN q : ~Touches(q[j], n)
          BY <1>1, <4>1, <4>2
        <5> QED
          BY <3>2, <5>1, <5>2 DEF Outcome
      <4>3. CASE i > 1
        <5>1. i - 1 \in DOMAIN q /\ Adds(q[i - 1], n)
          BY <1>1, <2>0, <4>1, <4>3
        <5>2. \A j \in DOMAIN q : j > i - 1 => ~Touches(q[j], n)
          BY <1>1, <4>1, <4>3
        <5> QED
          BY <3>2, <5>1, <5>2 DEF Outcome
      <4> QED
        BY <1>1, <4>2, <4>3
    <3> QED
      BY <3>1, <3>2 DEF Outcome
  <2> QED
    BY <2>1, <2>2
<1> QED
  BY <1>2 DEF q, e

\* q is p with the two halves at k and k + 1 joined.
JoinedAt(p, k, q) ==
  /\ Len(q) = Len(p) - 1
  /\ \A i \in 1..k - 1 : q[i] = p[i]
  /\ q[k] = <<p[k][1], p[k + 1][1]>>
  /\ \A i \in k + 1..Len(q) : q[i] = p[i + 1]

LEMMA AppendToSingle ==
  ASSUME NEW S, NEW s \in Seq(S), Len(s) = 1, NEW x \in S
  PROVE  Append(s, x) = <<s[1], x>>
<1>0. 1 \in 1..Len(s) /\ Len(s) + 1 = 2
  OBVIOUS
<1>1. s[1] \in S
  BY <1>0, ElementOfSeq
<1>2. /\ Append(s, x) \in Seq(S) /\ Len(Append(s, x)) = 2
      /\ Append(s, x)[1] = s[1] /\ Append(s, x)[2] = x
  <2>1. /\ Append(s, x) \in Seq(S) /\ Len(Append(s, x)) = Len(s) + 1
        /\ Append(s, x)[Len(s) + 1] = x
        /\ \A i \in 1..Len(s) : Append(s, x)[i] = s[i]
    OBVIOUS
  <2> QED
    BY <1>0, <2>1
<1>3. <<s[1], x>> \in Seq(S) /\ Len(<<s[1], x>>) = 2
  BY <1>1
<1>4. \A i \in 1..2 : Append(s, x)[i] = <<s[1], x>>[i]
  BY <1>2
<1> QED
  BY <1>2, <1>3, <1>4, SeqEqual

LEMMA JoinedElement ==
  ASSUME NEW a \in Element, NEW b \in Element, Half(a, "moved_from"), Half(b, "moved_to")
  PROVE  /\ <<a[1], b[1]>> \in Element
         /\ Append(a, b[1]) = <<a[1], b[1]>>
         /\ \A n : /\ Adds(<<a[1], b[1]>>, n) <=> Adds(b, n)
                   /\ Touches(<<a[1], b[1]>>, n) <=> Touches(a, n) \/ Touches(b, n)
                   /\ ~Adds(a, n)
<1>1. a[1] \in Event /\ b[1] \in Event /\ Len(a) = 1 /\ Len(b) = 1
  BY ElementFacts DEF Half
<1>2. <<a[1], b[1]>> \in Element
  <2>1. <<a[1], b[1]>> \in Seq(Event) /\ Len(<<a[1], b[1]>>) = 2
    BY <1>1
  <2> QED
    BY <2>1 DEF Element
<1>3. Append(a, b[1]) = <<a[1], b[1]>>
  BY <1>1, AppendToSingle DEF Element
<1> QED
  BY <1>1, <1>2, <1>3 DEF Adds, Touches, Half

\* Joining two halves that stand side by side changes nothing.
LEMMA OutcomeJoined ==
  ASSUME NEW p \in Seq(Element), NEW q \in Seq(Element), NEW k \in 1..Len(p) - 1, NEW v,
         Half(p[k], "moved_from"), Half(p[k + 1], "moved_to"), JoinedAt(p, k, q)
  PROVE  Outcome(v, q) = Outcome(v, p)
<1>1. /\ DOMAIN p = 1..Len(p) /\ DOMAIN q = 1..Len(p) - 1 /\ Len(p) \in Nat /\ Len(q) = Len(p) - 1
      /\ \A i \in 1..Len(p) : p[i] \in Element
      /\ k \in Nat /\ k >= 1 /\ k + 1 \in 1..Len(p) /\ k \in 1..Len(p)
  <2>1. Len(p) \in Nat /\ Len(q) = Len(p) - 1 /\ DOMAIN p = 1..Len(p) /\ DOMAIN q = 1..Len(q)
    BY DEF JoinedAt
  <2>2. \A i \in 1..Len(p) : p[i] \in Element
    BY ElementOfSeq
  <2> QED
    BY <2>1, <2>2
<1>2. /\ \A i \in DOMAIN q : i < k => q[i] = p[i]
      /\ \A i \in DOMAIN q : i > k => q[i] = p[i + 1]
  <2>1. \A i \in DOMAIN q : (i < k => i \in 1..k - 1) /\ (i > k => i \in k + 1..Len(q))
    BY <1>1
  <2> QED
    BY <2>1 DEF JoinedAt
<1>3. \A n : /\ Adds(q[k], n) <=> Adds(p[k + 1], n)
             /\ Touches(q[k], n) <=> Touches(p[k], n) \/ Touches(p[k + 1], n)
             /\ ~Adds(p[k], n)
  BY <1>1, JoinedElement DEF JoinedAt
<1>4. ASSUME NEW n
      PROVE  (\A i \in DOMAIN q : ~Touches(q[i], n)) <=> (\A i \in DOMAIN p : ~Touches(p[i], n))
  <2>1. ASSUME \A i \in DOMAIN q : ~Touches(q[i], n), NEW i \in DOMAIN p
        PROVE  ~Touches(p[i], n)
    <3>1. CASE i < k
      BY <1>1, <1>2, <2>1, <3>1
    <3>2. CASE i \in {k, k + 1}
      BY <1>1, <1>3, <2>1, <3>2
    <3>3. CASE i > k + 1
      <4>1. i - 1 \in DOMAIN q /\ i - 1 > k /\ q[i - 1] = p[i]
        BY <1>1, <1>2, <3>3
      <4> QED
        BY <2>1, <4>1
    <3> QED
      BY <1>1, <3>1, <3>2, <3>3
  <2>2. ASSUME \A i \in DOMAIN p : ~Touches(p[i], n), NEW i \in DOMAIN q
        PROVE  ~Touches(q[i], n)
    BY SMTT(30), <1>1, <1>2, <1>3, <2>2
  <2> QED
    BY <2>1, <2>2
<1>5. ASSUME NEW n, NEW i \in DOMAIN q, Adds(q[i], n),
             \A j \in DOMAIN q : j > i => ~Touches(q[j], n)
      PROVE  \E l \in DOMAIN p : Adds(p[l], n) /\ \A j \in DOMAIN p : j > l => ~Touches(p[j], n)
  <2>1. \A j \in DOMAIN p : j > k + 1 => j - 1 \in DOMAIN q /\ q[j - 1] = p[j]
    BY SMTT(30), <1>1, <1>2
  <2>2. CASE i < k
    <3>1. i \in DOMAIN p /\ Adds(p[i], n)
      BY <1>1, <1>2, <1>5, <2>2
    <3>2. ~Touches(q[k], n)
      BY <1>1, <1>5, <2>2
    <3>3. ASSUME NEW j \in DOMAIN p, j > i PROVE ~Touches(p[j], n)
      <4>1. CASE j < k
        BY <1>1, <1>2, <1>5, <3>3, <4>1
      <4>2. CASE j \in {k, k + 1}
        BY <1>3, <3>2, <4>2
      <4>3. CASE j > k + 1
        <5>1. j - 1 > i
          BY <1>1, <2>2, <4>3
        <5> QED
          BY <1>5, <2>1, <4>3, <5>1
      <4> QED
        BY <1>1, <4>1, <4>2, <4>3
    <3> QED
      BY <3>1, <3>3
  <2>3. CASE i = k
    <3>1. k + 1 \in DOMAIN p /\ Adds(p[k + 1], n)
      BY <1>1, <1>3, <1>5, <2>3
    <3>2. ASSUME NEW j \in DOMAIN p, j > k + 1 PROVE ~Touches(p[j], n)
      <4>1. j - 1 > i
        BY <1>1, <2>3, <3>2
      <4> QED
        BY <1>5, <2>1, <3>2, <4>1
    <3>3. 1 # 2
      OBVIOUS
    <3> QED
      BY <3>1, <3>2, <3>3, Zenon
  <2>4. CASE i > k
    <3>1. i + 1 \in DOMAIN p /\ Adds(p[i + 1], n)
      BY <1>1, <1>2, <1>5, <2>4
    <3>2. ASSUME NEW j \in DOMAIN p, j > i + 1 PROVE ~Touches(p[j], n)
      <4>1. j - 1 > i /\ j > k + 1
        BY <1>1, <2>4, <3>2
      <4> QED
        BY <1>5, <2>1, <4>1
    <3>3. 1 # 2
      OBVIOUS
    <3> QED
      BY <3>1, <3>2, <3>3, Zenon
  <2> QED
    BY <1>1, <2>2, <2>3, <2>4
<1>6. ASSUME NEW n, NEW l \in DOMAIN p, Adds(p[l], n),
             \A j \in DOMAIN p : j > l => ~Touches(p[j], n)
      PROVE  \E i \in DOMAIN q : Adds(q[i], n) /\ \A j \in DOMAIN q : j > i => ~Touches(q[j], n)
  <2>1. l # k
    BY <1>3, <1>6
  <2>2. CASE l < k
    <3>1. l \in DOMAIN q /\ Adds(q[l], n)
      BY <1>1, <1>2, <1>6, <2>2
    <3>2. ASSUME NEW j \in DOMAIN q, j > l PROVE ~Touches(q[j], n)
      <4>1. CASE j < k
        BY <1>1, <1>2, <1>6, <3>2, <4>1
      <4>2. CASE j = k
        BY <1>1, <1>3, <1>6, <2>2, <4>2
      <4>3. CASE j > k
        BY <1>1, <1>2, <1>6, <2>2, <4>3
      <4> QED
        BY <1>1, <4>1, <4>2, <4>3
    <3>3. 1 # 2
      OBVIOUS
    <3> QED
      BY <3>1, <3>2, <3>3, Zenon
  <2>3. CASE l = k + 1
    <3>1. k \in DOMAIN q /\ Adds(q[k], n)
      BY <1>1, <1>3, <1>6, <2>3
    <3>2. ASSUME NEW j \in DOMAIN q, j > k PROVE ~Touches(q[j], n)
      BY <1>1, <1>2, <1>6, <2>3, <3>2
    <3>3. 1 # 2
      OBVIOUS
    <3> QED
      BY <3>1, <3>2, <3>3, Zenon
  <2>4. CASE l > k + 1
    <3>1. l - 1 \in DOMAIN q /\ l - 1 > k /\ q[l - 1] = p[l]
      BY <1>1, <1>2, <2>4
    <3>2. ASSUME NEW j \in DOMAIN q, j > l - 1 PROVE ~Touches(q[j], n)
      BY <1>1, <1>2, <1>6, <2>4, <3>2
    <3> QED
      BY <1>6, <3>1, <3>2
  <2> QED
    BY <1>1, <2>1, <2>2, <2>3, <2>4
<1> QED
  BY <1>4, <1>5, <1>6 DEF Outcome

-----------------------------------------------------------------------------
(* What PipelineInvariant says of the elements on their way, p.              *)

Good(v, p, d, c) ==
  /\ p \in Seq(Element) /\ v \in SUBSET FileNames /\ Outcome(v, p) = d
  /\ Neighbours(p) /\ \A i \in DOMAIN p : p[i][1].id < c

LEMMA AppendShape ==
  ASSUME NEW p \in Seq(Element), NEW e \in Element
  PROVE  /\ DOMAIN p = 1..Len(p) /\ DOMAIN Append(p, e) = 1..Len(p) + 1 /\ Len(p) \in Nat
         /\ Append(p, e)[Len(p) + 1] = e /\ \A i \in 1..Len(p) : Append(p, e)[i] = p[i]
         /\ Append(p, e) \in Seq(Element) /\ Len(Append(p, e)) = Len(p) + 1
  OBVIOUS

\* A change of one name: its cookie is new, so it is not the other half of anything.
LEMMA GoodAppend ==
  ASSUME NEW v, NEW p, NEW d, NEW c \in Nat, Good(v, p, d, c), NEW ev \in Event, ev.id = c
  PROVE  Good(v, Append(p, <<ev>>), Meaning(d, <<ev>>), c + 1)
<1> DEFINE q == Append(p, <<ev>>)
<1>1. /\ p \in Seq(Element) /\ <<ev>> \in Element /\ <<ev>>[1] = ev
      /\ \A i \in DOMAIN p : p[i][1].id < c
  BY EventFacts DEF Good
<1>2. /\ DOMAIN p = 1..Len(p) /\ DOMAIN q = 1..Len(p) + 1 /\ Len(p) \in Nat
      /\ q[Len(p) + 1] = <<ev>> /\ \A i \in 1..Len(p) : q[i] = p[i]
      /\ q \in Seq(Element)
  BY <1>1, AppendShape
<1>3. Outcome(v, q) = Meaning(d, <<ev>>)
  BY <1>1, OutcomeAppend DEF Good
<1> HIDE DEF q
<1>4. \A i \in DOMAIN p : p[i] \in Element /\ p[i][1].id \in Nat /\ p[i][1].id < c
  <2>1. \A i \in DOMAIN p : p[i] \in Element
    BY <1>1, <1>2, ElementOfSeq
  <2>2. \A i \in DOMAIN p : p[i][1] \in Event
    BY <2>1, ElementFacts
  <2> QED
    BY <1>1, <2>1, <2>2, EventFacts
<1>5. \A i \in DOMAIN q : q[i][1].id < c + 1
  BY <1>1, <1>2, <1>4
<1>6. Neighbours(q)
  <2> SUFFICES ASSUME NEW i \in DOMAIN q, NEW j \in DOMAIN q, Half(q[i], "moved_from"),
                      Half(q[j], "moved_to"), q[i][1].id = q[j][1].id
               PROVE  j = i + 1
    BY DEF Neighbours
  <2>1. CASE i \in DOMAIN p /\ j \in DOMAIN p
    BY <1>2, <2>1 DEF Good, Neighbours
  <2>2. CASE i = Len(p) + 1 /\ j = Len(p) + 1
    BY <2>2 DEF Half
  <2>3. CASE i \in DOMAIN p /\ j = Len(p) + 1
    BY <1>1, <1>2, <1>4, <2>3
  <2>4. CASE i = Len(p) + 1 /\ j \in DOMAIN p
    BY <1>1, <1>2, <1>4, <2>4
  <2> QED
    BY <1>2, <2>1, <2>2, <2>3, <2>4
<1> QED
  BY <1>2, <1>3, <1>5, <1>6 DEF Good, q

\* Both halves of a rename, side by side.
LEMMA GoodRename ==
  ASSUME NEW v, NEW p, NEW d, NEW c \in Nat, Good(v, p, d, c),
         NEW a \in Event, NEW b \in Event, a.id = c, b.id = c,
         a.mask = "moved_from", b.mask = "moved_to"
  PROVE  Good(v, Append(Append(p, <<a>>), <<b>>), Meaning(Meaning(d, <<a>>), <<b>>), c + 1)
<1> DEFINE r == Append(p, <<a>>)
<1> DEFINE q == Append(r, <<b>>)
<1>1. Good(v, r, Meaning(d, <<a>>), c + 1)
  BY GoodAppend
<1>2. /\ p \in Seq(Element) /\ r \in Seq(Element) /\ <<a>> \in Element /\ <<b>> \in Element
      /\ <<a>>[1] = a /\ <<b>>[1] = b
  BY <1>1, EventFacts DEF Good
<1>3. /\ DOMAIN p = 1..Len(p) /\ DOMAIN r = 1..Len(p) + 1 /\ Len(p) \in Nat
      /\ r[Len(p) + 1] = <<a>> /\ \A i \in 1..Len(p) : r[i] = p[i]
      /\ Len(r) = Len(p) + 1
  BY <1>2, AppendShape
<1> HIDE DEF r
<1>4. /\ DOMAIN q = 1..Len(p) + 2 /\ q \in Seq(Element)
      /\ q[Len(p) + 2] = <<b>> /\ \A i \in 1..Len(p) + 1 : q[i] = r[i]
  <2>1. /\ DOMAIN q = 1..Len(r) + 1 /\ q \in Seq(Element)
        /\ q[Len(r) + 1] = <<b>> /\ \A i \in 1..Len(r) : q[i] = r[i]
    BY <1>2, AppendShape
  <2> QED
    BY <1>3, <2>1
<1>5. Outcome(v, q) = Meaning(Meaning(d, <<a>>), <<b>>)
  BY <1>1, <1>2, OutcomeAppend DEF Good
<1> HIDE DEF q
<1>6. \A i \in DOMAIN r : r[i][1].id < c + 1
  BY <1>1 DEF Good
<1>7. \A i \in DOMAIN q : q[i][1].id < c + 1
  BY <1>2, <1>3, <1>4, <1>6
<1>8. \A i \in DOMAIN p : p[i][1].id \in Nat /\ p[i][1].id < c
  <2>1. \A i \in DOMAIN p : p[i] \in Element
    BY <1>2, <1>3, ElementOfSeq
  <2>2. \A i \in DOMAIN p : p[i][1] \in Event
    BY <2>1, ElementFacts
  <2> QED
    BY <2>2, EventFacts DEF Good
<1>9. Neighbours(q)
  <2> SUFFICES ASSUME NEW i \in DOMAIN q, NEW j \in DOMAIN q, Half(q[i], "moved_from"),
                      Half(q[j], "moved_to"), q[i][1].id = q[j][1].id
               PROVE  j = i + 1
    BY DEF Neighbours
  <2>1. CASE i \in DOMAIN r /\ j \in DOMAIN r
    BY <1>1, <1>3, <1>4, <2>1 DEF Good, Neighbours
  <2>2. CASE i = Len(p) + 2
    BY <1>2, <1>4, <2>2 DEF Half
  <2>3. CASE i \in DOMAIN p /\ j = Len(p) + 2
    BY <1>2, <1>3, <1>4, <1>8, <2>3
  <2>4. CASE i = Len(p) + 1 /\ j = Len(p) + 2
    BY <1>3, <2>4
  <2> QED
    BY <1>3, <1>4, <2>1, <2>2, <2>3, <2>4
<1> QED
  BY <1>4, <1>5, <1>7, <1>9 DEF Good, q, r

LEMMA GoodTail ==
  ASSUME NEW v, NEW p, NEW d, NEW c, Good(v, p, d, c), p # <<>>
  PROVE  Good(Meaning(v, Head(p)), Tail(p), d, c)
<1> DEFINE q == Tail(p)
<1>1. p \in Seq(Element) /\ v \in SUBSET FileNames
  BY DEF Good
<1>2. /\ DOMAIN p = 1..Len(p) /\ DOMAIN q = 1..Len(p) - 1 /\ Len(p) \in Nat /\ Len(p) >= 1
      /\ q \in Seq(Element) /\ \A i \in 1..Len(p) - 1 : q[i] = p[i + 1]
      /\ Head(p) \in Element
  BY <1>1
<1>3. Outcome(Meaning(v, Head(p)), q) = d
  BY <1>1, OutcomeTail DEF Good
<1>4. Meaning(v, Head(p)) \in SUBSET FileNames
  BY <1>1, <1>2, MeaningByName, AddsTouches
<1> HIDE DEF q
<1>5. Neighbours(q)
  <2> SUFFICES ASSUME NEW i \in DOMAIN q, NEW j \in DOMAIN q, Half(q[i], "moved_from"),
                      Half(q[j], "moved_to"), q[i][1].id = q[j][1].id
               PROVE  j = i + 1
    BY DEF Neighbours
  <2>1. /\ i + 1 \in DOMAIN p /\ j + 1 \in DOMAIN p /\ q[i] = p[i + 1] /\ q[j] = p[j + 1]
    BY <1>2
  <2>2. j + 1 = (i + 1) + 1
    BY <2>1 DEF Good, Neighbours
  <2> QED
    BY <1>2, <2>2
<1>6. \A i \in DOMAIN q : q[i][1].id < c
  <2>1. \A i \in DOMAIN q : i + 1 \in DOMAIN p /\ q[i] = p[i + 1]
    BY <1>2
  <2>2. \A i \in DOMAIN p : p[i][1].id < c
    BY DEF Good
  <2> QED
    BY <2>1, <2>2
<1> QED
  BY <1>2, <1>3, <1>4, <1>5, <1>6 DEF Good, q

LEMMA GoodJoined ==
  ASSUME NEW v, NEW p, NEW d, NEW c, Good(v, p, d, c), NEW q \in Seq(Element),
         NEW k \in 1..Len(p) - 1, Half(p[k], "moved_from"), Half(p[k + 1], "moved_to"),
         JoinedAt(p, k, q)
  PROVE  Good(v, q, d, c)
<1>1. p \in Seq(Element) /\ Len(p) \in Nat
  BY DEF Good
<1>2. Outcome(v, q) = d
  BY <1>1, OutcomeJoined DEF Good
<1>3. /\ DOMAIN p = 1..Len(p) /\ DOMAIN q = 1..Len(p) - 1 /\ k \in DOMAIN p
  BY <1>1 DEF JoinedAt
<1>4. /\ \A i \in DOMAIN q : i < k => q[i] = p[i] /\ i \in DOMAIN p
      /\ \A i \in DOMAIN q : i > k => q[i] = p[i + 1] /\ i + 1 \in DOMAIN p
      /\ q[k] = <<p[k][1], p[k + 1][1]>>
  <2>1. \A i \in DOMAIN q : (i < k => i \in 1..k - 1) /\ (i > k => i \in k + 1..Len(q))
    BY <1>3 DEF JoinedAt
  <2> QED
    BY <1>1, <1>3, <2>1 DEF JoinedAt
<1>5. \A i \in DOMAIN q : q[i][1].id < c
  <2>1. \A i \in DOMAIN p : p[i][1].id < c
    BY DEF Good
  <2>2. q[k][1] = p[k][1]
    BY <1>4
  <2> QED
    BY <1>3, <1>4, <2>1, <2>2
<1>6. Neighbours(q)
  <2> SUFFICES ASSUME NEW i \in DOMAIN q, NEW j \in DOMAIN q, Half(q[i], "moved_from"),
                      Half(q[j], "moved_to"), q[i][1].id = q[j][1].id
               PROVE  j = i + 1
    BY DEF Neighbours
  <2>1. i # k /\ j # k
    <3>1. Len(q[k]) = 2
      BY <1>4
    <3>2. Len(q[i]) = 1 /\ Len(q[j]) = 1
      BY DEF Half
    <3>3. 1 # 2
      OBVIOUS
    <3> QED
      BY <3>1, <3>2, <3>3, Zenon
  <2>2. \A l, m \in DOMAIN p : Half(p[l], "moved_from") /\ Half(p[m], "moved_to")
                               /\ p[l][1].id = p[m][1].id => m = l + 1
    BY DEF Good, Neighbours
  <2>3. CASE i < k /\ j < k
    BY <1>4, <2>2, <2>3
  <2>4. CASE i > k /\ j > k
    <3>1. j + 1 = (i + 1) + 1
      BY <1>4, <2>2, <2>4
    <3> QED
      BY <1>3, <3>1
  <2>5. CASE i < k /\ j > k
    <3>1. j + 1 = i + 1
      BY <1>4, <2>2, <2>5
    <3> QED
      BY <1>3, <2>5, <3>1
  <2>6. CASE i > k /\ j < k
    <3>1. j = (i + 1) + 1
      BY <1>4, <2>2, <2>6
    <3> QED
      BY <1>3, <2>6, <3>1
  <2> QED
    BY <1>3, <2>1, <2>3, <2>4, <2>5, <2>6
<1> QED
  BY <1>2, <1>5, <1>6 DEF Good

-----------------------------------------------------------------------------
(* The parts of the pipeline and how a step moves elements between them.     *)

LEMMA SingleFacts ==
  ASSUME NEW s \in Seq(Event)
  PROVE  /\ Single(s) \in Seq(Element) /\ Len(Single(s)) = Len(s)
         /\ \A i \in 1..Len(s) : Single(s)[i] = <<s[i]>>
<1>1. Len(s) \in Nat /\ DOMAIN s = 1..Len(s) /\ \A i \in 1..Len(s) : s[i] \in Event
  BY ElementOfSeq, LenProperties
<1>2. \A i \in 1..Len(s) : <<s[i]>> \in Element
  BY <1>1, EventFacts
<1> QED
  BY <1>1, <1>2 DEF Single

LEMMA ElementsFacts ==
  ASSUME NEW q \in Seq(Delayed)
  PROVE  /\ Elements(q) \in Seq(Element) /\ Len(Elements(q)) = Len(q)
         /\ \A i \in 1..Len(q) : Elements(q)[i] = q[i].elem
<1>1. Len(q) \in Nat /\ DOMAIN q = 1..Len(q) /\ \A i \in 1..Len(q) : q[i] \in Delayed
  BY ElementOfSeq, LenProperties
<1>2. \A i \in 1..Len(q) : q[i].elem \in Element
  BY <1>1 DEF Delayed
<1> QED
  BY <1>1, <1>2 DEF Elements

LEMMA SingleConcat ==
  ASSUME NEW s \in Seq(Event), NEW t \in Seq(Event)
  PROVE  Single(s \o t) = Single(s) \o Single(t)
<1>1. /\ s \o t \in Seq(Event) /\ Len(s \o t) = Len(s) + Len(t)
      /\ \A i \in 1..Len(s) + Len(t) : (s \o t)[i] = IF i <= Len(s) THEN s[i] ELSE t[i - Len(s)]
      /\ Len(s) \in Nat /\ Len(t) \in Nat
  BY ConcatProperties, LenProperties
<1>2. /\ Single(s \o t) \in Seq(Element) /\ Len(Single(s \o t)) = Len(s) + Len(t)
      /\ \A i \in 1..Len(s) + Len(t) : Single(s \o t)[i] = <<(s \o t)[i]>>
  BY <1>1, SingleFacts
<1>3. /\ Single(s) \in Seq(Element) /\ Len(Single(s)) = Len(s)
      /\ \A i \in 1..Len(s) : Single(s)[i] = <<s[i]>>
      /\ Single(t) \in Seq(Element) /\ Len(Single(t)) = Len(t)
      /\ \A i \in 1..Len(t) : Single(t)[i] = <<t[i]>>
  BY SingleFacts
<1>4. /\ Single(s) \o Single(t) \in Seq(Element)
      /\ Len(Single(s) \o Single(t)) = Len(s) + Len(t)
      /\ \A i \in 1..Len(s) + Len(t) :
            (Single(s) \o Single(t))[i] = IF i <= Len(s) THEN Single(s)[i]
                                          ELSE Single(t)[i - Len(s)]
  <2> DEFINE a == Single(s)
  <2> DEFINE b == Single(t)
  <2>1. a \in Seq(Element) /\ b \in Seq(Element) /\ Len(a) = Len(s) /\ Len(b) = Len(t)
    BY <1>3
  <2> HIDE DEF a, b
  <2>2. /\ a \o b \in Seq(Element) /\ Len(a \o b) = Len(s) + Len(t)
        /\ \A i \in 1..Len(s) + Len(t) :
              (a \o b)[i] = IF i <= Len(s) THEN a[i] ELSE b[i - Len(s)]
    <3>1. a \o b \in Seq(Element)
      BY <2>1
    <3>2. Len(a \o b) = Len(a) + Len(b)
      BY <2>1
    <3>3. \A i \in 1..Len(a) + Len(b) : (a \o b)[i] = IF i <= Len(a) THEN a[i] ELSE b[i - Len(a)]
      BY <2>1
    <3> QED
      BY <2>1, <3>1, <3>2, <3>3
  <2> QED
    BY <2>2 DEF a, b
<1>5. \A i \in 1..Len(s) + Len(t) : Single(s \o t)[i] = (Single(s) \o Single(t))[i]
  <2> SUFFICES ASSUME NEW i \in 1..Len(s) + Len(t)
               PROVE  Single(s \o t)[i] = (Single(s) \o Single(t))[i]
    OBVIOUS
  <2>1. CASE i <= Len(s)
    <3>1. i \in 1..Len(s)
      BY <1>1, <2>1
    <3> QED
      BY <1>1, <1>2, <1>3, <1>4, <2>1, <3>1
  <2>2. CASE ~(i <= Len(s))
    <3>1. i - Len(s) \in 1..Len(t)
      BY <1>1, <2>2
    <3> QED
      BY <1>1, <1>2, <1>3, <1>4, <2>2, <3>1
  <2> QED
    BY <2>1, <2>2
<1> QED
  BY <1>2, <1>4, <1>5, SeqEqual

LEMMA SingleOfOne ==
  ASSUME NEW ev \in Event
  PROVE  Single(<<ev>>) = <<<<ev>>>>
  BY DEF Single

LEMMA FirstAndRest ==
  ASSUME NEW S, NEW s \in Seq(S), s # <<>>
  PROVE  /\ Head(s) \in S /\ Tail(s) \in Seq(S) /\ s = <<Head(s)>> \o Tail(s)
         /\ s[1] = Head(s) /\ Len(Tail(s)) = Len(s) - 1 /\ Len(s) >= 1
<1>1. /\ Head(s) \in S /\ Tail(s) \in Seq(S) /\ s[1] = Head(s)
      /\ Len(Tail(s)) = Len(s) - 1 /\ Len(s) \in Nat /\ Len(s) >= 1
      /\ \A i \in 1..Len(s) - 1 : Tail(s)[i] = s[i + 1]
  OBVIOUS
<1>2. <<Head(s)>> \in Seq(S) /\ Len(<<Head(s)>>) = 1 /\ <<Head(s)>>[1] = Head(s)
  BY <1>1
<1>3. /\ <<Head(s)>> \o Tail(s) \in Seq(S) /\ Len(<<Head(s)>> \o Tail(s)) = 1 + Len(Tail(s))
      /\ \A i \in 1..1 + Len(Tail(s)) :
            (<<Head(s)>> \o Tail(s))[i] = IF i <= 1 THEN <<Head(s)>>[i] ELSE Tail(s)[i - 1]
  BY <1>1, <1>2, ConcatProperties
<1>4. \A i \in 1..Len(s) : s[i] = (<<Head(s)>> \o Tail(s))[i]
  <2> SUFFICES ASSUME NEW i \in 1..Len(s) PROVE s[i] = (<<Head(s)>> \o Tail(s))[i]
    OBVIOUS
  <2>1. CASE i = 1
    BY <1>1, <1>2, <1>3, <2>1
  <2>2. CASE i > 1
    <3>1. i - 1 \in 1..Len(s) - 1 /\ (i - 1) + 1 = i
      BY <1>1, <2>2
    <3> QED
      BY <1>1, <1>3, <2>2, <3>1
  <2> QED
    BY <1>1, <2>1, <2>2
<1> QED
  BY <1>1, <1>3, <1>4, SeqEqual

LEMMA ConcatHeadTail ==
  ASSUME NEW S, NEW e \in S, NEW x \in Seq(S)
  PROVE  /\ <<e>> \o x \in Seq(S) /\ <<e>> \o x # <<>>
         /\ Head(<<e>> \o x) = e /\ Tail(<<e>> \o x) = x
<1> DEFINE y == <<e>> \o x
<1>1. <<e>> \in Seq(S) /\ Len(<<e>>) = 1 /\ <<e>>[1] = e /\ Len(x) \in Nat
  OBVIOUS
<1>2. /\ y \in Seq(S) /\ Len(y) = 1 + Len(x)
      /\ \A i \in 1..1 + Len(x) : y[i] = IF i <= 1 THEN <<e>>[i] ELSE x[i - 1]
  BY <1>1, ConcatProperties
<1> HIDE DEF y
<1>3. y # <<>>
  BY <1>1, <1>2
<1>4. y[1] = e /\ \A i \in 1..Len(x) : y[i + 1] = x[i]
  BY <1>1, <1>2
<1>5. /\ Head(y) = y[1] /\ Tail(y) \in Seq(S) /\ Len(Tail(y)) = Len(y) - 1
      /\ \A i \in 1..Len(y) - 1 : Tail(y)[i] = y[i + 1]
  BY <1>2, <1>3
<1>6. Len(Tail(y)) = Len(x) /\ \A i \in 1..Len(x) : Tail(y)[i] = x[i]
  BY <1>1, <1>2, <1>4, <1>5
<1>7. Tail(y) = x
  BY <1>5, <1>6, SeqEqual
<1> QED
  BY <1>2, <1>3, <1>4, <1>5, <1>7 DEF y

-----------------------------------------------------------------------------
(* The steps.                                                                *)

Flow == Good(view, Pipeline, dir, changes)

LEMMA Parts ==
  ASSUME BufTypeOK
  PROVE  /\ Elements(delayed) \in Seq(Element) /\ Len(Elements(delayed)) = Len(delayed)
         /\ grouped \in Seq(Element)
         /\ Single(rlist) \in Seq(Element) /\ Single(raw) \in Seq(Element)
         /\ Pipeline \in Seq(Element)
<1>1. /\ Elements(delayed) \in Seq(Element) /\ Len(Elements(delayed)) = Len(delayed)
      /\ grouped \in Seq(Element)
      /\ Single(rlist) \in Seq(Element) /\ Single(raw) \in Seq(Element)
  BY SingleFacts, ElementsFacts DEF BufTypeOK
<1>2. Elements(delayed) \o grouped \in Seq(Element) /\ Single(rlist) \o Single(raw) \in Seq(Element)
  BY <1>1
<1> QED
  BY <1>1, <1>2 DEF Pipeline

LEMMA FlowIsInvariant ==
  ASSUME BufTypeOK
  PROVE  PipelineInvariant <=> Flow /\ (rpc # "group" => rlist = <<>> /\ grouped = <<>>)
  BY Parts DEF PipelineInvariant, Flow, Good, Older, BufTypeOK

LEMMA FlowNext ==
  ASSUME Flow', rpc' # "group" => rlist' = <<>> /\ grouped' = <<>>
  PROVE  PipelineInvariant'
  BY DEF PipelineInvariant, Flow, Good, Older

\* A new event comes in at the end, where w waits already.
LEMMA PipelineEnd ==
  ASSUME BufTypeOK, NEW w \in Seq(Element), NEW e \in Element
  PROVE  (Elements(delayed) \o grouped) \o (Single(rlist) \o (w \o <<e>>))
           = Append((Elements(delayed) \o grouped) \o (Single(rlist) \o w), e)
<1> DEFINE q == Elements(delayed)
<1> DEFINE r == Single(rlist)
<1>1. q \in Seq(Element) /\ grouped \in Seq(Element) /\ r \in Seq(Element)
  BY Parts
<1> HIDE DEF q, r
<1>2. q \o grouped \in Seq(Element) /\ r \o w \in Seq(Element) /\ <<e>> \in Seq(Element)
  BY <1>1
<1>3. r \o (w \o <<e>>) = (r \o w) \o <<e>>
  BY <1>1, <1>2, ConcatAssociative
<1>4. (q \o grouped) \o ((r \o w) \o <<e>>) = ((q \o grouped) \o (r \o w)) \o <<e>>
  BY SMTT(30), <1>2, ConcatAssociative
<1>5. (q \o grouped) \o (r \o w) \in Seq(Element)
  BY <1>2
<1>6. Append((q \o grouped) \o (r \o w), e) = ((q \o grouped) \o (r \o w)) \o <<e>>
  BY <1>5, AppendIsConcat
<1>7. (q \o grouped) \o (r \o (w \o <<e>>)) = Append((q \o grouped) \o (r \o w), e)
  BY <1>3, <1>4, <1>6
<1> QED
  BY <1>7 DEF q, r

\* A change of one name.
LEMMA ChangeOne ==
  ASSUME BufTypeOK, Flow, NEW ev \in Event, ev.id = changes,
         Change(Meaning(dir, <<ev>>), <<ev>>)
  PROVE  BufTypeOK' /\ Flow'
<1>1. changes \in Nat /\ changes' = changes + 1 /\ changes' \in 0..MaxChanges
  BY BufferAssumption DEF BufTypeOK, Change
<1>2. raw' = raw \o <<ev>> /\ raw' \in Seq(Event) /\ dir' = Meaning(dir, <<ev>>)
  BY DEF BufTypeOK, Change
<1>3. UNCHANGED <<reader, delayed, closed, epc, head, flags, view>>
  BY DEF Change
<1>4. Single(raw') = Single(raw) \o <<<<ev>>>>
  <2>1. raw \in Seq(Event) /\ <<ev>> \in Seq(Event)
    BY DEF BufTypeOK
  <2>2. Single(raw \o <<ev>>) = Single(raw) \o Single(<<ev>>)
    BY <2>1, SingleConcat
  <2> QED
    BY <1>2, <2>2, SingleOfOne
<1>5. Pipeline' = (Elements(delayed) \o grouped) \o (Single(rlist) \o (Single(raw) \o <<<<ev>>>>))
  BY <1>3, <1>4 DEF Pipeline, reader, Elements, Single
<1>6. <<ev>> \in Element
  BY EventFacts
<1>7. Pipeline' = Append(Pipeline, <<ev>>)
  <2>1. Single(raw) \in Seq(Element)
    BY Parts
  <2> QED
    BY <1>5, <1>6, <2>1, PipelineEnd DEF Pipeline
<1>8. dir' \in SUBSET FileNames
  BY <1>2, <1>6, MeaningByName, AddsTouches DEF BufTypeOK
<1>9. BufTypeOK'
  BY SMTT(30), <1>1, <1>2, <1>3, <1>8 DEF BufTypeOK, reader, flags
<1>10. Good(view, Append(Pipeline, <<ev>>), Meaning(dir, <<ev>>), changes + 1)
  BY <1>1, GoodAppend DEF Flow
<1>11. Flow'
  BY <1>1, <1>2, <1>3, <1>7, <1>10 DEF Flow
<1> QED
  BY <1>9, <1>11

\* A rename puts both halves into the kernel's queue at once.
LEMMA ChangeTwo ==
  ASSUME BufTypeOK, Flow, NEW n \in Names, NEW k \in Names, MoveFile(n, k)
  PROVE  BufTypeOK' /\ Flow'
<1> DEFINE a == Ev("moved_from", n)
<1> DEFINE b == Ev("moved_to", k)
<1>1. /\ changes \in Nat /\ changes \in 0..MaxChanges
      /\ changes' = changes + 1 /\ changes' \in 0..MaxChanges
  BY BufferAssumption DEF BufTypeOK, MoveFile, Change
<1>2. /\ a \in Event /\ b \in Event /\ a.id = changes /\ b.id = changes
      /\ a.mask = "moved_from" /\ b.mask = "moved_to" /\ a.name = n /\ b.name = k
  BY <1>1 DEF Ev, Event, Masks, FileNames
<1>3. /\ raw' = raw \o <<a, b>> /\ dir' = (dir \ {n}) \cup {k}
      /\ UNCHANGED <<reader, delayed, closed, epc, head, flags, view>>
  BY DEF MoveFile, Change
<1> HIDE DEF a, b
<1>4. /\ <<a>> \in Seq(Event) /\ <<b>> \in Seq(Event) /\ <<a, b>> = <<a>> \o <<b>>
      /\ <<a>> \in Element /\ <<b>> \in Element
  <2>1. <<a>> \in Seq(Event) /\ <<b>> \in Seq(Event)
    BY <1>2
  <2>2. <<a>> \o <<b>> = <<a, b>>
    <3>1. Append(<<a>>, b) = <<a>> \o <<b>>
      BY <1>2, <2>1, AppendIsConcat
    <3>2. Len(<<a>>) = 1 /\ <<a>>[1] = a
      OBVIOUS
    <3> QED
      BY <1>2, <2>1, <3>1, <3>2, AppendToSingle
  <2> QED
    BY <1>2, <2>1, <2>2, EventFacts
<1>5. raw \in Seq(Event) /\ raw \o <<a>> \in Seq(Event)
  BY <1>4 DEF BufTypeOK
<1>6. raw' = (raw \o <<a>>) \o <<b>> /\ raw' \in Seq(Event)
  <2>1. raw \o (<<a>> \o <<b>>) = (raw \o <<a>>) \o <<b>>
    BY <1>4, <1>5, ConcatAssociative
  <2>2. (raw \o <<a>>) \o <<b>> \in Seq(Event)
    BY <1>4, <1>5
  <2> QED
    BY <1>3, <1>4, <2>1, <2>2
<1>7. Single(raw') = (Single(raw) \o <<<<a>>>>) \o <<<<b>>>>
  <2>1. Single(raw \o <<a>>) = Single(raw) \o <<<<a>>>>
    BY <1>2, <1>4, <1>5, SingleConcat, SingleOfOne
  <2>2. Single((raw \o <<a>>) \o <<b>>) = Single(raw \o <<a>>) \o <<<<b>>>>
    BY <1>2, <1>4, <1>5, SingleConcat, SingleOfOne
  <2> QED
    BY <1>6, <2>1, <2>2
<1>8. Pipeline' = (Elements(delayed) \o grouped)
                    \o (Single(rlist) \o ((Single(raw) \o <<<<a>>>>) \o <<<<b>>>>))
  BY <1>3, <1>7 DEF Pipeline, reader, Elements, Single
<1>9. Pipeline' = Append(Append(Pipeline, <<a>>), <<b>>)
  <2>1. Single(raw) \o <<<<a>>>> \in Seq(Element)
    BY <1>4, Parts
  <2>2. (Elements(delayed) \o grouped) \o (Single(rlist) \o (Single(raw) \o <<<<a>>>>))
          = Append(Pipeline, <<a>>)
    <3>1. Single(raw) \in Seq(Element)
      BY Parts
    <3> QED
      BY <1>4, <3>1, PipelineEnd DEF Pipeline
  <2>3. Pipeline' = Append((Elements(delayed) \o grouped)
                             \o (Single(rlist) \o (Single(raw) \o <<<<a>>>>)), <<b>>)
    BY <1>4, <1>8, <2>1, PipelineEnd
  <2> QED
    BY <2>2, <2>3
<1>10. Meaning(Meaning(dir, <<a>>), <<b>>) = dir'
  BY <1>2, <1>3 DEF Meaning
<1>11. Good(view, Append(Append(Pipeline, <<a>>), <<b>>),
            Meaning(Meaning(dir, <<a>>), <<b>>), changes + 1)
  BY <1>1, <1>2, GoodRename DEF Flow
<1>12. Flow'
  BY <1>1, <1>3, <1>9, <1>10, <1>11 DEF Flow
<1>13. BufTypeOK'
  BY <1>1, <1>3, <1>6 DEF BufTypeOK, reader, flags, FileNames
<1> QED
  BY <1>12, <1>13

\* os.read takes the oldest events of the kernel's queue.
LEMMA ReadStep ==
  ASSUME BufTypeOK, PipelineInvariant, BufferRead
  PROVE  BufTypeOK' /\ PipelineInvariant'
<1>0. Flow /\ rlist = <<>> /\ grouped = <<>>
  BY FlowIsInvariant DEF BufferRead
<1>1. UNCHANGED <<dir, changes, delayed, closed, epc, head, flags, view>>
  BY DEF BufferRead
<1>2. CASE UNCHANGED <<rlist, raw, grouped>> /\ rpc' \in {"check", "dead"}
  <2>1. Pipeline' = Pipeline
    BY <1>1, <1>2 DEF Pipeline, Elements, Single
  <2>2. BufTypeOK'
    BY <1>1, <1>2 DEF BufTypeOK, flags
  <2>3. Flow'
    BY <1>0, <1>1, <2>1 DEF Flow
  <2> QED
    BY <1>0, <1>2, <2>2, <2>3, FlowNext
<1>3. ASSUME NEW n \in 1..Len(raw), rlist' = SubSeq(raw, 1, n),
             raw' = SubSeq(raw, n + 1, Len(raw)), rpc' = "group", grouped' = <<>>
      PROVE  BufTypeOK' /\ PipelineInvariant'
  <2>1. raw \in Seq(Event) /\ Len(raw) \in Nat
    BY DEF BufTypeOK
  <2>2. rlist' \in Seq(Event) /\ raw' \in Seq(Event)
    <3>1. \A i \in 1..Len(raw) : raw[i] \in Event
      BY <2>1, ElementOfSeq
    <3>2. rlist' \in Seq(Event)
      BY <1>3, <2>1, <3>1, SubSeqProperties
    <3>3. raw' \in Seq(Event)
      BY SMTT(30), <1>3, <2>1, <3>1, SubSeqProperties
    <3> QED
      BY <3>2, <3>3
  <2>3. rlist' \o raw' = raw
    <3>1. 1 \in 1..Len(raw) + 1 /\ n \in 1 - 1..Len(raw) /\ Len(raw) \in n..Len(raw)
      BY <1>3, <2>1
    <3>2. SubSeq(raw, 1, n) \o SubSeq(raw, n + 1, Len(raw)) = SubSeq(raw, 1, Len(raw))
      BY <2>1, <3>1, ConcatAdjacentSubSeq
    <3>3. SubSeq(raw, 1, Len(raw)) = raw
      BY <2>1, SubSeqFull
    <3> QED
      BY ZenonT(40), <1>3, <3>2, <3>3
  <2>4. Single(raw) = Single(rlist') \o Single(raw')
    BY <2>2, <2>3, SingleConcat
  <2>5. Single(rlist) \o Single(raw) = Single(raw)
    <3>1. Single(rlist) = <<>>
      BY <1>0 DEF Single
    <3> QED
      BY <3>1, Parts, ConcatEmptySeq
  <2>6. Elements(delayed') = Elements(delayed) /\ grouped' = grouped
    BY <1>0, <1>1, <1>3 DEF Elements
  <2>7. Pipeline' = Pipeline
    BY <2>4, <2>5, <2>6 DEF Pipeline, Elements, Single
  <2>8. BufTypeOK'
    <3>1. grouped' \in Seq(Element)
      BY <1>3
    <3> QED
      BY <1>1, <1>3, <2>2, <3>1 DEF BufTypeOK, flags
  <2>9. Flow'
    BY <1>0, <1>1, <2>7 DEF Flow
  <2> QED
    BY <1>3, <2>8, <2>9, FlowNext
<1> QED
  BY <1>2, <1>3 DEF BufferRead

\* What waits behind the event that _group_events looks at.
Rest == Single(Tail(rlist)) \o Single(raw)

LEMMA GroupShape ==
  ASSUME BufTypeOK, rlist # <<>>
  PROVE  /\ Head(rlist) \in Event /\ Tail(rlist) \in Seq(Event) /\ Rest \in Seq(Element)
         /\ Pipeline = Append(Elements(delayed) \o grouped, <<Head(rlist)>>) \o Rest
<1> DEFINE u == Elements(delayed) \o grouped
<1> DEFINE z == Single(Tail(rlist))
<1> DEFINE w == Single(raw)
<1> DEFINE b == <<Head(rlist)>>
<1>1. rlist \in Seq(Event)
  BY DEF BufTypeOK
<1>2. /\ Head(rlist) \in Event /\ Tail(rlist) \in Seq(Event)
      /\ rlist = <<Head(rlist)>> \o Tail(rlist)
  BY <1>1, FirstAndRest
<1>3. <<Head(rlist)>> \in Seq(Event) /\ b \in Element
  BY <1>2, EventFacts
<1>4. Single(rlist) = <<b>> \o z
  BY <1>2, <1>3, SingleConcat, SingleOfOne
<1>5. u \in Seq(Element) /\ z \in Seq(Element) /\ w \in Seq(Element)
  <2>1. z \in Seq(Element)
    BY <1>2, SingleFacts
  <2>2. u \in Seq(Element) /\ w \in Seq(Element)
    BY Parts
  <2> QED
    BY <2>1, <2>2
<1>6. Pipeline = u \o (Single(rlist) \o w) /\ Rest = z \o w
  BY DEF Pipeline, Rest
<1> HIDE DEF u, z, w, b
<1>7. <<b>> \in Seq(Element) /\ z \o w \in Seq(Element)
  BY <1>3, <1>5
<1>8. (<<b>> \o z) \o w = <<b>> \o (z \o w)
  BY <1>5, <1>7, ConcatAssociative
<1>9. (u \o <<b>>) \o (z \o w) = u \o (<<b>> \o (z \o w))
  BY SMTT(30), <1>5, <1>7, ConcatAssociative
<1>10. Append(u, b) = u \o <<b>>
  BY <1>3, <1>5, AppendIsConcat
<1>11. Pipeline = Append(u, b) \o Rest /\ Rest \in Seq(Element)
  BY <1>4, <1>6, <1>7, <1>8, <1>9, <1>10
<1> QED
  BY <1>2, <1>11 DEF u, b

\* A first half that waits for b can only be the last element before b.
LEMMA LastMatch ==
  ASSUME NEW u \in Seq(Element), NEW b \in Element, NEW y \in Seq(Element),
         Neighbours(Append(u, b) \o y), Half(b, "moved_to"),
         NEW i \in 1..Len(u), Half(u[i], "moved_from"), u[i][1].id = b[1].id
  PROVE  i = Len(u)
<1> DEFINE t == Append(u, b)
<1>1. /\ t \in Seq(Element) /\ Len(t) = Len(u) + 1 /\ t[Len(u) + 1] = b
      /\ t[i] = u[i] /\ Len(u) \in Nat /\ Len(y) \in Nat
  BY AppendShape
<1> HIDE DEF t
<1>2. /\ t \o y \in Seq(Element) /\ Len(t \o y) = Len(t) + Len(y)
  BY <1>1
<1>3. \A j \in 1..Len(t) + Len(y) : (t \o y)[j] = IF j <= Len(t) THEN t[j] ELSE y[j - Len(t)]
  BY <1>1
<1>4. /\ i \in 1..Len(t) + Len(y) /\ i <= Len(t)
      /\ Len(u) + 1 \in 1..Len(t) + Len(y) /\ Len(u) + 1 <= Len(t)
  BY <1>1
<1>5. (t \o y)[i] = u[i] /\ (t \o y)[Len(u) + 1] = b
  BY <1>1, <1>3, <1>4
<1>6. i \in DOMAIN (t \o y) /\ Len(u) + 1 \in DOMAIN (t \o y)
  BY <1>2, <1>4
<1>7. Len(u) + 1 = i + 1
  BY <1>5, <1>6 DEF Neighbours, t
<1> QED
  BY <1>1, <1>7

LEMMA SplitLast ==
  ASSUME NEW S, NEW s \in Seq(S), NEW k, k = Len(s), k >= 1
  PROVE  /\ SubSeq(s, 1, k - 1) \in Seq(S) /\ s[k] \in S /\ Len(SubSeq(s, 1, k - 1)) = k - 1
         /\ \A i \in 1..k - 1 : SubSeq(s, 1, k - 1)[i] = s[i]
         /\ s = Append(SubSeq(s, 1, k - 1), s[k])
<1>1. k \in Nat /\ k \in 1..Len(s) /\ \A i \in 1..Len(s) : s[i] \in S
  BY ElementOfSeq
<1> DEFINE f == SubSeq(s, 1, k - 1)
<1>2. f \in Seq(S) /\ Len(f) = k - 1 /\ \A i \in 1..k - 1 : f[i] = s[i]
  <2>1. \A i \in 1..k - 1 : s[i] \in S
    BY <1>1
  <2>2. /\ f \in Seq(S) /\ Len(f) = (IF 1 <= k - 1 THEN (k - 1) - 1 + 1 ELSE 0)
        /\ \A i \in 1..(k - 1) - 1 + 1 : f[i] = s[1 + i - 1]
    BY <1>1, <2>1, SubSeqProperties
  <2>3. (k - 1) - 1 + 1 = k - 1 /\ \A i \in 1..k - 1 : 1 + i - 1 = i
    BY <1>1
  <2> QED
    BY <1>1, <2>2, <2>3
<1> HIDE DEF f
<1>3. s[k] \in S
  BY <1>1
<1>4. /\ Append(f, s[k]) \in Seq(S) /\ Len(Append(f, s[k])) = k
      /\ Append(f, s[k])[k] = s[k] /\ \A i \in 1..k - 1 : Append(f, s[k])[i] = s[i]
  <2>1. /\ Append(f, s[k]) \in Seq(S) /\ Len(Append(f, s[k])) = Len(f) + 1
        /\ Append(f, s[k])[Len(f) + 1] = s[k]
        /\ \A i \in 1..Len(f) : Append(f, s[k])[i] = f[i]
    BY <1>2, <1>3, AppendProperties
  <2> QED
    BY <1>1, <1>2, <2>1
<1>5. \A i \in 1..k : s[i] = Append(f, s[k])[i]
  BY <1>1, <1>4
<1>6. s = Append(f, s[k])
  BY <1>1, <1>4, <1>5, SeqEqual
<1> QED
  BY <1>2, <1>3, <1>6 DEF f

\* _group_events joins halves that stand side by side, and moves nothing else.
LEMMA GroupStep ==
  ASSUME BufTypeOK, PipelineInvariant, GroupEvents
  PROVE  BufTypeOK' /\ PipelineInvariant'
<1> DEFINE ev == Head(rlist)
<1> DEFINE b == <<ev>>
<1> DEFINE q == Elements(delayed)
<1>1. /\ rpc = "group" /\ rlist # <<>> /\ rlist' = Tail(rlist)
      /\ UNCHANGED <<src, rpc, closed, epc, head, flags, view>>
  BY DEF GroupEvents
<1>2. /\ ev \in Event /\ Tail(rlist) \in Seq(Event) /\ Rest \in Seq(Element)
      /\ Pipeline = Append(q \o grouped, b) \o Rest
  BY <1>1, GroupShape
<1>3. b \in Element /\ b[1] = ev /\ Len(b) = 1
  BY <1>2, EventFacts
<1>4. /\ q \in Seq(Element) /\ Len(q) = Len(delayed) /\ grouped \in Seq(Element)
      /\ q \o grouped \in Seq(Element) /\ Len(q \o grouped) = Len(q) + Len(grouped)
      /\ Len(q) \in Nat /\ Len(grouped) \in Nat
      /\ \A i \in 1..Len(q) : q[i] = delayed[i].elem
  <2>1. /\ q \in Seq(Element) /\ Len(q) = Len(delayed)
        /\ \A i \in 1..Len(delayed) : q[i] = delayed[i].elem
    BY ElementsFacts DEF BufTypeOK
  <2>2. grouped \in Seq(Element)
    BY Parts
  <2> HIDE DEF q
  <2> QED
    BY <2>1, <2>2
<1>5. delayed \in Seq(Delayed) /\ Flow /\ DOMAIN grouped = 1..Len(grouped) /\ DOMAIN delayed = 1..Len(delayed)
  BY FlowIsInvariant DEF BufTypeOK
<1>6. ASSUME delayed' \in Seq(Delayed), grouped' \in Seq(Element),
             Good(view, (Elements(delayed') \o grouped') \o Rest, dir, changes)
      PROVE  BufTypeOK' /\ PipelineInvariant'
  <2>1. Pipeline' = (Elements(delayed') \o grouped') \o Rest
    BY <1>1 DEF Pipeline, Rest, Elements, Single, src
  <2>2. Flow'
    BY <1>1, <1>6, <2>1 DEF Flow, src
  <2>3. BufTypeOK'
    BY <1>1, <1>2, <1>6 DEF BufTypeOK, src, flags
  <2> QED
    BY <1>1, <2>2, <2>3, FlowNext
<1> DEFINE here == {i \in DOMAIN grouped : ev.mask = "moved_to" /\ Matches(grouped[i], ev)}
<1> DEFINE there == {i \in DOMAIN delayed : ev.mask = "moved_to" /\ Matches(delayed[i].elem, ev)}
<1>7. CASE here = {} /\ there = {}
  <2>1. grouped' = Append(grouped, b) /\ delayed' = delayed
    BY <1>7 DEF GroupEvents
  <2>2. q \o Append(grouped, b) = Append(q \o grouped, b)
    <3>1. Append(grouped, b) = grouped \o <<b>> /\ Append(q \o grouped, b) = (q \o grouped) \o <<b>>
      BY <1>3, <1>4, AppendIsConcat
    <3>2. <<b>> \in Seq(Element)
      BY <1>3
    <3>3. q \o (grouped \o <<b>>) = (q \o grouped) \o <<b>>
      BY <1>4, <3>2, ConcatAssociative
    <3> QED
      BY <3>1, <3>3
  <2>3. grouped' \in Seq(Element)
    BY <1>3, <1>4, <2>1
  <2>4. (Elements(delayed') \o grouped') \o Rest = Pipeline
    BY <1>2, <2>1, <2>2
  <2> QED
    BY <1>5, <1>6, <2>1, <2>3, <2>4 DEF Flow
<1>8. ASSUME NEW i \in 1..Len(q \o grouped), Matches((q \o grouped)[i], ev), ev.mask = "moved_to"
      PROVE  i = Len(q) + Len(grouped)
  <2>1. Half((q \o grouped)[i], "moved_from") /\ (q \o grouped)[i][1].id = b[1].id
    BY <1>3, <1>8 DEF Matches, Half
  <2>2. Half(b, "moved_to")
    BY <1>3, <1>8 DEF Half
  <2>3. Neighbours(Append(q \o grouped, b) \o Rest)
    BY <1>2, <1>5 DEF Flow, Good
  <2>4. i = Len(q \o grouped)
    BY <1>2, <1>3, <1>4, <2>1, <2>2, <2>3, LastMatch
  <2> QED
    BY <1>4, <2>4
<1>9. /\ \A i \in 1..Len(q) : i \in 1..Len(q \o grouped) /\ (q \o grouped)[i] = delayed[i].elem
      /\ \A i \in 1..Len(grouped) : /\ Len(q) + i \in 1..Len(q \o grouped)
                                    /\ (q \o grouped)[Len(q) + i] = grouped[i]
  <2>1. \A i \in 1..Len(q) + Len(grouped) :
            (q \o grouped)[i] = IF i <= Len(q) THEN q[i] ELSE grouped[i - Len(q)]
    <3> HIDE DEF q
    <3> QED
      BY <1>4
  <2> HIDE DEF q
  <2>2. ASSUME NEW i \in 1..Len(grouped)
        PROVE  /\ Len(q) + i \in 1..Len(q) + Len(grouped) /\ ~(Len(q) + i <= Len(q))
               /\ (Len(q) + i) - Len(q) = i
    BY <1>4
  <2>3. ASSUME NEW i \in 1..Len(q) PROVE i \in 1..Len(q) + Len(grouped) /\ i <= Len(q)
    BY <1>4
  <2> QED
    BY <1>4, <2>1, <2>2, <2>3
\* the joined halves, once it is known where the first one stands
<1>10. ASSUME NEW x \in Seq(Element), NEW a \in Element, Matches(a, ev), ev.mask = "moved_to",
              q \o grouped = Append(x, a),
              delayed' \in Seq(Delayed), grouped' \in Seq(Element),
              Elements(delayed') \o grouped' = Append(x, <<a[1], ev>>)
       PROVE  BufTypeOK' /\ PipelineInvariant'
  <2> DEFINE p == Append(Append(x, a), b) \o Rest
  <2> DEFINE r == Append(x, <<a[1], b[1]>>) \o Rest
  <2>1. Half(a, "moved_from") /\ Half(b, "moved_to")
    BY <1>3, <1>10 DEF Matches, Half
  <2>2. /\ r \in Seq(Element) /\ Len(x) + 1 \in 1..Len(p) - 1
        /\ p[Len(x) + 1] = a /\ p[Len(x) + 2] = b /\ JoinedAt(p, Len(x) + 1, r)
    <3>0. b \in Element /\ Rest \in Seq(Element)
      BY <1>2, <1>3
    <3> HIDE DEF b
    <3> DEFINE ab == <<a[1], b[1]>>
    <3>1. ab \in Element
      BY <3>0, <2>1, JoinedElement
    <3> DEFINE u == Append(Append(x, a), b)
    <3> DEFINE t == Append(x, ab)
    <3> HIDE DEF ab
    <3> DEFINE m == Len(x)
    <3> DEFINE n == Len(Rest)
    <3>2. m \in Nat /\ n \in Nat
      BY <3>0
    <3>3. /\ u \in Seq(Element) /\ Len(u) = m + 2 /\ \A i \in 1..m : u[i] = x[i]
          /\ u[m + 1] = a /\ u[m + 2] = b
      BY <3>0
    <3>4. t \in Seq(Element) /\ Len(t) = m + 1 /\ (\A i \in 1..m : t[i] = x[i]) /\ t[m + 1] = ab
      BY <3>1
    <3> HIDE DEF u, t
    <3>5. p = u \o Rest /\ r = t \o Rest
      BY DEF u, t, ab
    <3> HIDE DEF p, r
    <3>6. /\ p \in Seq(Element) /\ Len(p) = Len(u) + n
          /\ \A i \in 1..Len(u) + n : p[i] = IF i <= Len(u) THEN u[i] ELSE Rest[i - Len(u)]
      <4>0. u \in Seq(Element)
        BY <3>3
      <4>1. u \o Rest \in Seq(Element)
        BY <3>0, <4>0
      <4>2. Len(u \o Rest) = Len(u) + Len(Rest)
        BY <3>0, <4>0
      <4>3. \A i \in 1..Len(u) + Len(Rest) : (u \o Rest)[i] = IF i <= Len(u) THEN u[i] ELSE Rest[i - Len(u)]
        BY <3>0, <4>0
      <4> QED
        BY <3>5, <4>1, <4>2, <4>3
    <3>7. /\ r \in Seq(Element) /\ Len(r) = Len(t) + n
          /\ \A i \in 1..Len(t) + n : r[i] = IF i <= Len(t) THEN t[i] ELSE Rest[i - Len(t)]
      <4>0. t \in Seq(Element)
        BY <3>4
      <4>1. t \o Rest \in Seq(Element)
        BY <3>0, <4>0
      <4>2. Len(t \o Rest) = Len(t) + Len(Rest)
        BY <3>0, <4>0
      <4>3. \A i \in 1..Len(t) + Len(Rest) : (t \o Rest)[i] = IF i <= Len(t) THEN t[i] ELSE Rest[i - Len(t)]
        BY <3>0, <4>0
      <4> QED
        BY <3>5, <4>1, <4>2, <4>3
    <3> HIDE DEF m, n
    <3>8. /\ \A i \in 1..m : p[i] = x[i] /\ r[i] = x[i]
          /\ p[m + 1] = a /\ p[m + 2] = b /\ r[m + 1] = ab
      <4>1. \A i \in 1..m + 2 : i \in 1..Len(u) + n /\ i <= Len(u)
        BY <3>2, <3>3
      <4>2. \A i \in 1..m + 2 : p[i] = u[i]
        BY <3>6, <4>1
      <4>3. \A i \in 1..m + 1 : i \in 1..Len(t) + n /\ i <= Len(t)
        BY <3>2, <3>4
      <4>4. \A i \in 1..m + 1 : r[i] = t[i]
        BY <3>7, <4>3
      <4>5. /\ \A i \in 1..m : i \in 1..m + 2 /\ i \in 1..m + 1
            /\ m + 1 \in 1..m + 2 /\ m + 2 \in 1..m + 2 /\ m + 1 \in 1..m + 1
        BY <3>2
      <4> QED
        BY <3>3, <3>4, <4>2, <4>4, <4>5
    <3>9. \A i \in m + 2..m + 1 + n : r[i] = p[i + 1]
      <4> SUFFICES ASSUME NEW i \in m + 2..m + 1 + n PROVE r[i] = p[i + 1]
        OBVIOUS
      <4>1. /\ i \in 1..Len(t) + n /\ ~(i <= Len(t)) /\ i + 1 \in 1..Len(u) + n
            /\ ~(i + 1 <= Len(u)) /\ (i + 1) - Len(u) = i - Len(t)
        BY <3>2, <3>3, <3>4
      <4> QED
        BY <3>6, <3>7, <4>1
    <3>10. Len(r) = Len(p) - 1 /\ Len(r) = m + 1 + n /\ m + 1 \in 1..Len(p) - 1
      BY <3>2, <3>3, <3>4, <3>6, <3>7
    <3>11. /\ \A i \in 1..(m + 1) - 1 : r[i] = p[i]
           /\ r[m + 1] = <<p[m + 1][1], p[(m + 1) + 1][1]>>
           /\ \A i \in (m + 1) + 1..Len(r) : r[i] = p[i + 1]
      <4>1. (m + 1) - 1 = m /\ (m + 1) + 1 = m + 2
        BY <3>2
      <4> QED
        BY <3>8, <3>9, <3>10, <4>1 DEF ab
    <3>12. JoinedAt(p, m + 1, r)
      BY <3>10, <3>11 DEF JoinedAt
    <3> QED
      BY <3>7, <3>8, <3>10, <3>12 DEF m
  <2>3. Good(view, p, dir, changes)
    BY <1>2, <1>5, <1>10 DEF Flow
  <2>4. (Len(x) + 1) + 1 = Len(x) + 2
    OBVIOUS
  <2> HIDE DEF p, r, b
  <2>5. Good(view, r, dir, changes)
    BY <2>1, <2>2, <2>3, <2>4, GoodJoined
  <2>6. (Elements(delayed') \o grouped') \o Rest = r
    BY <1>3, <1>10 DEF r
  <2> QED
    BY <1>6, <1>10, <2>5, <2>6
<1>11. CASE here # {}
  <2> DEFINE k == Len(grouped)
  <2> DEFINE a == grouped[k]
  <2> DEFINE f == SubSeq(grouped, 1, k - 1)
  <2>1. \A i \in here : i = k
    <3> SUFFICES ASSUME NEW i \in here PROVE i = k
      OBVIOUS
    <3>1. i \in 1..Len(grouped) /\ Matches(grouped[i], ev) /\ ev.mask = "moved_to"
      BY <1>5
    <3>2. Len(q) + i = Len(q) + Len(grouped)
      BY <1>8, <1>9, <3>1
    <3> QED
      BY <1>4, <3>1, <3>2
  <2>2. k \in here /\ here = {k} /\ k \in 1..Len(grouped) /\ k >= 1
    BY <1>5, <1>11, <2>1
  <2>3. Matches(a, ev) /\ ev.mask = "moved_to"
    BY <2>2
  <2>4. delayed' = delayed /\ grouped' = [i \in DOMAIN grouped |-> IF i \in here THEN Append(grouped[i], ev)
                                                      ELSE grouped[i]]
    BY <1>11 DEF GroupEvents
  <2> HIDE DEF here
  <2>5. /\ f \in Seq(Element) /\ a \in Element /\ Len(f) = k - 1
        /\ \A i \in 1..k - 1 : f[i] = grouped[i]
        /\ grouped = Append(f, a)
    <3>1. grouped \in Seq(Element) /\ k >= 1
      BY <1>4, <2>2
    <3> QED
      BY ZenonT(40), <3>1, SplitLast
  <2>6. Append(a, ev) = <<a[1], ev>> /\ <<a[1], ev>> \in Element
    <3>1. Half(a, "moved_from") /\ Half(b, "moved_to")
      BY SMTT(30), <1>3, <2>3 DEF Matches, Half
    <3> QED
      BY <1>3, <2>5, <3>1, JoinedElement
  <2>7. /\ DOMAIN grouped' = 1..k /\ grouped'[k] = <<a[1], ev>>
        /\ \A i \in 1..k - 1 : grouped'[i] = f[i]
    <3>1. \A i \in 1..k - 1 : i \in DOMAIN grouped /\ i # k
      <4>1. k \in Nat
        BY <1>4
      <4>2. DOMAIN grouped = 1..k
        BY <1>5
      <4> HIDE DEF k
      <4> QED
        BY <4>1, <4>2
    <3> QED
      BY ZenonT(40), <1>5, <2>2, <2>4, <2>5, <2>6, <3>1
  <2> HIDE DEF f, a, k
  <2>8. grouped' = Append(f, <<a[1], ev>>)
    <3> DEFINE c == <<a[1], ev>>
    <3>1. c \in Element
      BY <2>6
    <3> HIDE DEF c
    <3>2. k \in Nat /\ k >= 1
      BY <1>4, <2>2 DEF k
    <3>3. /\ Append(f, c) \in Seq(Element) /\ Len(Append(f, c)) = k /\ Append(f, c)[k] = c
          /\ \A i \in 1..k - 1 : Append(f, c)[i] = f[i]
      <4>1. /\ Append(f, c) \in Seq(Element) /\ Len(Append(f, c)) = Len(f) + 1
            /\ Append(f, c)[Len(f) + 1] = c /\ \A i \in 1..Len(f) : Append(f, c)[i] = f[i]
        BY <2>5, <3>1, AppendProperties
      <4> QED
        BY <2>5, <3>2, <4>1
    <3>4. \A i \in 1..k : grouped'[i] = Append(f, c)[i]
      BY <2>7, <3>2, <3>3 DEF c
    <3>5. \A i \in 1..k : Append(f, c)[i] \in Element
      BY <3>3, ElementOfSeq
    <3>6. grouped' = [i \in 1..k |-> grouped'[i]]
      BY <2>4, <2>7
    <3>7. grouped' \in Seq(Element) /\ Len(grouped') = k
      <4>1. \A i \in 1..k : grouped'[i] \in Element
        BY <3>4, <3>5
      <4>2. [i \in 1..k |-> grouped'[i]] \in Seq(Element) /\ Len([i \in 1..k |-> grouped'[i]]) = k
        BY <3>2, <4>1
      <4> QED
        BY <3>6, <4>2
    <3> QED
      BY <3>3, <3>4, <3>7, SeqEqual DEF c
  <2>9. q \o f \in Seq(Element)
    BY <1>4, <2>5
  <2>10. ASSUME NEW e \in Element PROVE q \o Append(f, e) = Append(q \o f, e)
    <3>1. Append(f, e) = f \o <<e>> /\ Append(q \o f, e) = (q \o f) \o <<e>> /\ <<e>> \in Seq(Element)
      BY <2>5, <2>9, AppendIsConcat
    <3>2. q \o (f \o <<e>>) = (q \o f) \o <<e>>
      BY <1>4, <2>5, <3>1, ConcatAssociative
    <3> QED
      BY <3>1, <3>2
  <2>11. q \o grouped = Append(q \o f, a) /\ Elements(delayed') \o grouped' = Append(q \o f, <<a[1], ev>>)
    BY <2>4, <2>5, <2>6, <2>8, <2>10
  <2>12. grouped' \in Seq(Element) /\ delayed' \in Seq(Delayed)
    <3>1. f \in Seq(Element) /\ <<a[1], ev>> \in Element
      BY <2>5, <2>6
    <3>2. Append(f, <<a[1], ev>>) \in Seq(Element)
      BY <3>1, AppendProperties
    <3> QED
      BY <1>5, <2>4, <2>8, <3>2
  <2> HIDE DEF q, ev
  <2> QED
    BY <1>10, <2>3, <2>5, <2>9, <2>11, <2>12
<1>12. CASE here = {} /\ there # {}
  <2> DEFINE k == Len(delayed)
  <2> DEFINE d == SubSeq(delayed, 1, k - 1)
  <2> DEFINE a == delayed[k].elem
  <2>1. \A i \in there : i = k /\ grouped = <<>>
    <3> SUFFICES ASSUME NEW i \in there PROVE i = k /\ grouped = <<>>
      OBVIOUS
    <3>1. i \in 1..Len(q) /\ Matches(delayed[i].elem, ev) /\ ev.mask = "moved_to"
      BY <1>4, <1>5
    <3>2. i = Len(q) + Len(grouped)
      BY <1>8, <1>9, <3>1
    <3>3. Len(grouped) = 0 /\ i = Len(q)
      BY <1>4, <3>1, <3>2
    <3> QED
      BY <1>4, <3>3
  <2>2. k \in there /\ there = {k} /\ k \in 1..Len(delayed) /\ k >= 1 /\ grouped = <<>>
    BY <1>5, <1>12, <2>1
  <2>3. Matches(a, ev) /\ ev.mask = "moved_to"
    BY <2>2
  <2>4. /\ grouped' = Append(grouped, Append(a, ev)) /\ delayed' = RemoveAt(delayed, k)
    BY <1>12, <2>2 DEF GroupEvents
  <2> HIDE DEF here, there
  <2>5. /\ d \in Seq(Delayed) /\ delayed[k] \in Delayed /\ Len(d) = k - 1
        /\ \A i \in 1..k - 1 : d[i] = delayed[i]
        /\ delayed = Append(d, delayed[k])
    BY <1>5, <2>2, SplitLast
  <2>6. a \in Element
    BY <2>5 DEF Delayed
  <2>7. Append(a, ev) = <<a[1], ev>> /\ <<a[1], ev>> \in Element
    <3>1. Half(a, "moved_from") /\ Half(b, "moved_to")
      BY <1>3, <2>3 DEF Matches, Half
    <3> QED
      BY <1>3, <2>6, <3>1, JoinedElement
  <2>8. delayed' = d
    <3>1. SubSeq(delayed, k + 1, Len(delayed)) = <<>>
      BY <1>4, SubSeqEmpty
    <3>2. d \o <<>> = d
      BY <2>5, ConcatEmptySeq
    <3> QED
      BY <2>4, <3>1, <3>2 DEF RemoveAt
  <2>9. Elements(d) \in Seq(Element) /\ q = Append(Elements(d), a)
    <3>1. /\ Elements(d) \in Seq(Element) /\ Len(Elements(d)) = k - 1
          /\ \A i \in 1..k - 1 : Elements(d)[i] = d[i].elem
      BY <2>5, ElementsFacts
    <3>2. /\ Append(Elements(d), a) \in Seq(Element) /\ Len(Append(Elements(d), a)) = k
          /\ Append(Elements(d), a)[k] = a
          /\ \A i \in 1..k - 1 : Append(Elements(d), a)[i] = d[i].elem
      <4>1. /\ Append(Elements(d), a) \in Seq(Element)
            /\ Len(Append(Elements(d), a)) = Len(Elements(d)) + 1
            /\ Append(Elements(d), a)[Len(Elements(d)) + 1] = a
            /\ \A i \in 1..Len(Elements(d)) : Append(Elements(d), a)[i] = Elements(d)[i]
        BY <2>6, <3>1, AppendProperties
      <4>2. (k - 1) + 1 = k
        BY <1>4
      <4> QED
        BY <3>1, <4>1, <4>2
    <3>3. \A i \in 1..k : q[i] = Append(Elements(d), a)[i]
      <4> SUFFICES ASSUME NEW i \in 1..k PROVE q[i] = Append(Elements(d), a)[i]
        OBVIOUS
      <4>1. q[i] = delayed[i].elem
        BY <1>4
      <4>2. CASE i = k
        BY <3>2, <4>1, <4>2
      <4>3. CASE i # k
        <5>1. i \in 1..k - 1
          BY <1>4, <4>3
        <5> QED
          BY <2>5, <3>2, <4>1, <5>1
      <4> QED
        BY <4>2, <4>3
    <3> QED
      BY <1>4, <3>1, <3>2, <3>3, SeqEqual
  <2>10. q \o grouped = Append(Elements(d), a)
    BY <1>4, <2>2, <2>9, ConcatEmptySeq
  <2> HIDE DEF d, a, k
  <2>11. grouped' = <<<<a[1], ev>>>>
    BY <2>2, <2>4, <2>7
  <2>12. Elements(delayed') \o grouped' = Append(Elements(d), <<a[1], ev>>)
    BY <2>7, <2>8, <2>9, <2>11, AppendIsConcat
  <2>13. grouped' \in Seq(Element) /\ delayed' \in Seq(Delayed)
    BY <2>5, <2>7, <2>8, <2>11
  <2> HIDE DEF q, ev
  <2> QED
    BY <1>10, <2>3, <2>6, <2>9, <2>10, <2>12, <2>13
<1> QED
  BY <1>7, <1>11, <1>12

\* The first of the grouped elements goes behind those that wait.
LEMMA BufferPutStep ==
  ASSUME BufTypeOK, PipelineInvariant, BufferPut
  PROVE  BufTypeOK' /\ PipelineInvariant'
<1> DEFINE e == Head(grouped)
<1> DEFINE d == [elem |-> e, delay |-> Len(e) = 1 /\ e[1].mask = "moved_from", ripe |-> FALSE]
<1> DEFINE q == Elements(delayed)
<1>1. /\ Flow /\ rpc = "group" /\ rlist = <<>>
      /\ UNCHANGED <<src, rlist, closed, epc, head, flags, view>>
  BY FlowIsInvariant DEF BufferPut
<1>2. CASE grouped = <<>>
  <2>1. rpc' = "check" /\ UNCHANGED <<grouped, delayed>>
    BY <1>2 DEF BufferPut
  <2>2. Pipeline' = Pipeline
    BY <1>1, <2>1 DEF Pipeline, Elements, Single, src
  <2>3. BufTypeOK'
    BY <1>1, <2>1 DEF BufTypeOK, src, flags
  <2>4. Flow'
    BY <1>1, <2>2 DEF Flow, src
  <2> QED
    BY <1>1, <1>2, <2>1, <2>3, <2>4, FlowNext
<1>3. CASE grouped # <<>>
  <2>1. grouped \in Seq(Element) /\ delayed \in Seq(Delayed)
    BY DEF BufTypeOK
  <2>2. /\ e \in Element /\ Tail(grouped) \in Seq(Element) /\ grouped = <<e>> \o Tail(grouped)
        /\ Len(Tail(grouped)) = Len(grouped) - 1 /\ Len(grouped) >= 1
    BY <1>3, <2>1, FirstAndRest
  <2>3. /\ delayed' = Append(delayed, d) /\ grouped' = Tail(grouped)
        /\ rpc' = IF Len(grouped) = 1 /\ e[1].mask = "delete_self" THEN "dead" ELSE rpc
    BY <1>3 DEF BufferPut
  <2>4. d \in Delayed /\ d.elem = e
    BY <2>2 DEF Delayed
  <2> HIDE DEF d
  <2>5. delayed' \in Seq(Delayed)
    BY <2>1, <2>3, <2>4
  <2>6. Elements(delayed') = Append(q, e) /\ q \in Seq(Element)
    <3>1. /\ q \in Seq(Element) /\ Len(q) = Len(delayed)
          /\ \A i \in 1..Len(delayed) : q[i] = delayed[i].elem
      BY <2>1, ElementsFacts
    <3>2. /\ Elements(delayed') \in Seq(Element) /\ Len(Elements(delayed')) = Len(delayed')
          /\ \A i \in 1..Len(delayed') : Elements(delayed')[i] = delayed'[i].elem
      BY <2>5, ElementsFacts
    <3>3. /\ Len(delayed') = Len(delayed) + 1 /\ delayed'[Len(delayed) + 1] = d
          /\ \A i \in 1..Len(delayed) : delayed'[i] = delayed[i]
          /\ Len(delayed) \in Nat
      BY <2>1, <2>3, <2>4, AppendProperties
    <3> HIDE DEF q, e
    <3>4. /\ Append(q, e) \in Seq(Element) /\ Len(Append(q, e)) = Len(q) + 1
          /\ Append(q, e)[Len(q) + 1] = e /\ \A i \in 1..Len(q) : Append(q, e)[i] = q[i]
      BY <2>2, <3>1, AppendProperties
    <3>5. \A i \in 1..Len(delayed') : Elements(delayed')[i] = Append(q, e)[i]
      <4> SUFFICES ASSUME NEW i \in 1..Len(delayed')
                   PROVE  Elements(delayed')[i] = Append(q, e)[i]
        OBVIOUS
      <4>1. CASE i = Len(delayed) + 1
        BY <2>4, <3>1, <3>2, <3>3, <3>4, <4>1
      <4>2. CASE i \in 1..Len(delayed)
        BY <3>1, <3>2, <3>3, <3>4, <4>2
      <4>3. i = Len(delayed) + 1 \/ i \in 1..Len(delayed)
        BY <3>3
      <4> QED
        BY <4>1, <4>2, <4>3
    <3>6. Len(Elements(delayed')) = Len(Append(q, e))
      BY <3>1, <3>2, <3>3, <3>4
    <3> QED
      BY <3>1, <3>2, <3>4, <3>5, <3>6, SeqEqual
  <2>7. Append(q, e) \o Tail(grouped) = q \o grouped
    <3> HIDE DEF q, e
    <3>1. <<e>> \in Seq(Element) /\ Append(q, e) = q \o <<e>>
      BY <2>2, <2>6, AppendIsConcat
    <3>2. (q \o <<e>>) \o Tail(grouped) = q \o (<<e>> \o Tail(grouped))
      BY <2>2, <2>6, <3>1, ConcatAssociative
    <3> QED
      BY <2>2, <3>1, <3>2
  <2>8. Pipeline' = Pipeline
    <3>1. Elements(delayed') \o grouped' = q \o grouped
      BY <2>3, <2>6, <2>7
    <3>2. Single(rlist') \o Single(raw') = Single(rlist) \o Single(raw)
      BY <1>1 DEF Single, src
    <3>3. Pipeline' = (Elements(delayed') \o grouped') \o (Single(rlist') \o Single(raw'))
      BY DEF Pipeline, Elements, Single
    <3> QED
      BY <3>1, <3>2, <3>3 DEF Pipeline
  <2>9. Flow'
    BY <1>1, <2>8 DEF Flow, src
  <2>10. BufTypeOK'
    BY <1>1, <2>2, <2>3, <2>5 DEF BufTypeOK, src, flags
  <2>11. rpc' # "group" => grouped' = <<>>
    <3>1. Len(grouped) = 1 => Len(Tail(grouped)) = 0 /\ Tail(grouped) \in Seq(Element)
      <4>1. Tail(grouped) \in Seq(Element)
        BY <2>2
      <4>2. Len(Tail(grouped)) = Len(grouped) - 1
        BY <2>2
      <4> QED
        BY <4>1, <4>2
    <3>2. \A s \in Seq(Element) : Len(s) = 0 => s = <<>>
      BY EmptySeq
    <3>3. Len(grouped) = 1 => Tail(grouped) = <<>>
      BY <3>1, <3>2
    <3> QED
      BY <1>1, <2>3, <3>3
  <2> QED
    BY <1>1, <2>9, <2>10, <2>11, FlowNext
<1> QED
  BY <1>2, <1>3

\* A handler is told of the oldest element, and of no other.
LEMMA TakeStep ==
  ASSUME BufTypeOK, PipelineInvariant, TakeHead
  PROVE  BufTypeOK' /\ PipelineInvariant'
<1>1. Flow /\ UNCHANGED <<src, reader, closed, head, bufferStop, fd, inotify, spc>>
  BY FlowIsInvariant DEF TakeHead
<1>2. CASE ~StillFirst
  <2>1. epc' = "get" /\ UNCHANGED <<delayed, view, emitterStop>>
    BY <1>2 DEF TakeHead
  <2>2. Pipeline' = Pipeline
    BY <1>1, <2>1 DEF Pipeline, Elements, Single, src, reader
  <2>3. BufTypeOK'
    BY <1>1, <2>1 DEF BufTypeOK, src, reader
  <2>4. Flow'
    BY <1>1, <2>1, <2>2 DEF Flow, src
  <2> QED
    BY <1>1, <2>3, <2>4, FlowNext DEF PipelineInvariant, reader
<1>3. CASE StillFirst
  <2> DEFINE z == Elements(Tail(delayed))
  <2> DEFINE x == Single(rlist) \o Single(raw)
  <2>1. delayed # <<>> /\ delayed \in Seq(Delayed) /\ delayed[1].elem = head
    BY <1>3 DEF StillFirst, BufTypeOK
  <2>2. /\ delayed' = Tail(delayed) /\ view' = Meaning(view, head)
        /\ epc' \in {"stopself", "check"} /\ emitterStop' = (emitterStop \/ head[1].mask = "delete_self")
    BY <1>3 DEF TakeHead
  <2>3. /\ Tail(delayed) \in Seq(Delayed) /\ Len(Tail(delayed)) = Len(delayed) - 1
        /\ Len(delayed) \in Nat /\ Len(delayed) >= 1
        /\ \A i \in 1..Len(delayed) - 1 : Tail(delayed)[i] = delayed[i + 1]
        /\ delayed[1] \in Delayed
    BY <2>1
  <2>4. head \in Element
    BY SMTT(30), <2>1, <2>3 DEF Delayed
  <2>5. z \in Seq(Element) /\ Elements(delayed) = <<head>> \o z
    <3>1. /\ z \in Seq(Element) /\ Len(z) = Len(delayed) - 1
          /\ \A i \in 1..Len(delayed) - 1 : z[i] = delayed[i + 1].elem
      BY ZenonT(40), <2>3, ElementsFacts
    <3>2. /\ Elements(delayed) \in Seq(Element) /\ Len(Elements(delayed)) = Len(delayed)
          /\ \A i \in 1..Len(delayed) : Elements(delayed)[i] = delayed[i].elem
      BY <2>1, ElementsFacts
    <3> DEFINE s == Elements(delayed)
    <3> HIDE DEF s, z
    <3>3. s # <<>> /\ s \in Seq(Element)
      BY <2>3, <3>2 DEF s
    <3>4. s = <<Head(s)>> \o Tail(s) /\ Head(s) = s[1] /\ Tail(s) \in Seq(Element)
      BY <3>3, FirstAndRest
    <3>5. Head(s) = head
      BY <2>1, <2>3, <3>2, <3>4 DEF s
    <3>6. Tail(s) = z
      <4>1. Len(Tail(s)) = Len(s) - 1 /\ \A i \in 1..Len(s) - 1 : Tail(s)[i] = s[i + 1]
        BY <3>3
      <4>2. Len(s) = Len(delayed) /\ \A i \in 1..Len(delayed) : s[i] = delayed[i].elem
        BY <3>2 DEF s
      <4>3. \A i \in 1..Len(delayed) - 1 : i + 1 \in 1..Len(delayed)
        BY <2>3
      <4>4. \A i \in 1..Len(delayed) - 1 : Tail(s)[i] = z[i]
        BY <3>1, <4>1, <4>2, <4>3
      <4> QED
        BY <3>1, <3>4, <4>1, <4>2, <4>4, SeqEqual
    <3> QED
      BY ZenonT(40), <3>1, <3>4, <3>5, <3>6 DEF s
  <2>6. grouped \in Seq(Element) /\ x \in Seq(Element)
    <3>1. Single(rlist) \in Seq(Element) /\ Single(raw) \in Seq(Element)
      BY Parts
    <3> QED
      BY <3>1, Parts
  <2>7. Pipeline = <<head>> \o ((z \o grouped) \o x) /\ (z \o grouped) \o x \in Seq(Element)
    <3>1. Pipeline = ((<<head>> \o z) \o grouped) \o x
      BY <2>5 DEF Pipeline
    <3> HIDE DEF z, x
    <3>2. <<head>> \in Seq(Element) /\ z \o grouped \in Seq(Element)
      BY <2>4, <2>5, <2>6
    <3>3. (<<head>> \o z) \o grouped = <<head>> \o (z \o grouped)
      BY <2>5, <2>6, <3>2, ConcatAssociative
    <3>4. (<<head>> \o (z \o grouped)) \o x = <<head>> \o ((z \o grouped) \o x)
      BY <2>6, <3>2, ConcatAssociative
    <3>5. (z \o grouped) \o x \in Seq(Element)
      BY <2>6, <3>2
    <3> QED
      BY <3>1, <3>3, <3>4, <3>5
  <2>8. Pipeline' = (z \o grouped) \o x
    BY <1>1, <2>2 DEF Pipeline, Elements, Single, src, reader
  <2>9. Pipeline # <<>> /\ Head(Pipeline) = head /\ Tail(Pipeline) = (z \o grouped) \o x
    <3> DEFINE y == (z \o grouped) \o x
    <3>1. y \in Seq(Element) /\ Pipeline = <<head>> \o y
      BY <2>7
    <3> HIDE DEF y
    <3>2. <<head>> \o y # <<>> /\ Head(<<head>> \o y) = head /\ Tail(<<head>> \o y) = y
      BY <2>4, <3>1, ConcatHeadTail
    <3> QED
      BY <3>1, <3>2 DEF y
  <2>10. Good(Meaning(view, head), Tail(Pipeline), dir, changes)
    BY <1>1, <2>9, GoodTail DEF Flow
  <2>11. Flow'
    BY <1>1, <2>2, <2>8, <2>9, <2>10 DEF Flow, src
  <2>12. BufTypeOK'
    <3>1. view' \in SUBSET FileNames
      BY <2>11 DEF Flow, Good
    <3>2. emitterStop' \in BOOLEAN
      BY <2>2 DEF BufTypeOK
    <3> QED
      BY <1>1, <2>2, <2>3, <3>1, <3>2 DEF BufTypeOK, src, reader
  <2> QED
    BY <1>1, <2>11, <2>12, FlowNext DEF PipelineInvariant, reader
<1> QED
  BY <1>2, <1>3

\* Steps that move no element.
LEMMA IdleStep ==
  ASSUME BufTypeOK, PipelineInvariant, UNCHANGED <<src, rlist, grouped, view>>,
         rpc # "group" <=> rpc' # "group",
         Elements(delayed') = Elements(delayed)
  PROVE  PipelineInvariant'
<1>1. Pipeline' = Pipeline
  BY DEF Pipeline, Elements, Single, src
<1>2. Flow'
  BY <1>1, FlowIsInvariant DEF Flow, src
<1> QED
  BY <1>2, FlowNext DEF PipelineInvariant

LEMMA RipenStep ==
  ASSUME BufTypeOK, PipelineInvariant, Ripen
  PROVE  BufTypeOK' /\ PipelineInvariant'
<1>1. /\ delayed \in Seq(Delayed) /\ Len(delayed) \in Nat /\ DOMAIN delayed = 1..Len(delayed)
      /\ \A i \in 1..Len(delayed) : delayed[i] \in Delayed
  BY ElementOfSeq, LenProperties DEF BufTypeOK
<1>2. delayed' = [i \in 1..Len(delayed) |-> [delayed[i] EXCEPT !.ripe = TRUE]]
  BY <1>1 DEF Ripen
<1>3. \A i \in 1..Len(delayed) : /\ [delayed[i] EXCEPT !.ripe = TRUE] \in Delayed
                                 /\ [delayed[i] EXCEPT !.ripe = TRUE].elem = delayed[i].elem
  BY <1>1 DEF Delayed
<1>4. delayed' \in Seq(Delayed) /\ Len(delayed') = Len(delayed)
  BY <1>1, <1>2, <1>3
<1>5. /\ DOMAIN delayed' = 1..Len(delayed)
      /\ \A i \in 1..Len(delayed) : delayed'[i].elem = delayed[i].elem
  BY <1>2, <1>3
<1>6. Elements(delayed') = Elements(delayed)
  BY <1>1, <1>5 DEF Elements
<1>7. UNCHANGED <<src, reader, closed, epc, head, flags, view>>
  BY DEF Ripen
<1>8. BufTypeOK'
  BY <1>4, <1>7 DEF BufTypeOK, src, reader, flags
<1>9. UNCHANGED <<src, rlist, grouped, view>> /\ (rpc # "group" <=> rpc' # "group")
  BY <1>7 DEF reader
<1> QED
  BY <1>6, <1>8, <1>9, IdleStep

\* The other steps of the two threads and of stop.
LEMMA ControlStep ==
  ASSUME BufTypeOK, PipelineInvariant,
         BufferCheck \/ CheckInotify \/ GetHead \/ Sleep \/ CloseSelf \/ JoinSelf
           \/ StopStep \/ on_thread_stop \/ UNCHANGED bufVars
  PROVE  BufTypeOK' /\ PipelineInvariant'
<1>1. delayed' = delayed /\ UNCHANGED <<src, rlist, grouped, view>>
  BY DEF BufferCheck, CheckInotify, GetHead, Sleep, CloseSelf, JoinSelf, StopStep, CloseBuffer,
         JoinBuffer, on_thread_stop, bufVars, reader
<1>2. rpc # "group" <=> rpc' # "group"
  BY DEF BufferCheck, CheckInotify, GetHead, Sleep, CloseSelf, JoinSelf, StopStep, CloseBuffer,
         JoinBuffer, on_thread_stop, bufVars, reader
<1>3. PipelineInvariant'
  <2>1. Elements(delayed') = Elements(delayed) /\ UNCHANGED <<src, rlist, grouped, view>>
    BY <1>1 DEF Elements
  <2> QED
    BY <1>2, <2>1, IdleStep
<1>4. head' \in Element \cup {<<>>}
  <2>1. CASE GetHead
    <3>1. delayed # <<>> => delayed[1] \in Delayed
      <4>1. delayed \in Seq(Delayed)
        BY DEF BufTypeOK
      <4> QED
        BY <4>1
    <3>2. delayed # <<>> => delayed[1].elem \in Element
      BY <3>1 DEF Delayed
    <3> QED
      BY <2>1, <3>2 DEF GetHead, BufTypeOK
  <2>2. CASE ~GetHead
    BY <2>2 DEF BufferCheck, CheckInotify, Sleep, CloseSelf, JoinSelf, StopStep, CloseBuffer,
           JoinBuffer, on_thread_stop, bufVars, BufTypeOK
  <2> QED
    BY <2>1, <2>2
<1>5. BufTypeOK'
  <2> USE <1>1, <1>4 DEF BufTypeOK, src, reader, flags
  <2>1. CASE BufferCheck
    BY <2>1 DEF BufferCheck
  <2>2. CASE CheckInotify
    BY <2>2 DEF CheckInotify
  <2>3. CASE GetHead
    BY <2>3 DEF GetHead
  <2>4. CASE Sleep
    BY <2>4 DEF Sleep
  <2>5. CASE CloseSelf
    BY <2>5 DEF CloseSelf
  <2>6. CASE JoinSelf
    BY <2>6 DEF JoinSelf
  <2>7. CASE CloseBuffer
    BY <2>7 DEF CloseBuffer
  <2>8. CASE JoinBuffer
    BY <2>8 DEF JoinBuffer
  <2>9. CASE on_thread_stop
    BY <2>9 DEF on_thread_stop
  <2>10. CASE UNCHANGED bufVars
    BY <2>10 DEF bufVars
  <2> QED
    BY <2>1, <2>2, <2>3, <2>4, <2>5, <2>6, <2>7, <2>8, <2>9, <2>10 DEF StopStep
<1> QED
  BY <1>3, <1>5

LEMMA ChangeStep ==
  ASSUME BufTypeOK, PipelineInvariant, Changes
  PROVE  BufTypeOK' /\ PipelineInvariant'
<1>1. Flow
  BY FlowIsInvariant
<1>2. ASSUME NEW mask \in Masks, NEW n \in FileNames, mask = "delete_self" => n = Gone,
             Change(Meaning(dir, <<Ev(mask, n)>>), <<Ev(mask, n)>>)
      PROVE  BufTypeOK' /\ Flow'
  <2>1. Ev(mask, n) \in Event /\ Ev(mask, n).id = changes
    BY <1>2 DEF Ev, Event, BufTypeOK
  <2> QED
    BY <1>1, <1>2, <2>1, ChangeOne
<1>3. ASSUME NEW n \in Names, NEW d, NEW mask \in {"create", "modify", "delete", "moved_from", "moved_to"},
             Change(d, <<Ev(mask, n)>>), d = Meaning(dir, <<Ev(mask, n)>>)
      PROVE  BufTypeOK' /\ Flow'
  BY <1>2, <1>3 DEF Masks, FileNames
<1>4. ASSUME NEW n \in Names, CreateFile(n) PROVE BufTypeOK' /\ Flow'
  <2>1. Meaning(dir, <<Ev("create", n)>>) = dir \cup {n}
    BY DEF Meaning, Ev
  <2> QED
    BY <1>3, <1>4, <2>1 DEF CreateFile
<1>5. ASSUME NEW n \in Names, WriteFile(n) PROVE BufTypeOK' /\ Flow'
  <2>1. Meaning(dir, <<Ev("modify", n)>>) = dir
    BY DEF Meaning, Ev
  <2> QED
    BY <1>3, <1>5, <2>1 DEF WriteFile
<1>6. ASSUME NEW n \in Names, DeleteFile(n) PROVE BufTypeOK' /\ Flow'
  <2>1. Meaning(dir, <<Ev("delete", n)>>) = dir \ {n}
    BY DEF Meaning, Ev
  <2> QED
    BY <1>3, <1>6, <2>1 DEF DeleteFile
<1>7. ASSUME NEW n \in Names, MoveAway(n) PROVE BufTypeOK' /\ Flow'
  <2>1. Meaning(dir, <<Ev("moved_from", n)>>) = dir \ {n}
    BY DEF Meaning, Ev
  <2> QED
    BY <1>3, <1>7, <2>1 DEF MoveAway
<1>8. ASSUME NEW n \in Names, MoveHere(n) PROVE BufTypeOK' /\ Flow'
  <2>1. Meaning(dir, <<Ev("moved_to", n)>>) = dir \cup {n}
    BY DEF Meaning, Ev
  <2> QED
    BY <1>3, <1>8, <2>1 DEF MoveHere
<1>9. ASSUME DeleteDir PROVE BufTypeOK' /\ Flow'
  <2>1. Meaning(dir, <<Ev("delete_self", Gone)>>) = {Gone}
    BY <1>9 DEF Meaning, Ev, DeleteDir
  <2>2. Change(Meaning(dir, <<Ev("delete_self", Gone)>>), <<Ev("delete_self", Gone)>>)
    BY <1>9, <2>1 DEF DeleteDir
  <2>3. "delete_self" \in Masks /\ Gone \in FileNames
    BY DEF Masks, FileNames
  <2> QED
    BY <1>2, <2>2, <2>3
<1>10. ASSUME NEW n \in Names, NEW k \in Names, MoveFile(n, k) PROVE BufTypeOK' /\ Flow'
  BY <1>1, <1>10, ChangeTwo
<1>11. BufTypeOK' /\ Flow'
  <2>1. CASE \E n \in Names : CreateFile(n) \/ WriteFile(n) \/ DeleteFile(n)
                              \/ MoveAway(n) \/ MoveHere(n)
    <3>1. PICK n \in Names : CreateFile(n) \/ WriteFile(n) \/ DeleteFile(n)
                              \/ MoveAway(n) \/ MoveHere(n)
      BY <2>1
    <3> QED
      BY <1>4, <1>5, <1>6, <1>7, <1>8, <3>1
  <2>2. CASE \E n, k \in Names : MoveFile(n, k)
    BY <1>10, <2>2
  <2> QED
    BY <1>9, <2>1, <2>2 DEF Changes
<1>12. UNCHANGED reader
  BY DEF Changes, CreateFile, WriteFile, DeleteFile, MoveFile, MoveAway, MoveHere, DeleteDir, Change
<1> QED
  BY <1>11, <1>12, FlowNext DEF reader, PipelineInvariant

\* The events on their way would make of what the handler knows the directory as it is,
\* in every state, for any number of names and changes.
THEOREM PipelineCorrect == BufSpec => [](BufTypeOK /\ PipelineInvariant)
<1>1. BufInit => BufTypeOK /\ PipelineInvariant
  <2> SUFFICES ASSUME BufInit PROVE BufTypeOK /\ PipelineInvariant
    OBVIOUS
  <2>1. BufTypeOK
    <3>1. 0 \in 0..MaxChanges
      BY BufferAssumption
    <3>2. <<>> \in Seq(Event) /\ <<>> \in Seq(Element) /\ <<>> \in Seq(Delayed)
      OBVIOUS
    <3>3. dir \in SUBSET FileNames /\ view \in SUBSET FileNames
      BY DEF BufInit, FileNames
    <3> QED
      BY <3>1, <3>2, <3>3 DEF BufInit, BufTypeOK
  <2>2. Pipeline = <<>>
    <3>1. Elements(delayed) = <<>> /\ Single(rlist) = <<>> /\ Single(raw) = <<>> /\ grouped = <<>>
      BY DEF BufInit, Elements, Single
    <3> QED
      BY <3>1, ConcatEmptySeq DEF Pipeline
  <2>3. Outcome(view, <<>>) = dir /\ Neighbours(<<>>) /\ Older(<<>>)
    BY DEF BufInit, Outcome, Neighbours, Older, FileNames
  <2>4. rlist = <<>> /\ grouped = <<>>
    BY DEF BufInit
  <2> QED
    BY <2>1, <2>2, <2>3, <2>4 DEF PipelineInvariant
<1>2. BufTypeOK /\ PipelineInvariant /\ [BufNext]_bufVars => (BufTypeOK /\ PipelineInvariant)'
  <2> SUFFICES ASSUME BufTypeOK, PipelineInvariant, [BufNext]_bufVars
               PROVE  BufTypeOK' /\ PipelineInvariant'
    OBVIOUS
  <2> QED
    BY ChangeStep, RipenStep, ReadStep, GroupStep, BufferPutStep, TakeStep, ControlStep
       DEF BufNext, BufferStep, TakerStep
<1> QED
  BY <1>1, <1>2, PTL DEF BufSpec

\* A handler knows exactly the files that exist once everything read has been handed
\* out, whatever was read together, held back, paired or given up on.
THEOREM HandlerFollowsCorrect == BufSpec => []HandlerFollows
<1>1. BufTypeOK /\ PipelineInvariant => HandlerFollows
  <2> SUFFICES ASSUME BufTypeOK, PipelineInvariant, raw = <<>>, rlist = <<>>, grouped = <<>>,
                      delayed = <<>>
               PROVE  view = dir
    BY DEF HandlerFollows
  <2>1. Pipeline = <<>>
    <3>1. Elements(delayed) = <<>> /\ Single(rlist) = <<>> /\ Single(raw) = <<>>
      BY DEF Elements, Single
    <3> QED
      BY <3>1, ConcatEmptySeq DEF Pipeline
  <2>2. Outcome(view, <<>>) = view
    BY DEF Outcome, BufTypeOK
  <2> QED
    BY <2>1, <2>2 DEF PipelineInvariant
<1> QED
  BY <1>1, PipelineCorrect, PTL

-----------------------------------------------------------------------------
(* Observer.                                                                   *)

USE DEF obsVars, emVars, qVars, disp, hist, sweep

\* The observer's thread has taken an item and is not done with it.
InDispatch == pc[Disp] \in {"got", "each", "joinOne", "stopAll", "joinAll", "stopping"}

\* What TypeOK needs: an emitter that was created has a watch, the item in hand is
\* one, and unfinished_tasks counts at least the waiting items and that one (an
\* exception of a handler leaves its item counted for ever).
CountInvariant ==
  /\ \A e \in Emitters : est[e] # "unused" => ewatch[e] \in Watches
  /\ InDispatch => current \in Item
  /\ unfinished >= Len(queue) + (IF InDispatch THEN 1 ELSE 0)

LEMMA QueueSeqFacts ==
  ASSUME NEW S, NEW q \in Seq(S)
  PROVE  /\ Len(q) \in Nat /\ q = [i \in 1..Len(q) |-> q[i]]
         /\ \A x \in S : /\ Append(q, x) \in Seq(S) /\ Len(Append(q, x)) = Len(q) + 1
                         /\ Append(q, x)[Len(q) + 1] = x
                         /\ \A i \in 1..Len(q) : Append(q, x)[i] = q[i]
         /\ q # <<>> => /\ Head(q) \in S /\ Tail(q) \in Seq(S) /\ Len(q) >= 1
                        /\ Len(Tail(q)) = Len(q) - 1 /\ Head(q) = q[1]
                        /\ \A i \in 1..Len(q) - 1 : Tail(q)[i] = q[i + 1]
         /\ \A i \in 1..Len(q) : q[i] \in S
  OBVIOUS

\* The emitters' own steps, but for putting an event, and the end of a step that
\* nobody takes.
LEMMA EmitterTypes ==
  ASSUME TypeOK, CountInvariant, NEW e \in Emitters,
         EmitterCheck(e) \/ QueueEventsReturns(e) \/ EmitterStopsItself(e)
  PROVE  TypeOK' /\ CountInvariant'
  BY ZenonT(40) DEF TypeOK, CountInvariant, InDispatch, EmitterCheck, QueueEventsReturns,
     EmitterStopsItself

LEMMA PutTypes ==
  ASSUME TypeOK, CountInvariant, NEW e \in Emitters, NEW ev \in Events, QueueEvent(e, ev)
  PROVE  TypeOK' /\ CountInvariant'
<1>1. <<ev, ewatch[e]>> \in Item
  BY DEF CountInvariant, QueueEvent, Item, TypeOK
<1>2. puts + 1 \in 0..MaxPuts /\ puts \in 0..MaxPuts
  BY ObserverAssumption DEF QueueEvent, TypeOK
<1>3. [id |-> puts, item |-> <<ev, ewatch[e]>>] \in Entry
  BY <1>1, <1>2 DEF Entry
<1>4. CASE UNCHANGED <<queue, lastItem, unfinished>>
  BY <1>1, <1>2, <1>4 DEF TypeOK, CountInvariant, InDispatch, QueueEvent
<1>5. CASE /\ queue' = Append(queue, [id |-> puts, item |-> <<ev, ewatch[e]>>])
           /\ lastItem' = [id |-> puts, item |-> <<ev, ewatch[e]>>]
           /\ unfinished' = unfinished + 1
  <2>1. queue' \in Seq(Entry) /\ Len(queue') = Len(queue) + 1 /\ Len(queue) \in Nat
    BY <1>3, <1>5, QueueSeqFacts DEF TypeOK
  <2> QED
    BY <1>1, <1>2, <1>3, <1>5, <2>1 DEF TypeOK, CountInvariant, InDispatch, QueueEvent
<1> QED
  BY <1>4, <1>5 DEF QueueEvent, QueuePut

\* unschedule_all, called by itself or by stop().
LEMMA EnterTypes ==
  ASSUME TypeOK, CountInvariant, NEW t \in Threads, EnterUnscheduleAll(t),
         CanCall(t) \/ pc[t] = "stopping", ops' \in 0..MaxOps, stopped' = stopped, swept' \in BOOLEAN
  PROVE  TypeOK' /\ CountInvariant'
<1>1. /\ lock' \in Threads \cup {None} /\ shrunk' \in BOOLEAN
      /\ UNCHANGED <<emitterFor, emitters, watches, emVars, qVars, alive, puts, given, missed, disp>>
  BY Zenon DEF EnterUnscheduleAll
<1>2. /\ handlers' \in [Watches -> SUBSET Handlers]
      /\ pc' = [pc EXCEPT ![t] = "stopAll"] /\ arg' \in [Threads -> SUBSET Emitters]
  BY DEF EnterUnscheduleAll, TypeOK
<1>3. TypeOK'
  <2>1. pc' \in [Threads -> {"idle", "starting", "stopping", "joinOne", "stopAll", "joinAll",
                             "joinFailed", "check", "get", "got", "each"}]
    BY <1>2 DEF TypeOK
  <2> QED
    BY ZenonT(40), <1>1, <1>2, <2>1 DEF TypeOK
<1>4. InDispatch <=> InDispatch'
  BY <1>2, ObserverAssumption DEF InDispatch, CanCall, TypeOK
<1>5. CountInvariant'
  BY <1>1, <1>4 DEF CountInvariant, TypeOK
<1> QED
  BY <1>3, <1>5

\* The methods of the observer.
LEMMA CallTypes ==
  ASSUME TypeOK, CountInvariant, NEW t \in Threads, Call(t)
  PROVE  TypeOK' /\ CountInvariant'
<1> USE ObserverAssumption DEF TypeOK, CountInvariant, InDispatch, CanCall
<1>0. ops < MaxOps => ops + 1 \in 0..MaxOps
  OBVIOUS
<1>1. ASSUME NEW w \in Watches, Unschedule(t, w) PROVE TypeOK' /\ CountInvariant'
  BY <1>0, <1>1 DEF Unschedule
<1>2. ASSUME NEW h \in Handlers, NEW w \in Watches, Schedule(t, h, w)
      PROVE  TypeOK' /\ CountInvariant'
  <2>1. CASE emitterFor[w] # None
    BY ZenonT(40), <1>0, <1>2, <2>1 DEF Schedule
  <2>2. CASE emitterFor[w] = None
    <3>1. PICK e \in Emitters :
            /\ est[e] = "unused"
            /\ emitterFor' = [emitterFor EXCEPT ![w] = e] /\ emitters' = emitters \cup {e}
            /\ missed' \in {missed, missed \cup {e}} /\ ewatch' = [ewatch EXCEPT ![e] = w]
            /\ \E s \in {"check", "new"} : est' = [est EXCEPT ![e] = s]
            /\ watches' \in {watches, watches \cup {w}}
      BY <1>2, <2>2 DEF Schedule
    <3>2. /\ handlers' = [handlers EXCEPT ![w] = @ \cup {h}] /\ ops < MaxOps /\ ops' = ops + 1
          /\ UNCHANGED <<estop, lock, shrunk, qVars, alive, stopped, pc, arg, puts, given, swept, disp>>
      BY <1>2, <2>2 DEF Schedule
    <3>3. handlers' \in [Watches -> SUBSET Handlers] /\ watches' \subseteq Watches
      BY <3>1, <3>2
    <3>4. /\ est' \in [Emitters -> {"unused", "new", "check", "work", "dead"}]
          /\ emitterFor' \in [Watches -> Emitters \cup {None}]
          /\ ewatch' \in [Emitters -> Watches \cup {None}]
          /\ emitters' \subseteq Emitters /\ missed' \subseteq Emitters
      BY <3>1
    <3>5. \A f \in Emitters : est'[f] # "unused" => ewatch'[f] \in Watches
      BY <3>1
    <3>6. TypeOK'
      BY <1>0, <3>2, <3>3, <3>4
    <3>7. CountInvariant'
      BY <3>2, <3>5
    <3> QED
      BY <3>6, <3>7
  <2> QED
    BY <2>1, <2>2
<1>3. ASSUME NEW h \in Handlers, NEW w \in Watches,
             AddHandlerForWatch(t, h, w) \/ RemoveHandlerForWatch(t, h, w)
      PROVE  TypeOK' /\ CountInvariant'
  <2>1. /\ handlers' \in [Watches -> SUBSET Handlers] /\ ops < MaxOps /\ ops' = ops + 1
        /\ UNCHANGED <<lock, emitterFor, emitters, shrunk, watches, emVars, qVars, alive, stopped,
                       pc, arg, puts, given, sweep, disp>>
    BY <1>3 DEF AddHandlerForWatch, RemoveHandlerForWatch
  <2> QED
    BY <1>0, <2>1
<1>4. ASSUME UnscheduleAll(t) PROVE TypeOK' /\ CountInvariant'
  BY <1>0, <1>4, EnterTypes DEF UnscheduleAll
<1>5. ASSUME Stop(t) PROVE TypeOK' /\ CountInvariant'
  BY <1>0, <1>5 DEF Stop
<1>6. ASSUME Start(t) PROVE TypeOK' /\ CountInvariant'
  BY <1>0, <1>6 DEF Start
<1> QED
  BY <1>1, <1>2, <1>3, <1>4, <1>5, <1>6 DEF Call

\* And their ends.
LEMMA ReturnTypes ==
  ASSUME TypeOK, CountInvariant, NEW t \in Threads, CallReturns(t)
  PROVE  TypeOK' /\ CountInvariant'
<1> USE ObserverAssumption DEF TypeOK, CountInvariant, InDispatch, LockAfter, Back
<1>1. CASE UnscheduleJoined(t)
  BY <1>1 DEF UnscheduleJoined
<1>2. CASE UnscheduleAllJoined(t)
  BY <1>2 DEF UnscheduleAllJoined, Leave
<1>3. CASE OnThreadStop(t)
  BY <1>3, EnterTypes DEF OnThreadStop
<1>4. CASE StartThread(t) \/ StartFailed(t)
  <2>1. /\ alive' \in {"new", "alive", "dead"}
        /\ pc[t] \in {"starting", "joinFailed"}
        /\ pc' = [pc EXCEPT ![t] = "idle"] /\ arg' = [arg EXCEPT ![t] = {}]
        /\ UNCHANGED <<lock, obsVars, emVars, qVars, stopped, hist, disp>>
    BY <1>4 DEF StartThread, StartFailed
  <2> QED
    BY <2>1
<1>5. ASSUME NEW e \in Emitters, StartEmitter(t, e) PROVE TypeOK' /\ CountInvariant'
  BY <1>5 DEF StartEmitter, StartOk
<1>6. ASSUME NEW e \in Emitters, StartEmitterFails(t, e) PROVE TypeOK' /\ CountInvariant'
  <2>1. /\ emitterFor' \in [Watches -> Emitters \cup {None}]
        /\ estop' \in [Emitters -> BOOLEAN] /\ emitters' \subseteq Emitters /\ shrunk' \in BOOLEAN
        /\ arg' \in [Threads -> SUBSET Emitters]
    <3>1. CASE emitterFor[ewatch[e]] # None /\ e \in emitters
      <4>1. shrunk' = TRUE /\ estop' = [estop EXCEPT ![e] = TRUE]
        BY Zenon, <1>6, <3>1 DEF StartEmitterFails
      <4>2. /\ emitterFor' = [emitterFor EXCEPT ![ewatch[e]] = None]
            /\ emitters' = emitters \ {e} /\ arg' = [arg EXCEPT ![t] = {e}]
        BY Zenon, <1>6, <3>1 DEF StartEmitterFails
      <4> QED
        BY <4>1, <4>2
    <3>2. CASE ~(emitterFor[ewatch[e]] # None /\ e \in emitters)
      <4>1. UNCHANGED <<shrunk, estop, emitters>>
        BY Zenon, <1>6, <3>2 DEF StartEmitterFails
      <4>2. /\ emitterFor' = [emitterFor EXCEPT ![ewatch[e]] = None]
            /\ arg' = [arg EXCEPT ![t] = {}]
        BY Zenon, <1>6, <3>2 DEF StartEmitterFails
      <4> QED
        BY <4>1, <4>2
    <3> QED
      BY <3>1, <3>2
  <2>2. /\ pc[t] = "starting" /\ \E s \in {"idle", "joinFailed"} : pc' = [pc EXCEPT ![t] = s]
        /\ UNCHANGED <<lock, handlers, watches, est, ewatch, qVars, alive, stopped, hist, disp>>
    BY <1>6 DEF StartEmitterFails
  <2> QED
    BY <2>1, <2>2
<1>7. ASSUME NEW e \in Emitters, StopOne(t, e) \/ JoinOne(t, e) PROVE TypeOK' /\ CountInvariant'
  <2>1. /\ estop' \in [Emitters -> BOOLEAN] /\ missed' \subseteq Emitters
        /\ UNCHANGED <<obsVars, est, ewatch, qVars, alive, stopped, puts, ops, given, swept, disp>>
    BY <1>7 DEF StopOne, JoinOne
  <2>2. pc[t] \in {"stopAll", "joinAll"} /\ NextTurn(t, e)
    BY <1>7 DEF StopOne, JoinOne
  <2>3. CASE shrunk
    <3>1. Leave(t)
      BY Zenon, <2>2, <2>3 DEF NextTurn
    <3> QED
      BY <2>1, <2>2, <3>1 DEF Leave
  <2>4. CASE ~shrunk
    <3>1. arg' = [arg EXCEPT ![t] = @ \ {e}] /\ UNCHANGED <<lock, pc>>
      BY Zenon, <2>2, <2>4 DEF NextTurn
    <3> QED
      BY <2>1, <3>1
  <2> QED
    BY <2>3, <2>4
<1>8. CASE AllStopped(t)
  <2>1. shrunk' \in BOOLEAN
    BY Zenon, <1>8 DEF AllStopped
  <2>2. /\ pc[t] = "stopAll" /\ pc' = [pc EXCEPT ![t] = "joinAll"]
        /\ arg' = [arg EXCEPT ![t] = emitters]
        /\ UNCHANGED <<lock, handlers, emitterFor, emitters, watches, emVars, qVars, alive, stopped, hist, disp>>
    BY Zenon, <1>8 DEF AllStopped
  <2> QED
    BY <2>1, <2>2
<1> QED
  BY <1>1, <1>2, <1>3, <1>4, <1>5, <1>6, <1>7, <1>8 DEF CallReturns

\* The observer's thread.
LEMMA DispatchTypes ==
  ASSUME TypeOK, CountInvariant, DispatcherStep \/ HandlerRaises
  PROVE  TypeOK' /\ CountInvariant'
<1> USE DEF TypeOK, CountInvariant, InDispatch
<1>a. Disp \in Threads /\ Len(queue) \in Nat
  BY QueueSeqFacts DEF Threads
<1>1. CASE DispatcherCheck \/ DispatcherEmpty
  BY <1>a, <1>1 DEF DispatcherCheck, DispatcherEmpty
<1>2. CASE DispatcherGet
  <2>1. /\ Head(queue) \in Entry /\ Tail(queue) \in Seq(Entry)
        /\ Len(Tail(queue)) = Len(queue) - 1
    BY <1>2, QueueSeqFacts DEF DispatcherGet
  <2>2. Head(queue).item \in Item
    BY <2>1 DEF Entry
  <2> QED
    BY <1>a, <1>2, <2>1, <2>2 DEF DispatcherGet, QueueGet
<1>3. CASE DispatcherLock
  <2>1. handlers[current[2]] \subseteq Handlers
    BY <1>3 DEF DispatcherLock, Item
  <2> QED
    BY <1>a, <1>3, <2>1 DEF DispatcherLock
<1>4. ASSUME NEW h \in Handlers, Dispatch(h) PROVE TypeOK' /\ CountInvariant'
  BY <1>a, <1>4 DEF Dispatch
<1>5. CASE HandlerReturns \/ HandlerRaises
  BY <1>a, <1>5 DEF HandlerReturns, HandlerRaises
<1>6. CASE TaskDone
  <2>1. unfinished - 1 \in Nat
    BY <1>a, <1>6 DEF TaskDone
  <2> QED
    BY <1>a, <1>6, <2>1 DEF TaskDone
<1> QED
  BY <1>1, <1>2, <1>3, <1>4, <1>5, <1>6 DEF DispatcherStep

\* The types of the observer's state, for any number of threads and calls; with them,
\* unfinished_tasks never falls below the number of items that wait.
THEOREM ObserverTypes == Spec => [](TypeOK /\ CountInvariant)
<1>1. Init => TypeOK /\ CountInvariant
  <2> SUFFICES ASSUME Init PROVE TypeOK /\ CountInvariant
    OBVIOUS
  <2>1. TypeOK
    <3>1. /\ queue \in Seq(Entry) /\ unfinished \in Nat
          /\ puts \in 0..MaxPuts /\ ops \in 0..MaxOps
      BY ObserverAssumption DEF Init
    <3>2. pc \in [Threads -> {"idle", "starting", "stopping", "joinOne", "stopAll", "joinAll",
                              "joinFailed", "check", "get", "got", "each"}]
      BY DEF Init
    <3> QED
      BY <3>1, <3>2 DEF Init, TypeOK
  <2>2. CountInvariant
    BY DEF Init, CountInvariant, InDispatch, Threads
  <2> QED
    BY <2>1, <2>2
<1>2. TypeOK /\ CountInvariant /\ [Next]_vars => (TypeOK /\ CountInvariant)'
  <2> SUFFICES ASSUME TypeOK, CountInvariant, [Next]_vars PROVE TypeOK' /\ CountInvariant'
    OBVIOUS
  <2>1. CASE UNCHANGED vars
    BY <2>1 DEF vars, TypeOK, CountInvariant, InDispatch
  <2> QED
    BY <2>1, EmitterTypes, PutTypes, CallTypes, ReturnTypes, DispatchTypes
       DEF Next, Emitting, EmitterStep, Quiet
<1> QED
  BY <1>1, <1>2, PTL DEF Spec

-----------------------------------------------------------------------------
(* Who holds the lock: whoever joins emitters under it, and the observer's     *)
(* thread while it goes through the handlers, also inside the calls they make. *)

LockInvariant ==
  /\ \A t \in Threads : pc[t] \in {"joinOne", "stopAll", "joinAll"} => lock = t
  /\ pc[Disp] \in {"each", "stopping"} => lock = Disp

LEMMA CallLock ==
  ASSUME TypeOK, LockInvariant, NEW t \in Threads, Call(t)
  PROVE  LockInvariant'
<1> USE ObserverAssumption DEF TypeOK, LockInvariant, Threads
<1>1. ASSUME NEW w \in Watches, Unschedule(t, w) PROVE LockInvariant'
  BY <1>1 DEF Unschedule, CanCall, MayEnter
<1>2. ASSUME NEW h \in Handlers, NEW w \in Watches,
             Schedule(t, h, w) \/ AddHandlerForWatch(t, h, w) \/ RemoveHandlerForWatch(t, h, w)
      PROVE  LockInvariant'
  BY <1>2 DEF Schedule, AddHandlerForWatch, RemoveHandlerForWatch
<1>3. ASSUME UnscheduleAll(t) PROVE LockInvariant'
  BY <1>3 DEF UnscheduleAll, EnterUnscheduleAll, CanCall, MayEnter
<1>4. ASSUME Stop(t) PROVE LockInvariant'
  BY <1>4 DEF Stop, CanCall
<1>5. ASSUME Start(t) PROVE LockInvariant'
  BY <1>5 DEF Start, CanCall
<1> QED
  BY <1>1, <1>2, <1>3, <1>4, <1>5, Call(t) DEF Call

LEMMA ReturnLock ==
  ASSUME TypeOK, LockInvariant, NEW t \in Threads, CallReturns(t)
  PROVE  LockInvariant'
<1> USE ObserverAssumption DEF TypeOK, LockInvariant, Threads
<1>1. CASE UnscheduleJoined(t) \/ UnscheduleAllJoined(t)
  BY <1>1 DEF UnscheduleJoined, UnscheduleAllJoined, Leave, LockAfter, Back
<1>2. CASE OnThreadStop(t)
  BY <1>2 DEF OnThreadStop, EnterUnscheduleAll, MayEnter
<1>3. CASE StartThread(t) \/ StartFailed(t)
  BY <1>3 DEF StartThread, StartFailed
<1>4. ASSUME NEW e \in Emitters, StartEmitter(t, e) \/ StartEmitterFails(t, e)
      PROVE  LockInvariant'
  BY <1>4 DEF StartEmitter, StartEmitterFails
<1>5. ASSUME NEW e \in Emitters, StopOne(t, e) \/ JoinOne(t, e) PROVE LockInvariant'
  BY <1>5 DEF StopOne, JoinOne, NextTurn, Leave, LockAfter, Back
<1>6. CASE AllStopped(t)
  BY <1>6 DEF AllStopped
<1> QED
  BY <1>1, <1>2, <1>3, <1>4, <1>5, <1>6, CallReturns(t) DEF CallReturns

LEMMA DispatchLock ==
  ASSUME TypeOK, LockInvariant, DispatcherStep \/ HandlerRaises
  PROVE  LockInvariant'
  BY ObserverAssumption
     DEF TypeOK, LockInvariant, Threads, DispatcherStep, HandlerRaises, DispatcherCheck,
         DispatcherGet, DispatcherEmpty, DispatcherLock, Dispatch, HandlerReturns, TaskDone

\* The observer's lock is held by the thread that joins emitters under it, and by the
\* observer's own from the copy of the handlers to the end of the item, whatever a
\* handler calls in the meantime.
THEOREM ObserverLock == Spec => []LockInvariant
<1>1. Init => LockInvariant
  BY DEF Init, LockInvariant, Threads
<1>2. TypeOK /\ LockInvariant /\ [Next]_vars => LockInvariant'
  <2> SUFFICES ASSUME TypeOK, LockInvariant, [Next]_vars PROVE LockInvariant'
    OBVIOUS
  <2>1. ASSUME NEW e \in Emitters, Emitting(e) PROVE LockInvariant'
    BY <2>1 DEF Emitting, EmitterStep, EmitterCheck, QueueEvent, QueueEventsReturns,
                EmitterStopsItself, LockInvariant
  <2>2. CASE UNCHANGED vars
    BY <2>2 DEF vars, LockInvariant
  <2> QED
    BY <2>1, <2>2, CallLock, ReturnLock, DispatchLock DEF Next, Quiet
<1> QED
  BY <1>1, <1>2, ObserverTypes, PTL DEF Spec

\* A handler is called only while it is registered for the watch of the event, and
\* under the observer's lock: dispatch_events asks again before each handler of its
\* copy, and nothing of the observer happens between that question and the call.
THEOREM CallsOnlyRegisteredCorrect == Spec => CallsOnlyRegistered
<1> DEFINE Calls == \A h \in Handlers : running = None /\ running' = h
                       => h \in handlers[current[2]] /\ lock = Disp
<1>1. TypeOK /\ LockInvariant /\ [Next]_vars => [Calls]_vars
  <2> SUFFICES ASSUME TypeOK, LockInvariant, [Next]_vars PROVE Calls
    OBVIOUS
  <2> SUFFICES ASSUME NEW h \in Handlers, running = None, running' = h
               PROVE  h \in handlers[current[2]] /\ lock = Disp
    OBVIOUS
  <2>0. h # None
    BY ObserverAssumption
  <2>1. CASE UNCHANGED running
    BY <2>0, <2>1
  <2>2. ASSUME NEW g \in Handlers, Dispatch(g)
        PROVE  h \in handlers[current[2]] /\ lock = Disp
    BY <2>0, <2>2 DEF Dispatch, StillRegistered, LockInvariant
  <2>3. CASE HandlerReturns \/ HandlerRaises
    BY <2>0, <2>3 DEF HandlerReturns, HandlerRaises
  <2>4. ASSUME NEW e \in Emitters, Emitting(e) PROVE UNCHANGED running
    BY <2>4 DEF Emitting, EmitterStep, EmitterCheck, QueueEvent, QueueEventsReturns,
                EmitterStopsItself
  <2>5. ASSUME NEW t \in Threads, Call(t) PROVE UNCHANGED running
    BY <2>5 DEF Call, Unschedule, Schedule, AddHandlerForWatch, RemoveHandlerForWatch,
                UnscheduleAll, EnterUnscheduleAll, Stop, Start
  <2>6. ASSUME NEW t \in Threads, CallReturns(t) PROVE UNCHANGED running
    BY <2>6 DEF CallReturns, UnscheduleJoined, UnscheduleAllJoined, OnThreadStop,
                EnterUnscheduleAll, StartThread, StartFailed, StartEmitter, StartEmitterFails,
                StopOne, JoinOne, AllStopped
  <2>7. CASE DispatcherCheck \/ DispatcherGet \/ DispatcherEmpty \/ DispatcherLock \/ TaskDone
    BY <2>1, <2>7 DEF DispatcherCheck, DispatcherGet, DispatcherEmpty, DispatcherLock, TaskDone
  <2>8. CASE UNCHANGED vars
    BY <2>1, <2>8 DEF vars
  <2> QED
    BY <2>1, <2>2, <2>3, <2>4, <2>5, <2>6, <2>7, <2>8, [Next]_vars
       DEF Next, DispatcherStep, Quiet
<1> QED
  BY <1>1, ObserverTypes, ObserverLock, PTL DEF Spec, CallsOnlyRegistered

-----------------------------------------------------------------------------
(* The queue and its _last_item.                                              *)

\* _last_item is the newest waiting entry, and None when nothing waits. _get compares
\* it with the entry it returns by identity: that only works because no entry is in the
\* queue twice.
QueueInvariant ==
  /\ queue = <<>> => lastItem = None
  /\ queue # <<>> => lastItem = queue[Len(queue)]
  /\ \A i \in 1..Len(queue) : queue[i].id < puts
  /\ \A i, j \in 1..Len(queue) : i < j => queue[i].id < queue[j].id

\* The items of a sequence of entries, as Waiting takes them.
ItemsOf(q) == [i \in 1..Len(q) |-> q[i].item]

LEMMA EntryFacts ==
  ASSUME NEW q \in Seq(Entry)
  PROVE  /\ Len(q) \in Nat
         /\ \A i \in 1..Len(q) : q[i] \in Entry /\ q[i].id \in Nat /\ q[i].item \in Item
<1>1. Len(q) \in Nat /\ \A i \in 1..Len(q) : q[i] \in Entry
  BY QueueSeqFacts
<1>2. \A x \in Entry : x.id \in Nat /\ x.item \in Item
  BY ObserverAssumption DEF Entry
<1> QED
  BY <1>1, <1>2

LEMMA ItemsOfFacts ==
  ASSUME NEW q \in Seq(Entry)
  PROVE  /\ ItemsOf(q) \in Seq(Item) /\ Len(ItemsOf(q)) = Len(q)
         /\ ItemsOf(q) = <<>> <=> q = <<>>
         /\ \A x \in Entry : ItemsOf(Append(q, x)) = Append(ItemsOf(q), x.item)
         /\ q # <<>> => ItemsOf(Tail(q)) = Tail(ItemsOf(q))
<1>1. Len(q) \in Nat /\ \A i \in 1..Len(q) : q[i].item \in Item
  BY EntryFacts
<1>2. ItemsOf(q) \in Seq(Item) /\ Len(ItemsOf(q)) = Len(q)
  BY <1>1 DEF ItemsOf
<1>3. ItemsOf(q) = <<>> <=> q = <<>>
  BY <1>1, <1>2
<1>4. ASSUME NEW x \in Entry PROVE ItemsOf(Append(q, x)) = Append(ItemsOf(q), x.item)
  <2>1. x.item \in Item
    BY DEF Entry
  <2>2. /\ Append(ItemsOf(q), x.item) \in Seq(Item)
        /\ Len(Append(ItemsOf(q), x.item)) = Len(q) + 1
        /\ Append(ItemsOf(q), x.item)[Len(q) + 1] = x.item
        /\ \A i \in 1..Len(q) : Append(ItemsOf(q), x.item)[i] = q[i].item
    <3>1. \A i \in 1..Len(q) : ItemsOf(q)[i] = q[i].item
      BY DEF ItemsOf
    <3> QED
      BY <1>2, <2>1, <3>1, QueueSeqFacts
  <2>3. /\ Len(Append(q, x)) = Len(q) + 1 /\ Append(q, x)[Len(q) + 1] = x
        /\ \A i \in 1..Len(q) : Append(q, x)[i] = q[i]
    BY QueueSeqFacts
  <2>4. ItemsOf(Append(q, x)) = [i \in 1..Len(q) + 1 |-> Append(q, x)[i].item]
    BY <2>3 DEF ItemsOf
  <2>5. Append(ItemsOf(q), x.item)
          = [i \in 1..Len(q) + 1 |-> Append(ItemsOf(q), x.item)[i]]
    BY <2>2, QueueSeqFacts
  <2>6. \A i \in 1..Len(q) + 1 : Append(q, x)[i].item = Append(ItemsOf(q), x.item)[i]
    BY <1>1, <2>2, <2>3
  <2> QED
    BY <2>4, <2>5, <2>6
<1>5. ASSUME q # <<>> PROVE ItemsOf(Tail(q)) = Tail(ItemsOf(q))
  <2>1. /\ Tail(q) \in Seq(Entry) /\ Len(Tail(q)) = Len(q) - 1
        /\ \A i \in 1..Len(q) - 1 : Tail(q)[i] = q[i + 1]
    BY <1>5, QueueSeqFacts
  <2>2. /\ Tail(ItemsOf(q)) \in Seq(Item) /\ Len(Tail(ItemsOf(q))) = Len(q) - 1
        /\ \A i \in 1..Len(q) - 1 : Tail(ItemsOf(q))[i] = ItemsOf(q)[i + 1]
    BY <1>2, <1>3, <1>5, QueueSeqFacts
  <2>3. Tail(ItemsOf(q)) = [i \in 1..Len(q) - 1 |-> Tail(ItemsOf(q))[i]]
    <3>1. ASSUME NEW s \in Seq(Item), Len(s) = Len(q) - 1
          PROVE  s = [i \in 1..Len(q) - 1 |-> s[i]]
      BY <3>1, QueueSeqFacts
    <3> QED
      BY <2>2, <3>1
  <2>4. ItemsOf(Tail(q)) = [i \in 1..Len(q) - 1 |-> Tail(q)[i].item]
    BY <2>1 DEF ItemsOf
  <2>5. \A i \in 1..Len(q) - 1 : Tail(ItemsOf(q))[i] = Tail(q)[i].item
    BY <1>1, <2>1, <2>2 DEF ItemsOf
  <2> QED
    BY <2>3, <2>4, <2>5
<1> QED
  BY <1>2, <1>3, <1>4, <1>5

\* A put: the item is dropped exactly when it equals the newest one that waits.
LEMMA PutStep ==
  ASSUME TypeOK, CountInvariant, QueueInvariant,
         NEW e \in Emitters, NEW ev \in Events, QueueEvent(e, ev)
  PROVE  QueueInvariant' /\ Abstract!Put(<<ev, ewatch[e]>>) /\ <<ev, ewatch[e]>> \in Item
<1> DEFINE x == <<ev, ewatch[e]>>
           entry == [id |-> puts, item |-> x]
<1>1. x \in Item
  BY DEF CountInvariant, QueueEvent, Item, TypeOK
<1>2. puts' = puts + 1 /\ given' = x /\ puts \in Nat /\ QueuePut(x)
  BY DEF QueueEvent, TypeOK
<1>3. entry \in Entry /\ entry # None
  BY <1>1, <1>2, ObserverAssumption, EntryAssumption DEF Entry, QueueEvent
<1>4. queue \in Seq(Entry) /\ Len(queue) \in Nat
  BY QueueSeqFacts DEF TypeOK
<1>5. \A i \in 1..Len(queue) : queue[i] \in Entry /\ queue[i].id \in Nat
  BY <1>4, EntryFacts
<1>6. lastItem # None <=> queue # <<>>
  BY <1>4, <1>5, EntryAssumption DEF QueueInvariant
<1>7. queue # <<>> => Len(Waiting) = Len(queue) /\ Waiting[Len(Waiting)] = lastItem.item
  BY <1>4 DEF Waiting, QueueInvariant
<1>8. Waiting = ItemsOf(queue) /\ Waiting' = ItemsOf(queue')
  BY DEF Waiting, ItemsOf
<1>9. Waiting # <<>> <=> queue # <<>>
  BY <1>4, <1>8, ItemsOfFacts
<1>10. CASE lastItem # None /\ lastItem.item = x
  <2>1. UNCHANGED <<queue, lastItem>>
    BY <1>2, <1>10 DEF QueuePut
  <2>2. Waiting' = Waiting
    BY <1>8, <2>1
  <2>3. QueueInvariant'
    <3>1. queue' = queue /\ lastItem' = lastItem /\ puts' = puts + 1 /\ puts \in Nat
      BY <1>2, <2>1
    <3>2. \A i \in 1..Len(queue) : queue[i].id < puts + 1
      BY <1>2, <1>5 DEF QueueInvariant
    <3> QED
      BY <3>1, <3>2 DEF QueueInvariant
  <2>4. Abstract!Put(x)
    BY <1>2, <1>6, <1>7, <1>9, <1>10, <2>2 DEF Abstract!Put
  <2> QED
    BY <1>1, <2>3, <2>4
<1>11. CASE ~(lastItem # None /\ lastItem.item = x)
  <2>1. queue' = Append(queue, entry) /\ lastItem' = entry
    BY <1>2, <1>11 DEF QueuePut
  <2>2. /\ Len(queue') = Len(queue) + 1 /\ queue'[Len(queue) + 1] = entry
        /\ \A i \in 1..Len(queue) : queue'[i] = queue[i]
    BY <1>3, <1>4, <2>1, QueueSeqFacts
  <2>3. Waiting' = Append(Waiting, x)
    BY <1>3, <1>4, <1>8, <2>1, ItemsOfFacts
  <2>4. QueueInvariant'
    <3>1. queue' # <<>> /\ lastItem' = queue'[Len(queue')] /\ entry.id = puts
      BY SMTT(30), <1>4, <2>1, <2>2
    <3>2. \A i \in 1..Len(queue) : queue'[i].id \in Nat /\ queue'[i].id < puts
      BY <1>5, <2>2 DEF QueueInvariant
    <3>3. queue'[Len(queue')].id = puts
      BY <2>2, <3>1
    <3>4. \A i \in 1..Len(queue') : queue'[i].id < puts'
      BY <1>2, <1>4, <2>2, <3>2, <3>3
    <3>5. \A i, j \in 1..Len(queue) : i < j => queue'[i].id < queue'[j].id
      BY <2>2 DEF QueueInvariant
    <3>6. \A i, j \in 1..Len(queue') : i < j => queue'[i].id < queue'[j].id
      BY <1>4, <2>2, <3>2, <3>3, <3>5
    <3> QED
      BY <3>1, <3>4, <3>6 DEF QueueInvariant
  <2>5. Abstract!Put(x)
    BY <1>2, <1>6, <1>7, <1>9, <1>11, <2>3 DEF Abstract!Put
  <2> QED
    BY <1>1, <2>4, <2>5
<1> QED
  BY <1>10, <1>11

\* A get takes the oldest; _last_item is reset when that was the only one.
LEMMA GetStep ==
  ASSUME TypeOK, QueueInvariant, DispatcherGet
  PROVE  QueueInvariant' /\ Abstract!Get
<1>1. queue # <<>> /\ QueueGet /\ UNCHANGED <<puts, given>>
  BY DEF DispatcherGet
<1>2. queue \in Seq(Entry) /\ Len(queue) \in Nat
  BY QueueSeqFacts DEF TypeOK
<1>3. \A i \in 1..Len(queue) : queue[i] \in Entry /\ queue[i].id \in Nat
  BY <1>2, EntryFacts
<1>4. /\ queue' = Tail(queue) /\ Len(queue) >= 1 /\ Head(queue) = queue[1]
      /\ queue' \in Seq(Entry) /\ Len(queue') = Len(queue) - 1
      /\ \A i \in 1..Len(queue) - 1 : queue'[i] = queue[i + 1]
  BY <1>1, <1>2, QueueSeqFacts DEF QueueGet
<1>5. lastItem = queue[Len(queue)]
  BY <1>1 DEF QueueInvariant
<1>6. Head(queue) = lastItem <=> Len(queue) = 1
  BY <1>2, <1>3, <1>4, <1>5 DEF QueueInvariant
<1>7. QueueInvariant'
  <2>1. CASE Len(queue) = 1
    <3>1. Len(queue') = 0 /\ queue' = <<>> /\ lastItem' = None
      BY <1>1, <1>4, <1>6, <2>1 DEF QueueGet
    <3> QED
      BY <3>1 DEF QueueInvariant
  <2>2. CASE Len(queue) # 1
    <3>1. lastItem' = queue[Len(queue)] /\ Len(queue') >= 1
      BY <1>1, <1>2, <1>4, <1>5, <1>6, <2>2 DEF QueueGet
    <3>2. queue' # <<>> /\ queue'[Len(queue')] = queue[Len(queue)]
      <4>1. queue'[Len(queue) - 1] = queue[Len(queue) - 1 + 1] /\ Len(queue) - 1 + 1 = Len(queue)
        BY <1>2, <1>4, <2>2
      <4>2. queue' # <<>>
        BY <3>1
      <4> QED
        BY <1>4, <4>1, <4>2
    <3>3. \A i \in 1..Len(queue') : queue'[i].id < puts'
      BY <1>1, <1>2, <1>4 DEF QueueInvariant
    <3>4. \A i, j \in 1..Len(queue') : i < j => queue'[i].id < queue'[j].id
      BY <1>2, <1>4 DEF QueueInvariant
    <3> QED
      BY <3>1, <3>2, <3>3, <3>4 DEF QueueInvariant
  <2> QED
    BY <2>1, <2>2
<1>8. Waiting' = Tail(Waiting) /\ Waiting # <<>>
  <2>1. Waiting = ItemsOf(queue) /\ Waiting' = ItemsOf(queue')
    BY DEF Waiting, ItemsOf
  <2> QED
    BY <1>1, <1>2, <1>4, <2>1, ItemsOfFacts
<1> QED
  BY <1>1, <1>7, <1>8 DEF Abstract!Get

\* Every other step leaves the queue alone.
LEMMA QueueFrame ==
  ASSUME [Next]_vars, ~DispatcherGet,
         \A e \in Emitters, ev \in Events : ~QueueEvent(e, ev)
  PROVE  UNCHANGED <<queue, lastItem, puts, given>>
<1>1. ASSUME NEW e \in Emitters, Emitting(e) PROVE UNCHANGED <<queue, lastItem, puts, given>>
  BY <1>1 DEF Emitting, EmitterStep, EmitterCheck, QueueEventsReturns, EmitterStopsItself
<1>2. ASSUME NEW t \in Threads, Call(t) PROVE UNCHANGED <<queue, lastItem, puts, given>>
  BY <1>2 DEF Call, Unschedule, Schedule, AddHandlerForWatch, RemoveHandlerForWatch,
              UnscheduleAll, EnterUnscheduleAll, Stop, Start
<1>3. ASSUME NEW t \in Threads, CallReturns(t)
      PROVE  UNCHANGED <<queue, lastItem, puts, given>>
  BY <1>3 DEF CallReturns, UnscheduleJoined, UnscheduleAllJoined, OnThreadStop,
              EnterUnscheduleAll, StartThread, StartFailed, StartEmitter, StartEmitterFails,
              StopOne, JoinOne, AllStopped
<1>4. CASE DispatcherStep \/ HandlerRaises
  BY <1>4 DEF DispatcherStep, DispatcherCheck, DispatcherEmpty, DispatcherLock, Dispatch,
              HandlerReturns, HandlerRaises, TaskDone
<1>5. CASE UNCHANGED vars
  BY <1>5 DEF vars
<1> QED
  BY <1>1, <1>2, <1>3, <1>4, <1>5 DEF Next, Quiet

\* _last_item stays true of the queue through every step of every thread.
THEOREM ObserverQueue == Spec => []QueueInvariant
<1>1. Init => QueueInvariant
  BY DEF Init, QueueInvariant
<1>2. TypeOK /\ CountInvariant /\ QueueInvariant /\ [Next]_vars => QueueInvariant'
  <2>1. UNCHANGED <<queue, lastItem, puts, given>> => (QueueInvariant => QueueInvariant')
    BY DEF QueueInvariant
  <2> QED
    BY <2>1, PutStep, GetStep, QueueFrame
<1> QED
  BY <1>1, <1>2, ObserverTypes, PTL DEF Spec

\* SkipRepeatsQueue, as the emitters and the observer's thread use it, implements the
\* queue of DedupQueue: an event is dropped only while an equal one is the newest that
\* still waits, so a change of a file is always seen after it happened.
THEOREM NoEventForgottenCorrect == Spec => NoEventForgotten
<1>1. Init => Abstract!Init
  BY ItemsOfFacts DEF Init, Abstract!Init, Waiting
<1>2. TypeOK /\ CountInvariant /\ QueueInvariant /\ [Next]_vars
        => [Abstract!Next]_<<Waiting, puts, given>>
  <2> SUFFICES ASSUME TypeOK, CountInvariant, QueueInvariant, [Next]_vars
               PROVE  Abstract!Next \/ UNCHANGED <<Waiting, puts, given>>
    OBVIOUS
  <2>1. ASSUME NEW e \in Emitters, NEW ev \in Events, QueueEvent(e, ev)
        PROVE  Abstract!Next
    BY <2>1, PutStep DEF Abstract!Next
  <2>2. CASE DispatcherGet
    BY <2>2, GetStep DEF Abstract!Next
  <2>3. UNCHANGED <<queue, puts, given>> => UNCHANGED <<Waiting, puts, given>>
    BY DEF Waiting
  <2> QED
    BY <2>1, <2>2, <2>3, QueueFrame
<1> QED
  BY <1>1, <1>2, ObserverTypes, ObserverQueue, PTL
     DEF Spec, NoEventForgotten, Abstract!Spec
=============================================================================
