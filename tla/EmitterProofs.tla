---------------------------- MODULE EmitterProofs --------------------------
(* The emitters that keep a picture of the directory, for any names, inodes,       *)
(* descriptors and changes. Kqueue: no descriptor is left open on a file that is   *)
(* not at its path. Polling: a handler of the events knows the files that exist.   *)
(* Inotify: the maps of watches and paths follow the tree.                         *)
(* FSEvents and Windows: what is told of the events leads to the tree.             *)
EXTENDS Kqueue, Polling, Inotify, NativeEmitters, SequenceTheorems, WellFoundedInduction, TLAPS

\* the kernel's tree: every entry is in a directory that is there and has an inode of its own
TreeSound ==
  /\ DOMAIN tree \subseteq Paths
  /\ \A p \in DOMAIN tree : p # Top => DirOf(p) \in DOMAIN tree
  /\ \A p \in DOMAIN tree : tree[p].ino = "top" <=> p = Top
  /\ \A p, q \in DOMAIN tree : tree[p].ino = tree[q].ino => p = q

\* an event that says a descriptor is to be closed, as _gen_kqueue_events reads it
Closing(kev) == "rename" \in kev.flags \/ ("delete" \in kev.flags /\ "write" \notin kev.flags)

Fresh(f) == Exists(desc[f].path) /\ tree[desc[f].path].ino = desc[f].ino

\* one descriptor for a path; what it is open on is still a file, or still a directory
DescSound ==
  /\ \A f \in DOMAIN desc : desc[f].path \in Paths
  /\ \A f, g \in DOMAIN desc : desc[f].path = desc[g].path => f = g
  /\ \A f \in DOMAIN desc, p \in DOMAIN tree :
       tree[p].ino = desc[f].ino => (p \in Files <=> desc[f].path \in Files)

\* events are for open descriptors, and a rename is one of a file
EventsSound(events) ==
  /\ DOMAIN events \subseteq DOMAIN desc
  /\ \A f \in DOMAIN events : /\ events[f].flags \subseteq {"rename", "write", "delete"}
                              /\ "rename" \in events[f].flags => desc[f].path \in Files

\* a descriptor is on what is at its path, or an event that closes it is on its way, or the
\* kernel was told of it too late
Tracked(f) ==
  \/ Fresh(f) \/ f \in late
  \/ f \in DOMAIN pending /\ Closing(pending[f])
  \/ f \in DOMAIN batch /\ Closing(batch[f])

KqInv ==
  \/ dirMoved
  \/ /\ TreeSound /\ DescSound /\ EventsSound(pending) /\ EventsSound(batch)
     /\ kpc \in {"control", "read", "snap", "open", "events"} /\ armed \subseteq DOMAIN desc
     /\ kpc \in {"control", "read"} => DOMAIN batch = {}
     /\ settled => DOMAIN pending = {}
     /\ ~blurred => \A f \in DOMAIN desc : Tracked(f)

-----------------------------------------------------------------------------
LEMMA PathShapes ==
  ASSUME NEW p \in Paths
  PROVE  \/ p = <<>>
         \/ \E n \in DirNames : p = <<n>> /\ p \in Subs
         \/ \E n \in FileNames : p = <<n>> /\ p \in Files
         \/ \E d \in DirNames, n \in DeepNames : p = <<d, n>> /\ p \in Files
BY DEF Paths, Top, Subs, Files, Flat, Deep

LEMMA ShortPath ==
  ASSUME NEW n
  PROVE  DirOf(<<n>>) = Top /\ <<n>>[Len(<<n>>)] = n
<1>1. Len(<<n>>) = 1 OBVIOUS
<1>2. SubSeq(<<n>>, 1, 0) = <<>> OBVIOUS
<1> QED BY <1>1, <1>2 DEF DirOf, Top

LEMMA LongPath ==
  ASSUME NEW d, NEW n
  PROVE  DirOf(<<d, n>>) = <<d>> /\ <<d, n>>[Len(<<d, n>>)] = n
<1>1. Len(<<d, n>>) = 2 OBVIOUS
<1>2. SubSeq(<<d, n>>, 1, 1) = <<d>>
  <2>1. SubSeq(<<d, n>>, 1, 1) = [i \in 1..1 |-> <<d, n>>[i]] OBVIOUS
  <2>2. \A i \in 1..1 : <<d, n>>[i] = d OBVIOUS
  <2>3. <<d>> = [i \in 1..1 |-> d] OBVIOUS
  <2> QED BY <2>1, <2>2, <2>3
<1> QED BY <1>1, <1>2 DEF DirOf

\* A file is no directory.
LEMMA Kinds == \A p \in Files : p # Top /\ p \notin Subs
<1> SUFFICES ASSUME NEW p \in Files PROVE p # Top /\ p \notin Subs OBVIOUS
<1>1. CASE p \in Flat
  <2>1. PICK n \in FileNames : p = <<n>> BY <1>1 DEF Flat
  <2>2. ASSUME NEW d \in DirNames PROVE p # <<d>>
    BY <2>1, TreeAssumption
  <2>3. p # <<>> BY <2>1
  <2> QED BY <2>2, <2>3 DEF Subs, Top
<1>2. CASE p \in Deep
  <2>1. PICK e \in DirNames, n \in DeepNames : p = <<e, n>> BY <1>2 DEF Deep
  <2>2. ASSUME NEW d \in DirNames PROVE p # <<d>> BY <2>1
  <2>3. p # <<>> BY <2>1
  <2> QED BY <2>2, <2>3 DEF Subs, Top
<1> QED BY <1>1, <1>2 DEF Files

\* What contains an entry is a directory; the entry of a name in a directory is one path.
LEMMA Parents == \A p \in Paths : p # Top => DirOf(p) \in {Top} \cup Subs
<1> SUFFICES ASSUME NEW p \in Paths, p # Top PROVE DirOf(p) \in {Top} \cup Subs OBVIOUS
<1>1. CASE \E n : p = <<n>> BY <1>1, ShortPath
<1>2. CASE \E d \in DirNames, n \in DeepNames : p = <<d, n>> BY <1>2, LongPath DEF Subs
<1> QED BY <1>1, <1>2, PathShapes DEF Top

LEMMA OnePath ==
  ASSUME NEW p \in Paths \ {Top}, NEW q \in Paths \ {Top},
         DirOf(p) = DirOf(q), p[Len(p)] = q[Len(q)]
  PROVE  p = q
<1>1. \A d : <<d>> # Top BY DEF Top
<1>2. (\E n : p = <<n>>) \/ (\E d, n : p = <<d, n>>) BY PathShapes DEF Top
<1>3. (\E n : q = <<n>>) \/ (\E d, n : q = <<d, n>>) BY PathShapes DEF Top
<1>4. CASE \E n : p = <<n>>
  <2>1. PICK n : p = <<n>> BY <1>4
  <2>2. DirOf(q) = Top /\ q[Len(q)] = n BY <2>1, ShortPath
  <2>3. PICK m : q = <<m>> BY <1>1, <1>3, <2>2, LongPath
  <2> QED BY <2>1, <2>2, <2>3, ShortPath
<1>5. CASE \E d, n : p = <<d, n>>
  <2>1. PICK d, n : p = <<d, n>> BY <1>5
  <2>2. DirOf(q) = <<d>> /\ q[Len(q)] = n BY <2>1, LongPath
  <2>3. PICK e, m : q = <<e, m>> BY <1>1, <1>3, <2>2, ShortPath
  <2>4. <<e>> = <<d>> /\ m = n BY <2>2, <2>3, LongPath
  <2>5. e = d BY <2>4
  <2> QED BY <2>1, <2>3, <2>4, <2>5
<1> QED BY <1>2, <1>4, <1>5

LEMMA Concat1 == ASSUME NEW n, NEW x PROVE <<n>> \o <<x>> = <<n, x>>
<1> DEFINE S == {n, x}
<1>1. <<n>> \in Seq(S) /\ <<x>> \in Seq(S) /\ <<n, x>> \in Seq(S) OBVIOUS
<1>2. Len(<<n>>) = 1 /\ Len(<<x>>) = 1 /\ Len(<<n, x>>) = 2 /\ <<n>>[1] = n /\ <<x>>[1] = x
      /\ <<n, x>>[1] = n /\ <<n, x>>[2] = x
  OBVIOUS
<1> DEFINE c == <<n>> \o <<x>>
<1> HIDE DEF S
<1>3. c \in Seq(S) /\ Len(c) = 2 /\ c[1] = n /\ c[2] = x BY <1>1, <1>2, ConcatProperties
<1> HIDE DEF c
<1>4. \A i \in 1..Len(c) : c[i] = <<n, x>>[i] BY <1>2, <1>3
<1>5. c = <<n, x>> BY <1>1, <1>2, <1>3, <1>4, SeqEqual
<1> QED BY <1>5 DEF c

LEMMA Concat2 == ASSUME NEW e, NEW n, NEW x PROVE <<e, n>> \o <<x>> = <<e, n, x>>
<1> DEFINE S == {e, n, x}
<1>1. <<e, n>> \in Seq(S) /\ <<x>> \in Seq(S) /\ <<e, n, x>> \in Seq(S) OBVIOUS
<1>2. Len(<<e, n>>) = 2 /\ Len(<<x>>) = 1 /\ Len(<<e, n, x>>) = 3 /\ <<e, n>>[1] = e /\ <<e, n>>[2] = n
      /\ <<x>>[1] = x /\ <<e, n, x>>[1] = e /\ <<e, n, x>>[2] = n /\ <<e, n, x>>[3] = x
  OBVIOUS
<1> DEFINE c == <<e, n>> \o <<x>>
<1> HIDE DEF S
<1>3. c \in Seq(S) /\ Len(c) = 3 /\ c[1] = e /\ c[2] = n /\ c[3] = x BY <1>1, <1>2, ConcatProperties
<1> HIDE DEF c
<1>4. \A i \in 1..Len(c) : c[i] = <<e, n, x>>[i] BY <1>2, <1>3
<1>5. c = <<e, n, x>> BY <1>1, <1>2, <1>3, <1>4, SeqEqual
<1> QED BY <1>5 DEF c

\* Nothing is known below a file.
LEMMA NothingBelow == \A p \in Files : \A x : p \o <<x>> \notin Paths
<1> SUFFICES ASSUME NEW p \in Files, NEW x PROVE p \o <<x>> \notin Paths OBVIOUS
<1>1. CASE p \in Flat
  <2>1. PICK n \in FileNames : p = <<n>> BY <1>1 DEF Flat
  <2>2. p \o <<x>> = <<n, x>> BY <2>1, Concat1
  <2>3. <<n, x>> # <<>> /\ (\A m : <<n, x>> # <<m>>) OBVIOUS
  <2>4. ASSUME NEW d \in DirNames, NEW m PROVE <<n, x>> # <<d, m>> BY TreeAssumption
  <2> QED BY <2>2, <2>3, <2>4, PathShapes
<1>2. CASE p \in Deep
  <2>1. PICK e \in DirNames, n \in DeepNames : p = <<e, n>> BY <1>2 DEF Deep
  <2>2. p \o <<x>> = <<e, n, x>> BY <2>1, Concat2
  <2>3. <<e, n, x>> # <<>> /\ (\A m : <<e, n, x>> # <<m>>) /\ (\A d, m : <<e, n, x>> # <<d, m>>) OBVIOUS
  <2> QED BY <2>2, <2>3, PathShapes
<1> QED BY <1>1, <1>2 DEF Files

-----------------------------------------------------------------------------
(* What other programs do to the tree.                                          *)

\* a file stays a file, a directory a directory
KindsKept ==
  \A p \in DOMAIN tree, q \in DOMAIN tree' : tree[p].ino = tree'[q].ino => (p \in Files <=> q \in Files)

SubsKept ==
  \A p \in Subs \cap DOMAIN tree, q \in Subs \cap DOMAIN tree' : tree[p].ino = tree'[q].ino => p = q

LEMMA CreateSound ==
  ASSUME TreeSound, NEW p \in Paths, Create(p)
  PROVE  TreeSound' /\ KindsKept
<1>1. PICK i \in Inodes \ Used : tree' = Set(tree, p, [ino |-> i, mtime |-> edits])
  BY DEF Create, Edited
<1>2. p # Top /\ p \notin DOMAIN tree /\ DirOf(p) \in DOMAIN tree BY DEF Create, Exists
<1>3. DOMAIN tree' = DOMAIN tree \cup {p} BY <1>1 DEF Set
<1>4. tree'[p].ino = i /\ \A q \in DOMAIN tree : tree'[q] = tree[q] BY <1>1, <1>2 DEF Set
<1>5. i # "top" /\ \A q \in DOMAIN tree : tree[q].ino # i BY TreeAssumption DEF Used
<1> QED BY <1>2, <1>3, <1>4, <1>5 DEF TreeSound, KindsKept

LEMMA ModifySound ==
  ASSUME TreeSound, NEW p, tree' = [tree EXCEPT ![p].mtime = edits + 1]
  PROVE  DOMAIN tree' = DOMAIN tree /\ TreeSound' /\ KindsKept
<1>1. tree' = [tree EXCEPT ![p].mtime = edits + 1] OBVIOUS
<1>2. DOMAIN tree' = DOMAIN tree BY <1>1
<1>3. \A q \in DOMAIN tree : tree'[q].ino = tree[q].ino BY <1>1
<1> QED BY <1>2, <1>3 DEF TreeSound, KindsKept

LEMMA DeleteSound ==
  ASSUME TreeSound, NEW p \in Paths, Delete(p)
  PROVE  TreeSound' /\ KindsKept
<1>1. tree' = Drop(tree, {p}) /\ Children(p) \cap DOMAIN tree = {} BY DEF Delete, Edited
<1>2. DOMAIN tree' = DOMAIN tree \ {p} /\ \A q \in DOMAIN tree' : tree'[q] = tree[q] BY <1>1 DEF Drop
<1>3. ASSUME NEW q \in DOMAIN tree, q # Top PROVE DirOf(q) # p
  <2>1. q \in Subs \cup Files BY <1>3 DEF TreeSound, Paths
  <2> QED BY <1>1, <2>1 DEF Children
<1> QED BY <1>2, <1>3 DEF TreeSound, KindsKept

\* An entry that has none below it is renamed, over another that has none.
LEMMA RenameSound ==
  ASSUME TreeSound, NEW p \in Subs \cup Files, NEW q \in Subs \cup Files, p # q, p \in DOMAIN tree,
         DirOf(q) \in DOMAIN tree, DirOf(q) # p, \A r \in DOMAIN tree : r # Top => DirOf(r) # p,
         tree' = Set(Drop(tree, {p}), q, tree[p])
  PROVE  /\ DOMAIN tree' = (DOMAIN tree \ {p}) \cup {q} /\ tree'[q] = tree[p]
         /\ \A r \in DOMAIN tree \ {p, q} : tree'[r] = tree[r]
         /\ TreeSound'
<1>1. p # Top /\ q # Top
  <2>1. \A r \in Subs : r # Top BY DEF Subs, Top
  <2> QED BY <2>1, Kinds
<1>2. DOMAIN tree' = (DOMAIN tree \ {p}) \cup {q} BY DEF Set, Drop
<1>3. tree'[q] = tree[p] /\ \A r \in DOMAIN tree \ {p, q} : tree'[r] = tree[r] BY DEF Set, Drop
<1>4. \A r \in DOMAIN tree' : r # Top => DirOf(r) # p BY <1>2
<1>5. DOMAIN tree' \subseteq Paths BY <1>2 DEF TreeSound, Paths
<1>6. \A r \in DOMAIN tree' : r # Top => DirOf(r) \in DOMAIN tree' BY <1>2, <1>4 DEF TreeSound
<1>7. \A r \in DOMAIN tree' : tree'[r].ino = "top" <=> r = Top
  BY ZenonT(40), <1>1, <1>2, <1>3 DEF TreeSound
<1>8. \A r, t \in DOMAIN tree' : tree'[r].ino = tree'[t].ino => r = t
  <2> DEFINE was(r) == IF r = q THEN p ELSE r
  <2>1. \A r \in DOMAIN tree' : was(r) \in DOMAIN tree /\ tree'[r] = tree[was(r)] BY <1>2, <1>3
  <2>2. \A r, t \in DOMAIN tree' : was(r) = was(t) => r = t BY <1>2
  <2>3. \A r, t \in DOMAIN tree : tree[r].ino = tree[t].ino => r = t BY DEF TreeSound
  <2> HIDE DEF was
  <2> QED BY <2>1, <2>2, <2>3
<1> QED BY <1>2, <1>3, <1>5, <1>6, <1>7, <1>8 DEF TreeSound

LEMMA MoveSound ==
  ASSUME TreeSound, NEW p, NEW q, Move(p, q)
  PROVE  TreeSound' /\ KindsKept
<1>1. /\ p \in Files /\ q \in Files /\ p # q /\ p \in DOMAIN tree /\ DirOf(q) \in DOMAIN tree
      /\ tree' = Set(Drop(tree, {p}), q, tree[p])
  BY DEF Move, Edited, Exists
<1>2. DirOf(q) # p /\ \A r \in DOMAIN tree : r # Top => DirOf(r) # p
  <2>1. \A r \in DOMAIN tree : r \in Paths BY DEF TreeSound
  <2> QED BY <1>1, <2>1, Parents, Kinds DEF Paths
<1>3. /\ DOMAIN tree' = (DOMAIN tree \ {p}) \cup {q} /\ tree'[q] = tree[p]
      /\ \A r \in DOMAIN tree \ {p, q} : tree'[r] = tree[r]
      /\ TreeSound'
  BY <1>1, <1>2, RenameSound
<1>4. KindsKept
  <2> DEFINE was(r) == IF r = q THEN p ELSE r
  <2>1. \A r \in DOMAIN tree' : /\ was(r) \in DOMAIN tree /\ tree'[r] = tree[was(r)]
                                /\ was(r) \in Files <=> r \in Files
    BY <1>1, <1>3
  <2>2. \A r, t \in DOMAIN tree : tree[r].ino = tree[t].ino => r = t BY DEF TreeSound
  <2> HIDE DEF was
  <2> QED BY <2>1, <2>2 DEF KindsKept
<1> QED BY <1>3, <1>4

\* A renamed directory is what DescriptorsFresh excepts.
LEMMA MoveDirMoves ==
  ASSUME NEW p, NEW q, MoveDir(p, q)
  PROVE  ~SubsKept
<1>1. p \in Subs /\ q \in Subs /\ p \in DOMAIN tree /\ q \notin DOMAIN tree BY DEF MoveDir, Exists
<1>2. PICK d \in DirNames : q = <<d>> BY <1>1 DEF Subs
<1>3. PICK e \in DirNames : p = <<e>> BY <1>1 DEF Subs
<1>4. e # d /\ q[1] = d /\ p[1] = e /\ Len(q) = 1 BY <1>1, <1>2, <1>3
<1>5. Tail(q) = <<>> BY <1>2
<1>6. p \o <<>> = p BY <1>3
<1> DEFINE from(r) == IF Len(r) > 0 /\ r[1] = q[1] THEN p \o Tail(r) ELSE r
           there == {r \in Paths : from(r) \in DOMAIN tree /\ ~(Len(r) > 0 /\ r[1] = p[1])}
<1>7. tree' = [r \in there |-> tree[from(r)]] BY DEF MoveDir, Edited
<1>8. from(q) = p
  <2>1. Len(q) > 0 BY <1>4
  <2>2. from(q) = p \o Tail(q) BY <2>1, Zenon
  <2> QED BY <1>5, <1>6, <2>2, Zenon
<1>9. q \in there BY <1>1, <1>4, <1>8 DEF Paths
<1>10. q \in DOMAIN tree' /\ tree'[q] = tree[p] BY <1>7, <1>8, <1>9
<1> QED BY <1>1, <1>10 DEF SubsKept

\* What is moved with a directory keeps its name, and its place below it.
LEMMA MoveDirSound ==
  ASSUME TreeSound, NEW p, NEW q, MoveDir(p, q)
  PROVE  /\ TreeSound'
         /\ \A r \in DOMAIN tree' : r # Top =>
              \/ DirOf(r) = q
              \/ DirOf(r) # p /\ \E t \in DOMAIN tree \ {Top} : DirOf(t) = DirOf(r)
<1>1. p \in Subs /\ q \in Subs /\ p \in DOMAIN tree /\ q \notin DOMAIN tree BY DEF MoveDir, Exists
<1>2. PICK d \in DirNames : q = <<d>> BY <1>1 DEF Subs
<1>3. PICK e \in DirNames : p = <<e>> BY <1>1 DEF Subs
<1>4. e # d /\ q[1] = d /\ p[1] = e BY <1>1, <1>2, <1>3
<1> DEFINE from(r) == IF Len(r) > 0 /\ r[1] = q[1] THEN p \o Tail(r) ELSE r
           there == {r \in Paths : from(r) \in DOMAIN tree /\ ~(Len(r) > 0 /\ r[1] = p[1])}
           name(x) == IF x = d THEN e ELSE x
<1>5. tree' = [r \in there |-> tree[from(r)]] BY DEF MoveDir, Edited
<1>6. from(<<>>) = <<>> OBVIOUS
<1>7. ASSUME NEW x PROVE from(<<x>>) = <<name(x)>> /\ Len(<<x>>) > 0 /\ <<x>>[1] = x
  <2>1. Len(<<x>>) > 0 /\ <<x>>[1] = x /\ Tail(<<x>>) = <<>> OBVIOUS
  <2>2. p \o <<>> = <<e>> BY <1>3
  <2>3. CASE x = d
    <3>1. from(<<x>>) = p \o Tail(<<x>>) BY <1>4, <2>1, <2>3
    <3> QED BY <2>1, <2>2, <2>3, <3>1
  <2>4. CASE x # d BY <1>4, <2>1, <2>4
  <2> QED BY <2>3, <2>4
<1>8. ASSUME NEW x, NEW y PROVE from(<<x, y>>) = <<name(x), y>> /\ Len(<<x, y>>) > 0 /\ <<x, y>>[1] = x
  <2>1. Len(<<x, y>>) > 0 /\ <<x, y>>[1] = x /\ Tail(<<x, y>>) = <<y>> OBVIOUS
  <2>2. p \o <<y>> = <<e, y>> BY <1>3, Concat1
  <2>3. CASE x = d
    <3>1. from(<<x, y>>) = p \o Tail(<<x, y>>) BY <1>4, <2>1, <2>3
    <3> QED BY <2>1, <2>2, <2>3, <3>1
  <2>4. CASE x # d BY <1>4, <2>1, <2>4
  <2> QED BY <2>3, <2>4
<1> DEFINE Flatly(r, x) == r = <<x>> /\ from(r) = <<name(x)>> /\ x # e
           Deeply(r, x, y) == r = <<x, y>> /\ from(r) = <<name(x), y>> /\ x # e
<1>9. \A r \in there : r \in Paths /\ from(r) \in DOMAIN tree BY DEF there
<1>10. ASSUME NEW r \in there
       PROVE  r = Top \/ (\E x : Flatly(r, x)) \/ (\E x, y : Deeply(r, x, y))
  <2>1. ~(Len(r) > 0 /\ r[1] = e) BY <1>4 DEF there
  <2> HIDE DEF from, there, name
  <2>2. ASSUME NEW x, r = <<x>> PROVE Flatly(r, x) BY <1>7, <2>1, <2>2
  <2>3. ASSUME NEW x, NEW y, r = <<x, y>> PROVE Deeply(r, x, y) BY <1>8, <2>1, <2>3
  <2>4. r \in Paths BY <1>9
  <2> QED BY <2>2, <2>3, <2>4, PathShapes DEF Top
<1>11. \A x : name(x) = e => x \in {d, e} OBVIOUS
<1>12. \A x, y : x # e /\ y # e /\ name(x) = name(y) => x = y OBVIOUS
<1>13. name(d) = e /\ \A x : x # d => name(x) = x OBVIOUS
<1>14. Top \in there
  <2>1. p # Top /\ DirOf(p) = Top BY <1>3, ShortPath DEF Top
  <2>2. Top \in DOMAIN tree BY <1>1, <2>1 DEF TreeSound
  <2> QED BY <1>6, <2>2 DEF there, Top, Paths
<1>15. ASSUME NEW x, x # e, <<x>> \in Paths, <<name(x)>> \in DOMAIN tree PROVE <<x>> \in there
  BY <1>4, <1>7, <1>15 DEF there
<1> HIDE DEF from, there, name
<1>16. DOMAIN tree' = there /\ \A r \in there : tree'[r] = tree[from(r)] BY <1>5
<1>17. ASSUME NEW r \in there, r # Top PROVE DirOf(r) \in there
  <2>1. CASE \E x : Flatly(r, x) BY <1>14, <2>1, ShortPath
  <2>2. CASE \E x, y : Deeply(r, x, y)
    <3>1. PICK x, y : Deeply(r, x, y) BY <2>2
    <3>2. DirOf(r) = <<x>> /\ DirOf(from(r)) = <<name(x)>> BY <3>1, LongPath
    <3>3. from(r) # Top BY <3>1 DEF Top
    <3>4. <<name(x)>> \in DOMAIN tree BY <1>9, <3>2, <3>3 DEF TreeSound
    <3>5. <<x>> \in Paths BY <1>9, <1>17, <3>2, Parents DEF Paths
    <3> QED BY <1>15, <3>1, <3>2, <3>4, <3>5
  <2> QED BY <1>10, <1>17, <2>1, <2>2
<1>18. ASSUME NEW r \in there PROVE from(r) = Top <=> r = Top
  <2>1. \A x : <<x>> # Top BY DEF Top
  <2>2. \A x, y : <<x, y>> # Top BY DEF Top
  <2> QED BY <1>6, <1>10, <2>1, <2>2 DEF Top
<1>19. ASSUME NEW r \in there, NEW t \in there, from(r) = from(t) PROVE r = t
  <2>1. CASE r = Top \/ t = Top BY <1>18, <1>19, <2>1
  <2>2. CASE r # Top /\ t # Top
    <3>1. CASE \E x : Flatly(r, x)
      <4>1. PICK x : Flatly(r, x) BY <3>1
      <4>2. ASSUME NEW a, NEW b, Deeply(t, a, b) PROVE FALSE
        <5>1. <<name(x)>> = <<name(a), b>> BY <1>19, <4>1, <4>2
        <5> QED BY <5>1
      <4>3. PICK a : Flatly(t, a) BY <1>10, <2>2, <4>2
      <4>4. <<name(x)>> = <<name(a)>> BY <1>19, <4>1, <4>3
      <4>5. name(x) = name(a) BY <4>4
      <4> QED BY <1>12, <4>1, <4>3, <4>5
    <3>2. CASE \E x, y : Deeply(r, x, y)
      <4>1. PICK x, y : Deeply(r, x, y) BY <3>2
      <4>2. ASSUME NEW a, Flatly(t, a) PROVE FALSE
        <5>1. <<name(a)>> = <<name(x), y>> BY <1>19, <4>1, <4>2
        <5> QED BY <5>1
      <4>3. PICK a, b : Deeply(t, a, b) BY <1>10, <2>2, <4>2
      <4>4. <<name(x), y>> = <<name(a), b>> BY <1>19, <4>1, <4>3
      <4>5. name(x) = name(a) /\ y = b BY <4>4
      <4> QED BY <1>12, <4>1, <4>3, <4>5
    <3> QED BY <1>10, <2>2, <3>1, <3>2
  <2> QED BY <2>1, <2>2
<1>20. \A r \in there : from(r) \in DOMAIN tree /\ r \in Paths BY <1>9
<1>21. ASSUME NEW r \in there, r # Top, DirOf(r) # q
       PROVE  DirOf(r) # p /\ \E t \in DOMAIN tree \ {Top} : DirOf(t) = DirOf(r)
  <2>1. from(r) \in DOMAIN tree \ {Top} BY <1>18, <1>20, <1>21
  <2>2. CASE \E x : Flatly(r, x)
    <3>1. DirOf(r) = Top /\ DirOf(from(r)) = Top BY <2>2, ShortPath DEF Top
    <3>2. p # Top BY <1>3 DEF Top
    <3> QED BY <2>1, <3>1, <3>2
  <2>3. CASE \E x, y : Deeply(r, x, y)
    <3>1. PICK x, y : Deeply(r, x, y) BY <2>3
    <3>2. DirOf(r) = <<x>> /\ DirOf(from(r)) = <<name(x)>> BY <3>1, LongPath
    <3>3. x # d BY <1>2, <1>21, <3>2
    <3>4. name(x) = x /\ <<x>> # p BY <1>3, <1>13, <3>1, <3>3
    <3> QED BY <2>1, <3>2, <3>4
  <2> QED BY <1>10, <1>21, <2>2, <2>3
<1>22. TreeSound' BY <1>16, <1>17, <1>18, <1>19, <1>20 DEF TreeSound
<1> QED BY <1>16, <1>21, <1>22

LEMMA EditSound ==
  ASSUME TreeSound, Edit, SubsKept
  PROVE  TreeSound' /\ KindsKept
<1>1. ASSUME NEW p \in Paths, Create(p) \/ Modify(p) \/ Delete(p) PROVE TreeSound' /\ KindsKept
  <2>1. Modify(p) => tree' = [tree EXCEPT ![p].mtime = edits + 1] BY DEF Modify, Edited
  <2> QED BY <1>1, <2>1, CreateSound, ModifySound, DeleteSound
<1>2. ASSUME NEW p, NEW q, Move(p, q) PROVE TreeSound' /\ KindsKept BY <1>2, MoveSound
<1>3. ASSUME NEW p, NEW q, MoveDir(p, q) PROVE FALSE BY <1>3, MoveDirMoves
<1> QED BY <1>1, <1>2, <1>3 DEF Edit, Paths

-----------------------------------------------------------------------------
(* What the kernel notes on a descriptor.                                       *)

Here(t, i) == {p \in DOMAIN t : t[p].ino = i}
Entry(t, i) == {<<t[DirOf(p)].ino, p[Len(p)]>> : p \in Here(t, i) \ {Top}}

LEMMA NoteFacts ==
  ASSUME NEW d
  PROVE  /\ Note(d) \subseteq {"rename", "write", "delete"}
         /\ Here(tree', d.ino) = {} /\ Here(tree, d.ino) # {} => "delete" \in Note(d)
         /\ "rename" \in Note(d) <=>
              /\ Here(tree', d.ino) # {} /\ Here(tree, d.ino) # {}
              /\ Entry(tree', d.ino) # Entry(tree, d.ino)
BY Zenon DEF Note, Here, Entry

LEMMA SamePair ==
  ASSUME NEW a, NEW b, NEW c, NEW e, <<a, b>> \in {<<c, e>>}
  PROVE  a = c /\ b = e
OBVIOUS

\* Where no directory is renamed, a file's new name or directory shows in its entry.
LEMMA NoteRename ==
  ASSUME TreeSound, TreeSound', SubsKept, NEW d,
         NEW p \in DOMAIN tree, tree[p].ino = d.ino, NEW q \in DOMAIN tree', tree'[q].ino = d.ino, p # q
  PROVE  "rename" \in Note(d)
<1> DEFINE dp == DirOf(p)
           dq == DirOf(q)
<1>1. p # Top /\ q # Top BY DEF TreeSound
<1>2. p \in Paths \ {Top} /\ q \in Paths \ {Top} BY <1>1 DEF TreeSound
<1>3. dp \in DOMAIN tree /\ dq \in DOMAIN tree' /\ dp \in {Top} \cup Subs /\ dq \in {Top} \cup Subs
  BY <1>1, <1>2, Parents DEF TreeSound
<1>4. Here(tree, d.ino) = {p} /\ Here(tree', d.ino) = {q} BY DEF Here, TreeSound
<1>5. /\ Entry(tree, d.ino) = {<<tree[dp].ino, p[Len(p)]>>}
      /\ Entry(tree', d.ino) = {<<tree'[dq].ino, q[Len(q)]>>}
  BY <1>1, <1>4 DEF Entry
<1>6. ASSUME tree[dp].ino = tree'[dq].ino PROVE dp = dq
  <2>1. dp = Top <=> dq = Top BY <1>3, <1>6 DEF TreeSound
  <2> QED BY <1>3, <1>6, <2>1 DEF SubsKept
<1>7. ~(tree[dp].ino = tree'[dq].ino /\ p[Len(p)] = q[Len(q)]) BY <1>2, <1>6, OnePath
<1>8. Entry(tree', d.ino) # Entry(tree, d.ino)
  <2> SUFFICES ASSUME {<<tree[dp].ino, p[Len(p)]>>} = {<<tree'[dq].ino, q[Len(q)]>>} PROVE FALSE
    BY <1>5
  <2> DEFINE a == tree[dp].ino  b == p[Len(p)]  c == tree'[dq].ino  e == q[Len(q)]
  <2>1. <<a, b>> \in {<<a, b>>} OBVIOUS
  <2>2. {<<a, b>>} = {<<c, e>>} /\ ~(a = c /\ b = e) BY <1>7
  <2> HIDE DEF a, b, c, e
  <2>3. <<a, b>> \in {<<c, e>>} BY <2>1, <2>2, Zenon
  <2> QED BY <2>2, <2>3, SamePair
<1> QED BY <1>4, <1>8, NoteFacts

LEMMA NoteOfFile ==
  ASSUME TreeSound, TreeSound', SubsKept, KindsKept, NEW d, "rename" \in Note(d)
  PROVE  \E p \in DOMAIN tree : tree[p].ino = d.ino /\ p \in Files
<1>1. PICK p \in DOMAIN tree, q \in DOMAIN tree' : tree[p].ino = d.ino /\ tree'[q].ino = d.ino
  BY NoteFacts DEF Here
<1>2. Here(tree, d.ino) = {p} /\ Here(tree', d.ino) = {q} BY <1>1 DEF Here, TreeSound
<1>3. Entry(tree', d.ino) # Entry(tree, d.ino) BY NoteFacts
<1>4. p = Top <=> q = Top BY <1>1 DEF TreeSound
<1>5. p # Top /\ q # Top BY <1>2, <1>3, <1>4 DEF Entry
<1>6. SUFFICES ASSUME p \notin Files PROVE FALSE BY <1>1
<1>7. q \notin Files BY <1>1, <1>6 DEF KindsKept
<1>8. p \in Subs /\ q \in Subs BY <1>5, <1>6, <1>7 DEF TreeSound, Paths
<1>9. p = q BY <1>1, <1>8 DEF SubsKept
<1>10. DirOf(p) = Top BY <1>8, ShortPath DEF Subs
<1>11. tree[Top].ino = "top" /\ tree'[Top].ino = "top" BY <1>1, <1>5, <1>9, <1>10 DEF TreeSound
<1>12. Entry(tree, d.ino) = {<<"top", p[Len(p)]>>} /\ Entry(tree', d.ino) = {<<"top", p[Len(p)]>>}
  BY <1>2, <1>5, <1>9, <1>10, <1>11 DEF Entry
<1> QED BY <1>3, <1>12

-----------------------------------------------------------------------------
(* The invariant.                                                               *)

LEMMA KqInvInit == KqInit => KqInv
<1> SUFFICES ASSUME KqInit PROVE KqInv OBVIOUS
<1>1. /\ DOMAIN tree = {Top} /\ tree[Top].ino = "top"
      /\ DOMAIN desc = {1} /\ desc[1].path = Top /\ desc[1].ino = "top"
      /\ DOMAIN pending = {} /\ DOMAIN batch = {} /\ kpc = "control" /\ armed = {}
  <2>1. DOMAIN tree = {Top} /\ tree[Top].ino = "top" BY DEF KqInit, TreeInit
  <2>2. DOMAIN desc = {1} /\ desc[1].path = Top /\ desc[1].ino = "top" BY DEF KqInit
  <2>3. pending = <<>> /\ batch = <<>> /\ kpc = "control" /\ armed = {} BY DEF KqInit
  <2>4. DOMAIN pending = {} /\ DOMAIN batch = {} BY <2>3
  <2> QED BY <2>1, <2>2, <2>3, <2>4
<1>2. TreeSound BY <1>1 DEF TreeSound, Paths
<1>3. DescSound BY <1>1, Kinds DEF DescSound, Paths
<1>4. EventsSound(pending) /\ EventsSound(batch) BY <1>1 DEF EventsSound
<1>5. \A f \in DOMAIN desc : Tracked(f) BY <1>1 DEF Tracked, Fresh, Exists
<1> QED BY <1>1, <1>2, <1>3, <1>4, <1>5 DEF KqInv

\* What the kernel adds to the events that are still to be read.
LEMMA Merged ==
  ASSUME KqEdit
  PROVE  /\ DOMAIN pending' = DOMAIN pending \cup {f \in armed : Note(desc[f]) # {}}
         /\ \A f \in DOMAIN pending' :
              pending'[f].flags = (IF f \in DOMAIN pending THEN pending[f].flags ELSE {}) \cup Note(desc[f])
<1> DEFINE noted == {f \in armed : Note(desc[f]) # {}}
           before(f) == IF f \in DOMAIN pending THEN pending[f] ELSE [flags |-> {}, at |-> edits]
<1>1. pending' = [f \in DOMAIN pending \cup noted |-> [before(f) EXCEPT !.flags = @ \cup Note(desc[f])]]
  BY DEF KqEdit
<1> QED BY <1>1

LEMMA KqEditKeeps ==
  ASSUME KqInv, KqEdit
  PROVE  KqInv'
<1> SUFFICES ASSUME ~dirMoved' PROVE KqInv' BY DEF KqInv
<1>1. /\ Edit /\ kpc # "KeyError" /\ UNCHANGED <<desc, armed, batch, kpc>> /\ settled' = FALSE
      /\ late' = late \cup {f \in DOMAIN desc \ armed : Note(desc[f]) \cap {"delete", "rename"} # {}}
      /\ \A f \in DOMAIN desc : desc[f].ino \in Used \/ desc[f].ino \notin Used'
  BY DEF KqEdit
<1>2. ~dirMoved /\ SubsKept BY DEF KqEdit, SubsKept
<1>3. /\ TreeSound /\ DescSound /\ EventsSound(pending) /\ EventsSound(batch)
      /\ kpc \in {"control", "read", "snap", "open", "events"} /\ armed \subseteq DOMAIN desc
      /\ kpc \in {"control", "read"} => DOMAIN batch = {}
      /\ ~blurred => \A f \in DOMAIN desc : Tracked(f)
  BY <1>2 DEF KqInv
<1>4. TreeSound' /\ KindsKept BY <1>1, <1>2, <1>3, EditSound
<1>5. DescSound'
  <2>1. ASSUME NEW f \in DOMAIN desc, NEW q \in DOMAIN tree', tree'[q].ino = desc[f].ino
        PROVE  q \in Files <=> desc[f].path \in Files
    <3>1. desc[f].ino \in Used BY <1>1, <2>1 DEF Used
    <3>2. PICK p \in DOMAIN tree : tree[p].ino = desc[f].ino BY <3>1 DEF Used
    <3> QED BY <1>3, <1>4, <2>1, <3>2 DEF DescSound, KindsKept
  <2> QED BY <1>1, <1>3, <2>1 DEF DescSound
<1>6. EventsSound(pending)'
  <2>1. DOMAIN pending' \subseteq DOMAIN desc BY <1>3, Merged DEF EventsSound
  <2>2. ASSUME NEW f \in DOMAIN pending'
        PROVE  /\ pending'[f].flags \subseteq {"rename", "write", "delete"}
               /\ "rename" \in pending'[f].flags => desc[f].path \in Files
    <3>1. pending'[f].flags = (IF f \in DOMAIN pending THEN pending[f].flags ELSE {}) \cup Note(desc[f])
      BY <2>2, Merged
    <3>2. f \in DOMAIN pending =>
            /\ pending[f].flags \subseteq {"rename", "write", "delete"}
            /\ "rename" \in pending[f].flags => desc[f].path \in Files
      BY <1>3 DEF EventsSound
    <3>3. "rename" \in Note(desc[f]) => desc[f].path \in Files
      BY <1>2, <1>3, <1>4, <2>1, NoteOfFile DEF DescSound
    <3>4. Note(desc[f]) \subseteq {"rename", "write", "delete"} BY NoteFacts
    <3> QED BY <3>1, <3>2, <3>3, <3>4
  <2> QED BY <1>1, <2>1, <2>2 DEF EventsSound
<1>7. ASSUME ~blurred', NEW f \in DOMAIN desc PROVE Tracked(f)'
  <2>1. ~blurred /\ \A g \in DOMAIN pending' : pending'[g].flags # {"write", "delete"}
    BY <1>7 DEF KqEdit
  <2> DEFINE old == IF f \in DOMAIN pending THEN pending[f].flags ELSE {}
  <2>2. (f \in armed /\ Note(desc[f]) # {}) \/ f \in DOMAIN pending =>
          f \in DOMAIN pending' /\ pending'[f].flags = old \cup Note(desc[f])
    BY Merged
  <2> HIDE DEF old
  <2>3. ASSUME f \in DOMAIN pending', "rename" \in pending'[f].flags \/ "delete" \in pending'[f].flags
        PROVE  Closing(pending'[f])
    <3>1. pending'[f].flags \subseteq {"rename", "write", "delete"} BY <1>6, <2>3 DEF EventsSound
    <3>2. pending'[f].flags # {"write", "delete"} BY <2>1, <2>3
    <3> QED BY <2>3, <3>1, <3>2 DEF Closing
  <2>4. CASE f \in DOMAIN batch /\ Closing(batch[f]) BY <1>1, <2>4 DEF Tracked, Closing
  <2>5. CASE f \in DOMAIN pending /\ Closing(pending[f])
    <3>1. "rename" \in old \/ "delete" \in old BY <2>5 DEF old, Closing
    <3> QED BY <2>2, <2>3, <2>5, <3>1 DEF Tracked, Closing
  <2>a. CASE f \in late BY <1>1, <2>a DEF Tracked
  <2>b. ASSUME "rename" \in Note(desc[f]) \/ "delete" \in Note(desc[f]) PROVE Tracked(f)'
    <3>1. CASE f \in armed BY <2>2, <2>3, <2>b, <3>1 DEF Tracked, Closing
    <3>2. CASE f \notin armed BY <1>1, <1>7, <2>b, <3>2 DEF Tracked
    <3> QED BY <3>1, <3>2
  <2>6. CASE Fresh(f)
    <3> DEFINE p == desc[f].path
    <3>1. p \in DOMAIN tree /\ tree[p].ino = desc[f].ino BY <2>6 DEF Fresh, Exists
    <3>2. CASE \E q \in DOMAIN tree' : tree'[q].ino = desc[f].ino /\ q # p
      <4>1. "rename" \in Note(desc[f]) BY <1>2, <1>3, <1>4, <3>1, <3>2, NoteRename
      <4> QED BY <2>b, <4>1
    <3>3. CASE \A q \in DOMAIN tree' : tree'[q].ino # desc[f].ino
      <4>1. Here(tree', desc[f].ino) = {} /\ Here(tree, desc[f].ino) # {} BY <3>1, <3>3 DEF Here
      <4>2. "delete" \in Note(desc[f]) BY <4>1, NoteFacts
      <4> QED BY <2>b, <4>2
    <3>4. CASE p \in DOMAIN tree' /\ tree'[p].ino = desc[f].ino
      BY <1>1, <3>4 DEF Tracked, Fresh, Exists
    <3> QED BY <3>2, <3>3, <3>4
  <2>7. Tracked(f) BY <1>3, <2>1
  <2> QED BY <2>a, <2>4, <2>5, <2>6, <2>7 DEF Tracked
<1> QED BY <1>1, <1>3, <1>4, <1>5, <1>6, <1>7 DEF KqInv, EventsSound

LEMMA KqControlKeeps ==
  ASSUME KqInv, KqControl
  PROVE  KqInv'
<1> SUFFICES ASSUME ~dirMoved' PROVE KqInv' BY DEF KqInv
<1>1. /\ UNCHANGED <<tree, desc, pending, batch, settled, blurred, late>> /\ kpc = "control" /\ kpc' = "read"
      /\ armed' = DOMAIN desc /\ ~dirMoved
  BY DEF KqControl
<1>2. TreeSound' /\ DescSound' BY <1>1 DEF KqInv, TreeSound, DescSound
<1>3. EventsSound(pending)' /\ EventsSound(batch)' BY <1>1 DEF KqInv, EventsSound
<1>4. ~blurred' => \A f \in DOMAIN desc' : Tracked(f)'
  BY <1>1 DEF KqInv, Tracked, Fresh, Exists, Closing
<1> QED BY <1>1, <1>2, <1>3, <1>4 DEF KqInv

LEMMA KqReadKeeps ==
  ASSUME KqInv, KqRead
  PROVE  KqInv'
<1> SUFFICES ASSUME ~dirMoved' PROVE KqInv' BY DEF KqInv
<1>1. /\ UNCHANGED <<tree, desc, armed, blurred, late>> /\ batch' = pending /\ pending' = <<>> /\ kpc' = "snap"
      /\ kpc = "read" /\ ~dirMoved
  BY DEF KqRead
<1>2. DOMAIN pending' = {} BY <1>1
<1>3. /\ TreeSound /\ DescSound /\ EventsSound(pending) /\ DOMAIN batch = {} /\ armed \subseteq DOMAIN desc
      /\ ~blurred => \A f \in DOMAIN desc : Tracked(f)
  BY <1>1 DEF KqInv
<1>4. TreeSound' BY <1>1, <1>3 DEF TreeSound
<1>5. DescSound' BY <1>1, <1>3 DEF DescSound
<1>6. EventsSound(pending)' /\ EventsSound(batch)' BY <1>1, <1>2, <1>3 DEF EventsSound
<1>7. ~blurred' => \A f \in DOMAIN desc' : Tracked(f)'
  BY <1>1, <1>3 DEF Tracked, Fresh, Exists, Closing
<1> QED BY <1>1, <1>2, <1>3, <1>4, <1>5, <1>6, <1>7 DEF KqInv

\* What is opened is on a path that is there and had no descriptor; what was open stays.
LEMMA OpenedFacts ==
  ASSUME NEW d, NEW paths, NEW e \in Opened(d, paths)
  PROVE  /\ DOMAIN d \subseteq DOMAIN e
         /\ \A f \in DOMAIN d : e[f] = d[f]
         /\ \A f \in DOMAIN e \ DOMAIN d :
              /\ e[f].path \in paths /\ Exists(e[f].path) /\ e[f].ino = tree[e[f].path].ino
              /\ \A g \in DOMAIN d : d[g].path # e[f].path
         /\ \A f, g \in DOMAIN e \ DOMAIN d : e[f].path = e[g].path => f = g
<1> DEFINE opens == {p \in paths : Exists(p) /\ FdOf(d, p) = {}}
           free == Fds \ DOMAIN d
           lowest == {f \in free : Cardinality({g \in free : g < f}) < Cardinality(opens)}
<1>1. PICK at \in Bijection(lowest, opens) :
        e = [f \in DOMAIN d \cup lowest |->
               IF f \in DOMAIN d THEN d[f] ELSE [path |-> at[f], ino |-> tree[at[f]].ino]]
  BY DEF Opened
<1>2. lowest \cap DOMAIN d = {} OBVIOUS
<1> HIDE DEF lowest
<1>3. at \in [lowest -> opens] /\ \A f, g \in lowest : f # g => at[f] # at[g]
  <2> HIDE DEF opens
  <2>1. at \in Injection(lowest, opens) BY <1>1 DEF Bijection
  <2> QED BY <2>1 DEF Injection, IsInjective
<1>4. /\ DOMAIN e = DOMAIN d \cup lowest
      /\ \A f \in DOMAIN d : e[f] = d[f]
      /\ \A f \in lowest : e[f] = [path |-> at[f], ino |-> tree[at[f]].ino]
  BY <1>1, <1>2
<1>5. \A f \in lowest : e[f].path = at[f] /\ e[f].ino = tree[at[f]].ino BY <1>4
<1>6. \A f \in lowest : at[f] \in paths /\ Exists(at[f]) /\ FdOf(d, at[f]) = {} BY <1>3
<1>7. \A f \in DOMAIN e \ DOMAIN d : f \in lowest BY <1>4
<1> QED BY <1>3, <1>4, <1>5, <1>6, <1>7 DEF FdOf

\* Opening paths, for an unchanged tree: what is known of the descriptors stays so.
OpensOn(d, e) ==
  /\ DOMAIN d \subseteq DOMAIN e
  /\ \A f \in DOMAIN d : e[f] = d[f]
  /\ \A f \in DOMAIN e \ DOMAIN d :
       /\ Exists(e[f].path) /\ e[f].ino = tree[e[f].path].ino
       /\ \A g \in DOMAIN d : d[g].path # e[f].path
  /\ \A f, g \in DOMAIN e \ DOMAIN d : e[f].path = e[g].path => f = g

LEMMA OpensTwice ==
  ASSUME NEW d, NEW e, NEW h, OpensOn(d, e), OpensOn(e, h)
  PROVE  OpensOn(d, h)
BY DEF OpensOn

LEMMA OpenedOpensOn ==
  ASSUME NEW d, NEW paths, NEW e \in Opened(d, paths)
  PROVE  OpensOn(d, e)
BY OpenedFacts DEF OpensOn

\* Opening descriptors keeps what is known of them and of their events.
LEMMA OpeningKeeps ==
  ASSUME TreeSound, NEW d, OpensOn(d, desc'), UNCHANGED tree,
         \A f \in DOMAIN d : d[f].path \in Paths,
         \A f, g \in DOMAIN d : d[f].path = d[g].path => f = g,
         \A f \in DOMAIN d, p \in DOMAIN tree :
            tree[p].ino = d[f].ino => (p \in Files <=> d[f].path \in Files)
  PROVE  DescSound'
<1>1. \A f \in DOMAIN desc' \ DOMAIN d : desc'[f].path \in DOMAIN tree /\ desc'[f].ino = tree[desc'[f].path].ino
  BY DEF OpensOn, Exists
<1>2. \A f \in DOMAIN desc' : desc'[f].path \in Paths
  BY <1>1 DEF OpensOn, TreeSound
<1>3. \A f, g \in DOMAIN desc' : desc'[f].path = desc'[g].path => f = g
  BY DEF OpensOn
<1>4. ASSUME NEW f \in DOMAIN desc', NEW p \in DOMAIN tree, tree[p].ino = desc'[f].ino
      PROVE  p \in Files <=> desc'[f].path \in Files
  <2>1. CASE f \in DOMAIN d BY <1>4, <2>1 DEF OpensOn
  <2>2. CASE f \notin DOMAIN d BY <1>1, <1>4, <2>2 DEF TreeSound
  <2> QED BY <2>1, <2>2
<1> QED BY <1>2, <1>3, <1>4 DEF DescSound

LEMMA KqSnapshotKeeps ==
  ASSUME KqInv, KqSnapshot
  PROVE  KqInv'
<1> SUFFICES ASSUME ~dirMoved' PROVE KqInv' BY DEF KqInv
<1>1. UNCHANGED <<tree, desc, armed, pending, batch, settled, blurred, late>> /\ kpc' = "open" /\ ~dirMoved
  BY DEF KqSnapshot
<1>2. TreeSound' /\ DescSound' BY <1>1 DEF KqInv, TreeSound, DescSound
<1>3. EventsSound(pending)' /\ EventsSound(batch)' BY <1>1 DEF KqInv, EventsSound
<1>4. ~blurred' => \A f \in DOMAIN desc' : Tracked(f)'
  BY <1>1 DEF KqInv, Tracked, Fresh, Exists, Closing
<1> QED BY <1>1, <1>2, <1>3, <1>4 DEF KqInv

LEMMA KqOpenKeeps ==
  ASSUME KqInv, KqOpen
  PROVE  KqInv'
<1> SUFFICES ASSUME ~dirMoved' PROVE KqInv' BY DEF KqInv
<1>1. UNCHANGED <<tree, armed, pending, batch, settled, blurred, late>> /\ kpc' = "events" /\ ~dirMoved
  BY DEF KqOpen
<1>2. OpensOn(desc, desc')
  <2> DEFINE created == Diff(ref, new).created
  <2>1. PICK d \in Opened(desc, {p \in created : IsDir(p)}) : desc' \in Opened(d, {p \in created : ~IsDir(p)})
    BY DEF KqOpen
  <2> HIDE DEF created
  <2>2. OpensOn(desc, d) /\ OpensOn(d, desc') BY <2>1, OpenedOpensOn
  <2> QED BY <2>2, OpensTwice
<1>3. /\ TreeSound /\ DescSound /\ EventsSound(pending) /\ EventsSound(batch)
      /\ settled => DOMAIN pending = {}
      /\ armed \subseteq DOMAIN desc /\ armed \subseteq DOMAIN desc'
      /\ ~blurred => \A f \in DOMAIN desc : Tracked(f)
  BY <1>1, <1>2 DEF KqInv, OpensOn
<1>4. TreeSound' BY <1>1, <1>3 DEF TreeSound
<1>5. DescSound' BY <1>1, <1>2, <1>3, OpeningKeeps DEF DescSound
<1>6. EventsSound(pending)' /\ EventsSound(batch)' BY <1>1, <1>2, <1>3 DEF EventsSound, OpensOn
<1>7. ASSUME ~blurred', NEW f \in DOMAIN desc' PROVE Tracked(f)'
  <2>1. CASE f \in DOMAIN desc
    <3>1. Tracked(f) /\ desc'[f] = desc[f] BY <1>1, <1>2, <1>3, <1>7, <2>1 DEF OpensOn
    <3> QED BY <1>1, <3>1 DEF Tracked, Fresh, Exists, Closing
  <2>2. CASE f \notin DOMAIN desc BY <1>1, <1>2, <2>2 DEF OpensOn, Tracked, Fresh, Exists
  <2> QED BY <2>1, <2>2
<1> QED BY <1>1, <1>3, <1>4, <1>5, <1>6, <1>7 DEF KqInv

\* Handling the event of a descriptor closes that descriptor, or none: a renamed file has
\* nothing below it.
LEMMA ClosesOwn ==
  ASSUME DescSound, NEW fd \in DOMAIN desc, NEW kev,
         Noted(kev, "rename") => desc[fd].path \in Files
  PROVE  LET path == desc[fd].path
             pairs == IF Noted(kev, "rename") THEN MovedPairs(path) ELSE {}
             stays == Noted(kev, "write") /\ ~Noted(kev, "rename")
         IN  Closed(desc, IF stays THEN {} ELSE {path} \cup {m[1] : m \in pairs})
               = IF stays THEN {} ELSE {fd}
<1> DEFINE path == desc[fd].path
           pairs == IF Noted(kev, "rename") THEN MovedPairs(path) ELSE {}
           stays == Noted(kev, "write") /\ ~Noted(kev, "rename")
           sources == {m[1] : m \in pairs}
<1>1. Closed(desc, {}) = {} BY DEF Closed
<1>2. FdOf(desc, path) = {fd} BY DEF FdOf, DescSound
<1>3. \A r \in sources : r = path \/ r \notin Paths
  <2>1. CASE ~Noted(kev, "rename") BY <2>1
  <2>2. CASE Noted(kev, "rename")
    <3>1. path \in Files BY <2>2
    <3>2. pairs = MovedPairs(path) BY <2>2
    <3> HIDE DEF path, pairs
    <3>3. ASSUME NEW m \in MovedPairs(path) PROVE m[1] = path \/ \E x : m[1] = path \o <<x>>
      <4>1. \/ \E q : m = <<path, q>>
            \/ \E c : m = <<path \o <<c[Len(c)]>>, c>>
        BY Zenon DEF MovedPairs
      <4>2. CASE \E q : m = <<path, q>> BY <4>2
      <4>3. ASSUME NEW c, m = <<path \o <<c[Len(c)]>>, c>> PROVE \E x : m[1] = path \o <<x>>
        <5>1. m[1] = path \o <<c[Len(c)]>> BY <4>3
        <5> QED BY <5>1, Zenon
      <4> QED BY <4>1, <4>2, <4>3
    <3> QED BY <3>1, <3>2, <3>3, NothingBelow
  <2> QED BY <2>1, <2>2
<1>4. \A r : r \notin Paths => FdOf(desc, r) = {} BY DEF FdOf, DescSound
<1>5. Closed(desc, {path} \cup sources) = {fd}
  <2> HIDE DEF path, sources
  <2> QED BY <1>2, <1>3, <1>4 DEF Closed
<1> QED BY <1>1, <1>5

LEMMA KqEventKeeps ==
  ASSUME KqInv, KqEvent
  PROVE  KqInv'
<1> SUFFICES ASSUME ~dirMoved' PROVE KqInv' BY DEF KqInv
<1>1. UNCHANGED <<tree, settled, blurred>> /\ kpc = "events" /\ ~dirMoved
  BY DEF KqEvent
<1>2. /\ TreeSound /\ DescSound /\ EventsSound(pending) /\ EventsSound(batch)
      /\ (settled => DOMAIN pending = {}) /\ armed \subseteq DOMAIN desc
      /\ ~blurred => \A f \in DOMAIN desc : Tracked(f)
  BY <1>1 DEF KqInv
<1>3. PICK fd, gone, opens :
        /\ fd \in DOMAIN batch
        /\ gone = IF Noted(batch[fd], "write") /\ ~Noted(batch[fd], "rename") THEN {} ELSE {fd}
        /\ desc' \in Opened(Drop(desc, gone), opens) /\ pending' = Drop(pending, gone)
        /\ batch' = Drop(batch, {fd}) /\ kpc' = kpc /\ armed' = armed \ gone /\ late' = late \ gone
  <2> DEFINE kev(fd) == batch[fd]
             path(fd) == desc[fd].path
             pairs(fd) == IF Noted(kev(fd), "rename") THEN MovedPairs(path(fd)) ELSE {}
             stays(fd) == Noted(kev(fd), "write") /\ ~Noted(kev(fd), "rename")
             gone(fd) == Closed(desc, IF stays(fd) THEN {} ELSE {path(fd)} \cup {m[1] : m \in pairs(fd)})
             opens(fd) == {m[2] : m \in pairs(fd)}
  <2>1. PICK fd \in DOMAIN batch :
          IF fd \notin DOMAIN desc THEN kpc' = "KeyError" /\ UNCHANGED <<desc, armed, pending, batch, late>>
          ELSE /\ desc' \in Opened(Drop(desc, gone(fd)), opens(fd))
               /\ pending' = Drop(pending, gone(fd)) /\ armed' = armed \ gone(fd) /\ late' = late \ gone(fd)
               /\ batch' = Drop(batch, {fd}) /\ UNCHANGED kpc
    BY DEF KqEvent
  <2>2. fd \in DOMAIN desc /\ (Noted(kev(fd), "rename") => desc[fd].path \in Files)
    BY <1>2 DEF EventsSound, Noted
  <2>3. gone(fd) = IF stays(fd) THEN {} ELSE {fd} BY <1>2, <2>2, ClosesOwn
  <2> HIDE DEF gone, opens
  <2> QED BY <2>1, <2>2, <2>3
<1> DEFINE d == Drop(desc, gone)
<1>4. DOMAIN d = DOMAIN desc \ gone /\ \A f \in DOMAIN d : d[f] = desc[f] BY DEF Drop
<1>5. OpensOn(d, desc') BY <1>3, OpenedOpensOn
<1> HIDE DEF d
<1>6. DOMAIN pending' = DOMAIN pending \ gone /\ \A f \in DOMAIN pending' : pending'[f] = pending[f]
  BY <1>3 DEF Drop
<1>7. DOMAIN batch' = DOMAIN batch \ {fd} /\ \A f \in DOMAIN batch' : batch'[f] = batch[f]
  BY <1>3 DEF Drop
<1>8. gone \subseteq {fd} BY <1>3
<1>9. TreeSound' BY <1>1, <1>2 DEF TreeSound
<1>10. DescSound'
  <2>1. /\ \A f \in DOMAIN d : d[f].path \in Paths
        /\ \A f, g \in DOMAIN d : d[f].path = d[g].path => f = g
        /\ \A f \in DOMAIN d, p \in DOMAIN tree :
             tree[p].ino = d[f].ino => (p \in Files <=> d[f].path \in Files)
    BY <1>2, <1>4 DEF DescSound
  <2> QED BY <1>1, <1>2, <1>5, <2>1, OpeningKeeps
<1>11. \A f \in DOMAIN desc \ gone : f \in DOMAIN desc' /\ desc'[f] = desc[f]
  BY <1>4, <1>5 DEF OpensOn
<1>12. EventsSound(pending)' /\ EventsSound(batch)'
  BY <1>2, <1>6, <1>7, <1>8, <1>11 DEF EventsSound
<1>13. ASSUME ~blurred', NEW f \in DOMAIN desc' PROVE Tracked(f)'
  <2>1. CASE f \in DOMAIN d
    <3>1. f \in DOMAIN desc /\ f \notin gone /\ desc'[f] = desc[f] BY <1>4, <1>11, <2>1
    <3>2. Tracked(f) BY <1>1, <1>2, <1>13, <3>1
    <3>3. CASE Fresh(f) BY <1>1, <3>1, <3>3 DEF Tracked, Fresh, Exists
    <3>a. CASE f \in late BY <1>3, <3>1, <3>a DEF Tracked
    <3>4. CASE f \in DOMAIN pending /\ Closing(pending[f])
      <4>1. f \in DOMAIN pending' /\ pending'[f] = pending[f] BY <1>6, <3>1, <3>4
      <4> QED BY <3>4, <4>1 DEF Tracked, Closing
    <3>5. CASE f \in DOMAIN batch /\ Closing(batch[f])
      <4>1. f # fd BY <1>3, <3>1, <3>5 DEF Closing, Noted
      <4>2. f \in DOMAIN batch' /\ batch'[f] = batch[f] BY <1>7, <3>5, <4>1
      <4> QED BY <3>5, <4>2 DEF Tracked, Closing
    <3> QED BY <3>2, <3>3, <3>a, <3>4, <3>5 DEF Tracked
  <2>2. CASE f \notin DOMAIN d BY <1>1, <1>5, <2>2 DEF OpensOn, Tracked, Fresh, Exists
  <2> QED BY <2>1, <2>2
<1>14. armed' \subseteq DOMAIN desc' BY <1>2, <1>3, <1>11
<1> QED BY <1>1, <1>2, <1>3, <1>6, <1>9, <1>10, <1>12, <1>13, <1>14 DEF KqInv

LEMMA KqDoneKeeps ==
  ASSUME KqInv, KqDone
  PROVE  KqInv'
<1> SUFFICES ASSUME ~dirMoved' PROVE KqInv' BY DEF KqInv
<1>1. /\ UNCHANGED <<tree, desc, armed, pending, batch, settled, blurred, late>>
      /\ DOMAIN batch = {} /\ kpc' = "control" /\ ~dirMoved
  BY DEF KqDone
<1>2. TreeSound' /\ DescSound' BY <1>1 DEF KqInv, TreeSound, DescSound
<1>3. EventsSound(pending)' /\ EventsSound(batch)' BY <1>1 DEF KqInv, EventsSound
<1>4. ~blurred' => \A f \in DOMAIN desc' : Tracked(f)'
  BY <1>1 DEF KqInv, Tracked, Fresh, Exists, Closing
<1> QED BY <1>1, <1>2, <1>3, <1>4 DEF KqInv

LEMMA KqInvIdle ==
  ASSUME KqInv, UNCHANGED <<system, tree, edits, kqVars>>
  PROVE  KqInv'
<1>1. UNCHANGED <<tree, desc, armed, pending, batch, settled, dirMoved, blurred, late, kpc>> BY DEF kqVars
<1> SUFFICES ASSUME ~dirMoved PROVE KqInv' BY <1>1 DEF KqInv
<1>2. TreeSound' /\ DescSound' BY <1>1 DEF KqInv, TreeSound, DescSound
<1>3. EventsSound(pending)' /\ EventsSound(batch)' BY <1>1 DEF KqInv, EventsSound
<1>4. ~blurred' => \A f \in DOMAIN desc' : Tracked(f)'
  BY <1>1 DEF KqInv, Tracked, Fresh, Exists, Closing
<1> QED BY <1>1, <1>2, <1>3, <1>4 DEF KqInv

\* A descriptor is on what is at its path, or an event that closes it is on its way; events
\* are for descriptors that are open, whatever is closed and opened while they are handled.
THEOREM KqInvariant == KqSpec => []KqInv
<1>1. KqInv /\ [KqNext /\ UNCHANGED system]_<<system, tree, edits, kqVars>> => KqInv'
  BY KqEditKeeps, KqControlKeeps, KqReadKeeps, KqSnapshotKeeps, KqOpenKeeps, KqEventKeeps, KqDoneKeeps, KqInvIdle DEF KqNext
<1> QED BY <1>1, KqInvInit, PTL DEF KqSpec

\* The emitter does not die of an event for a descriptor it closed, and once it has handled
\* all events after the last change, no descriptor is left on a file that is not at its path;
\* a renamed directory is excepted, a file written and deleted between two reads, and one that
\* went after os.open, before the kernel was told to watch its descriptor.
THEOREM KqFresh == KqSpec => []DescriptorsFresh
<1>1. KqInv => DescriptorsFresh
  <2> SUFFICES ASSUME KqInv, ~dirMoved PROVE DescriptorsFresh
    BY DEF DescriptorsFresh
  <2>1. kpc # "KeyError" BY DEF KqInv
  <2>2. ASSUME kpc \in {"control", "read"}, settled, ~blurred, NEW f \in DOMAIN desc \ late PROVE Fresh(f)
    BY <2>2 DEF KqInv, Tracked
  <2> QED BY <2>1, <2>2 DEF DescriptorsFresh, Fresh
<1> QED BY <1>1, KqInvariant, PTL

-----------------------------------------------------------------------------
(* Polling.                                                                     *)

\* the inode map leads to a path of the snapshot, and knows the inode of every path
SnapSound(s) ==
  /\ SnapPaths(s) \subseteq Paths
  /\ \A i \in DOMAIN s.at : s.at[i] \in SnapPaths(s) /\ InodeOf(s, s.at[i]) = i
  /\ \A p \in SnapPaths(s) : InodeOf(s, p) \in DOMAIN s.at

Seen(p) == p \in SnapPaths(walk)

\* the calls that are to come: no path is stat'd again, an entry is stat'd after its directory
TodoSound ==
  /\ todo \subseteq {"list", "stat"} \X Paths
  /\ \A p \in Paths : <<"list", p>> \in todo => Seen(p)
  /\ \A p \in Paths : <<"stat", p>> \in todo => p # Top /\ ~Seen(p)
  /\ \A p \in Paths : p # Top /\ (Seen(p) \/ <<"stat", p>> \in todo) =>
       Seen(DirOf(p)) /\ <<"list", DirOf(p)>> \notin todo
  /\ walk = EmptySnapshot \/ Seen(Top)

Current(s) == \A p \in SnapPaths(s) : Exists(p) /\ InodeOf(s, p) = tree[p].ino

\* an entry the walk has seen or is going to, unless it has yet to see its directory
Coming(p) == Seen(p) \/ <<"stat", p>> \in todo \/ <<"list", DirOf(p)>> \in todo \/ ~Seen(DirOf(p))

\* a file that moved under the walk can be in the snapshot under two names
Twice(s, p) == \E q \in SnapPaths(s) : q # p /\ InodeOf(s, q) = InodeOf(s, p)

\* a handler knows of no file that is not in the snapshot, and of one name at least of each that is
Follows(v, s) == v \subseteq SnapPaths(s) /\ \A p \in SnapPaths(s) \ v : Twice(s, p)

PollInv ==
  /\ TreeSound /\ SnapSound(snapshot) /\ SnapSound(walk) /\ TodoSound
  /\ fresh /\ walk # EmptySnapshot => Current(walk) /\ \A p \in DOMAIN tree \ {Top} : Coming(p)
  /\ fresh /\ Idle => SnapPaths(snapshot) = DOMAIN tree /\ Current(snapshot)
  /\ emitter = "run" /\ ~tangled => Follows(view, snapshot)
  /\ \A p \in DOMAIN tree \ {Top} : DirOf(p) \in dirs

LEMMA NothingSeen == SnapPaths(EmptySnapshot) = {} /\ SnapSound(EmptySnapshot)
BY DEF EmptySnapshot, SnapPaths, SnapSound

\* An entry that is stat'd for the first time is in the snapshot, the others stay.
LEMMA Added ==
  ASSUME NEW s, SnapSound(s), NEW p \in Paths, p \notin SnapPaths(s), NEW st
  PROVE  /\ SnapSound(AddEntry(s, p, st)) /\ SnapPaths(AddEntry(s, p, st)) = SnapPaths(s) \cup {p}
         /\ AddEntry(s, p, st) # EmptySnapshot
         /\ InodeOf(AddEntry(s, p, st), p) = st.ino
         /\ \A q \in SnapPaths(s) : InodeOf(AddEntry(s, p, st), q) = InodeOf(s, q)
<1> DEFINE n == AddEntry(s, p, st)
<1>1. n.stat = Set(s.stat, p, st) /\ n.at = Set(s.at, st.ino, p) BY DEF AddEntry
<1>2. SnapPaths(n) = SnapPaths(s) \cup {p} BY <1>1 DEF SnapPaths, Set
<1>3. InodeOf(n, p) = st.ino /\ \A q \in SnapPaths(s) : InodeOf(n, q) = InodeOf(s, q)
  BY <1>1 DEF InodeOf, SnapPaths, Set
<1>4. DOMAIN n.at = DOMAIN s.at \cup {st.ino} /\ n.at[st.ino] = p
      /\ \A i \in DOMAIN s.at \ {st.ino} : n.at[i] = s.at[i]
  BY <1>1 DEF Set
<1> HIDE DEF n
<1>5. n # EmptySnapshot BY <1>2, NothingSeen
<1>6. SnapSound(n) BY <1>2, <1>3, <1>4 DEF SnapSound
<1> QED BY <1>2, <1>3, <1>5, <1>6 DEF n

\* What DirectorySnapshotDiff finds: an entry that is gone, or that is now another file, is
\* deleted or moved from, one that is new is created or moved to, and a move keeps its inode.
Gone(r, n, p) == p \in SnapPaths(r) /\ (p \in SnapPaths(n) => InodeOf(r, p) # InodeOf(n, p))

LEMMA DiffFacts ==
  ASSUME NEW r, NEW n, SnapSound(r), SnapSound(n)
  PROVE  LET d == Diff(r, n)
         IN  /\ \A p \in d.created : Gone(n, r, p)
             /\ \A p \in d.deleted : Gone(r, n, p)
             /\ \A p : Gone(n, r, p) => p \in d.created \/ \E m \in d.moved : m[2] = p
             /\ \A p : Gone(r, n, p) => p \in d.deleted \/ \E m \in d.moved : m[1] = p
             /\ \A p : Gone(r, n, p) /\ InodeOf(r, p) \in DOMAIN n.at =>
                  \E m \in d.moved : m[1] = p
             /\ \A m \in d.moved : /\ m[1] \in SnapPaths(r) /\ m[2] \in SnapPaths(n)
                                   /\ InodeOf(r, m[1]) = InodeOf(n, m[2])
                                   /\ Gone(r, n, m[1]) \/ Gone(n, r, m[2])
<1> DEFINE d == Diff(r, n)
           common == SnapPaths(r) \cap SnapPaths(n)
           replaced == {p \in common : InodeOf(r, p) # InodeOf(n, p)}
           C == (SnapPaths(n) \ SnapPaths(r)) \cup replaced
           D == (SnapPaths(r) \ SnapPaths(n)) \cup replaced
           from == UNION {{<<p, q>> : q \in PathOf(n, InodeOf(r, p))} : p \in D}
           to == UNION {{<<q, p>> : q \in PathOf(r, InodeOf(n, p))} : p \in C}
<1>1. /\ d.created = {p \in C : PathOf(r, InodeOf(n, p)) = {}}
      /\ d.deleted = {p \in D : PathOf(n, InodeOf(r, p)) = {}}
      /\ d.moved = from \cup to
  BY Zenon DEF Diff
<1>2. \A p : (p \in C <=> Gone(n, r, p)) /\ (p \in D <=> Gone(r, n, p)) BY DEF Gone
<1>3. \A s, i : (i \in DOMAIN s.at => PathOf(s, i) = {s.at[i]}) /\ (i \notin DOMAIN s.at => PathOf(s, i) = {})
  BY DEF PathOf
<1> HIDE DEF d, C, D
<1>4. ASSUME NEW m \in from
      PROVE  m[1] \in D /\ m[2] \in SnapPaths(n) /\ InodeOf(n, m[2]) = InodeOf(r, m[1])
  <2>1. PICK p \in D : \E q \in PathOf(n, InodeOf(r, p)) : m = <<p, q>> OBVIOUS
  <2> PICK q \in PathOf(n, InodeOf(r, p)) : m = <<p, q>> BY <2>1
  <2>2. q \in SnapPaths(n) /\ InodeOf(n, q) = InodeOf(r, p) BY <1>3, <2>1 DEF SnapSound
  <2> QED BY <2>1, <2>2
<1>5. ASSUME NEW m \in to
      PROVE  m[2] \in C /\ m[1] \in SnapPaths(r) /\ InodeOf(r, m[1]) = InodeOf(n, m[2])
  <2>1. PICK p \in C : \E q \in PathOf(r, InodeOf(n, p)) : m = <<q, p>> OBVIOUS
  <2> PICK q \in PathOf(r, InodeOf(n, p)) : m = <<q, p>> BY <2>1
  <2>2. q \in SnapPaths(r) /\ InodeOf(r, q) = InodeOf(n, p) BY <1>3, <2>1 DEF SnapSound
  <2> QED BY <2>1, <2>2
<1>6. ASSUME NEW p \in D, PathOf(n, InodeOf(r, p)) # {} PROVE \E m \in from : m[1] = p
  <2>1. PICK q \in PathOf(n, InodeOf(r, p)) : TRUE BY <1>6
  <2>2. <<p, q>> \in from /\ <<p, q>>[1] = p BY <2>1
  <2> QED BY <2>2
<1>7. ASSUME NEW p \in C, PathOf(r, InodeOf(n, p)) # {} PROVE \E m \in to : m[2] = p
  <2>1. PICK q \in PathOf(r, InodeOf(n, p)) : TRUE BY <1>7
  <2>2. <<q, p>> \in to /\ <<q, p>>[2] = p BY <2>1
  <2> QED BY <2>2
<1>8. \A p \in D : p \in SnapPaths(r) BY DEF D
<1>9. \A p \in C : p \in SnapPaths(n) BY DEF C
<1> HIDE DEF from, to
<1>10. \A p : Gone(n, r, p) => p \in d.created \/ \E m \in d.moved : m[2] = p
  BY <1>1, <1>2, <1>7
<1>11. \A p : Gone(r, n, p) => p \in d.deleted \/ \E m \in d.moved : m[1] = p
  BY <1>1, <1>2, <1>6
<1>12. \A p : Gone(r, n, p) /\ InodeOf(r, p) \in DOMAIN n.at => \E m \in d.moved : m[1] = p
  BY <1>1, <1>2, <1>3, <1>6
<1>13. \A m \in d.moved : /\ m[1] \in SnapPaths(r) /\ m[2] \in SnapPaths(n)
                          /\ InodeOf(r, m[1]) = InodeOf(n, m[2])
                          /\ Gone(r, n, m[1]) \/ Gone(n, r, m[2])
  BY <1>1, <1>2, <1>4, <1>5, <1>8, <1>9
<1>14. (\A p \in d.created : Gone(n, r, p)) /\ (\A p \in d.deleted : Gone(r, n, p)) BY <1>1, <1>2
<1> QED BY <1>10, <1>11, <1>12, <1>13, <1>14 DEF d

\* A difference d in two parts, f for the files and h for the directories.
Parts(d, f, h) == /\ d.created = f.created \cup h.created /\ d.deleted = f.deleted \cup h.deleted
                  /\ d.moved = f.moved \cup h.moved

Outcome(d, v, p) ==
  \/ p \in d.created \/ \E m \in d.moved : m[2] = p
  \/ p \in v /\ p \notin d.deleted /\ ~\E m \in d.moved : m[1] = p

\* Where they do not tangle, the order of the moves and that of the parts make no difference.
LEMMA FollowedBoth ==
  ASSUME NEW d, NEW f, NEW h, Parts(d, f, h), ~Tangles(d, f, h),
         NEW v, NEW u \in Followed(v, f), NEW w \in Followed(u, h)
  PROVE  \A p : p \in w <=> Outcome(d, v, p)
<1> DEFINE from(e) == {m[1] : m \in e.moved}
           to(e) == {m[2] : m \in e.moved}
<1>1. from(d) = from(f) \cup from(h) /\ to(d) = to(f) \cup to(h) BY DEF Parts
<1>2. /\ from(d) \cap (d.created \cup to(d)) = {}
      /\ h.deleted \cap (f.created \cup to(f)) = {}
  BY DEF Tangles
<1>3. ASSUME NEW e \in {f, h}, NEW x, NEW y \in Followed(x, e)
      PROVE  \A p : p \in y <=> \/ p \in e.created \/ p \in to(e)
                                \/ p \in x /\ p \notin e.deleted /\ p \notin from(e)
  <2> DEFINE known == (x \ e.deleted) \cup e.created
  <2>1. PICK both \in SUBSET (from(e) \cap to(e)) :
          y = (known \ from(e)) \cup (to(e) \ from(e)) \cup both
    BY DEF Followed
  <2>2. from(e) \cap (e.created \cup to(e)) = {} BY <1>1, <1>2 DEF Parts
  <2> HIDE DEF from, to
  <2> QED BY <2>1, <2>2
<1>4. \A p : p \in d.deleted <=> p \in f.deleted \/ p \in h.deleted BY DEF Parts
<1>5. \A p : p \in d.created <=> p \in f.created \/ p \in h.created BY DEF Parts
<1>6. ASSUME NEW p
      PROVE  Outcome(d, v, p) <=> \/ p \in d.created \/ p \in to(d)
                                  \/ p \in v /\ p \notin d.deleted /\ p \notin from(d)
  <2>1. (p \in to(d) <=> \E m \in d.moved : m[2] = p) /\ (p \in from(d) <=> \E m \in d.moved : m[1] = p)
    OBVIOUS
  <2>2. Outcome(d, v, p) <=> \/ p \in d.created \/ (\E m \in d.moved : m[2] = p)
                             \/ p \in v /\ p \notin d.deleted /\ ~(\E m \in d.moved : m[1] = p)
    BY DEF Outcome
  <2> HIDE DEF from, to
  <2> QED BY <2>1, <2>2, Zenon
<1> HIDE DEF from, to
<1>7. ASSUME NEW p
      PROVE  p \in w <=> \/ p \in d.created \/ p \in to(d)
                         \/ p \in v /\ p \notin d.deleted /\ p \notin from(d)
  <2>1. p \in u <=> \/ p \in f.created \/ p \in to(f)
                    \/ p \in v /\ p \notin f.deleted /\ p \notin from(f)
    BY <1>3
  <2>2. p \in w <=> \/ p \in h.created \/ p \in to(h)
                    \/ p \in u /\ p \notin h.deleted /\ p \notin from(h)
    BY <1>3
  <2>3. /\ p \in from(d) <=> p \in from(f) \/ p \in from(h)
        /\ p \in to(d) <=> p \in to(f) \/ p \in to(h)
        /\ ~(p \in from(d) /\ (p \in d.created \/ p \in to(d)))
        /\ ~(p \in h.deleted /\ (p \in f.created \/ p \in to(f)))
    BY <1>1, <1>2
  <2> QED BY <1>4, <1>5, <2>1, <2>2, <2>3
<1> QED BY <1>6, <1>7, Zenon

\* A handler that follows one snapshot follows the next by the events of the difference.
LEMMA FollowedOn ==
  ASSUME NEW r, NEW n, SnapSound(r), SnapSound(n), NEW v, Follows(v, r), NEW f, NEW h,
         Parts(Diff(r, n), f, h), ~Tangles(Diff(r, n), f, h),
         NEW u \in Followed(v, f), NEW w \in Followed(u, h)
  PROVE  Follows(w, n)
<1> DEFINE d == Diff(r, n)
<1>1. /\ \A p \in d.created : Gone(n, r, p)
      /\ \A p \in d.deleted : Gone(r, n, p)
      /\ \A p : Gone(n, r, p) => p \in d.created \/ \E m \in d.moved : m[2] = p
      /\ \A p : Gone(r, n, p) => p \in d.deleted \/ \E m \in d.moved : m[1] = p
      /\ \A p : Gone(r, n, p) /\ InodeOf(r, p) \in DOMAIN n.at => \E m \in d.moved : m[1] = p
      /\ \A m \in d.moved : /\ m[1] \in SnapPaths(r) /\ m[2] \in SnapPaths(n)
                            /\ InodeOf(r, m[1]) = InodeOf(n, m[2])
                            /\ Gone(r, n, m[1]) \/ Gone(n, r, m[2])
  BY DiffFacts
<1> HIDE DEF d
<1>3. \A p : p \in w <=> Outcome(d, v, p)
  <2>1. Parts(d, f, h) /\ ~Tangles(d, f, h) BY DEF d
  <2> QED BY <2>1, FollowedBoth, Zenon
<1>4. ASSUME NEW p \in w PROVE p \in SnapPaths(n)
  <2>1. CASE p \in v /\ p \notin d.deleted /\ ~\E m \in d.moved : m[1] = p
    <3>1. p \in SnapPaths(r) /\ ~Gone(r, n, p) BY <1>1, <2>1 DEF Follows
    <3> QED BY <3>1 DEF Gone
  <2> QED BY <1>1, <1>3, <2>1 DEF Gone, Outcome
<1>5. ASSUME NEW p \in SnapPaths(n), p \notin w PROVE Twice(n, p)
  <2>1. ~Gone(n, r, p) BY <1>1, <1>3, <1>5 DEF Outcome
  <2>2. p \in SnapPaths(r) /\ InodeOf(r, p) = InodeOf(n, p) BY <1>5, <2>1 DEF Gone
  <2>3. ~Gone(r, n, p) /\ p \notin d.deleted BY <1>1, <1>5, <2>2 DEF Gone
  <2>4. CASE \E m \in d.moved : m[1] = p
    <3>1. PICK m \in d.moved : m[1] = p BY <2>4
    <3>2. Gone(n, r, m[2]) /\ m[2] \in SnapPaths(n) /\ InodeOf(n, m[2]) = InodeOf(n, p)
      BY <1>1, <2>2, <2>3, <3>1
    <3>3. m[2] # p BY <2>1, <3>2
    <3> QED BY <3>2, <3>3 DEF Twice
  <2>5. CASE p \notin v
    <3>1. PICK q \in SnapPaths(r) : q # p /\ InodeOf(r, q) = InodeOf(r, p)
      BY <2>2, <2>5 DEF Follows, Twice
    <3>2. CASE ~Gone(r, n, q)
      <4>1. q \in SnapPaths(n) /\ InodeOf(n, q) = InodeOf(n, p) BY <2>2, <3>1, <3>2 DEF Gone
      <4> QED BY <3>1, <4>1 DEF Twice
    <3>3. CASE Gone(r, n, q)
      <4>1. InodeOf(r, q) \in DOMAIN n.at BY <1>5, <2>2, <3>1 DEF SnapSound
      <4>2. PICK m \in d.moved : m[1] = q BY <1>1, <3>3, <4>1
      <4>3. m[2] \in SnapPaths(n) /\ InodeOf(n, m[2]) = InodeOf(n, p) /\ m[2] # p
        BY <1>1, <1>3, <1>5, <2>2, <3>1, <4>2 DEF Outcome
      <4> QED BY <4>3 DEF Twice
    <3> QED BY <3>2, <3>3
  <2> QED BY <1>3, <1>5, <2>3, <2>4, <2>5 DEF Outcome
<1> QED BY <1>4, <1>5 DEF Follows

LEMMA PollInvInit == PollInit => PollInv
<1> SUFFICES ASSUME PollInit PROVE PollInv OBVIOUS
<1>1. /\ DOMAIN tree = {Top} /\ tree[Top].ino = "top" /\ snapshot = TakeAll /\ walk = EmptySnapshot
      /\ todo = {} /\ view = DOMAIN tree
  BY DEF PollInit, TreeInit
<1>2. TreeSound BY <1>1 DEF TreeSound, Paths
<1>3. snapshot.stat = [p \in DOMAIN tree |-> Stat(p)] /\ snapshot.at = [i \in {"top"} |-> Top]
  <2>1. Used = {"top"} BY <1>1 DEF Used
  <2>2. \A i \in Used : (CHOOSE p \in DOMAIN tree : tree[p].ino = i) = Top BY <1>1, <2>1
  <2>3. /\ TakeAll.stat = [p \in DOMAIN tree |-> Stat(p)]
        /\ TakeAll.at = [i \in Used |-> CHOOSE p \in DOMAIN tree : tree[p].ino = i]
    BY DEF TakeAll
  <2> QED BY <1>1, <2>1, <2>2, <2>3
<1>4. SnapPaths(snapshot) = {Top} /\ InodeOf(snapshot, Top) = "top"
  BY <1>1, <1>3 DEF SnapPaths, InodeOf, Stat
<1>5. SnapSound(snapshot) /\ SnapSound(walk)
  <2>1. DOMAIN snapshot.at = {"top"} /\ snapshot.at["top"] = Top BY <1>3
  <2> QED BY <1>1, <1>4, <2>1, NothingSeen DEF SnapSound, Paths
<1>6. TodoSound BY <1>1, NothingSeen DEF TodoSound, Seen
<1>7. Current(snapshot) BY <1>1, <1>4 DEF Current, Exists
<1> QED BY <1>1, <1>2, <1>4, <1>5, <1>6, <1>7 DEF PollInv, Follows

LEMMA PollEditKeeps ==
  ASSUME PollInv, PollEdit
  PROVE  PollInv'
<1> DEFINE ParentsKept == \A r \in DOMAIN tree' \ {Top} : DirOf(r) \in dirs'
<1>1. ~fresh' /\ UNCHANGED <<snapshot, walk, todo, emitter, view, tangled>> BY DEF PollEdit
<1>2. TreeSound /\ \A r \in DOMAIN tree \ {Top} : DirOf(r) \in dirs BY DEF PollInv
<1>3. ASSUME MakeEntry PROVE TreeSound' /\ ParentsKept
  <2>1. PICK p \in Paths : Create(p) /\ DirOf(p) \in dirs /\ dirs' \in {dirs, dirs \cup ({p} \cap Subs)}
    BY <1>3 DEF MakeEntry
  <2>2. DOMAIN tree' = DOMAIN tree \cup {p} /\ dirs \subseteq dirs' BY <2>1 DEF Create, Edited, Set
  <2> QED BY <1>2, <2>1, <2>2, CreateSound
<1>4. ASSUME RemoveEntry PROVE TreeSound' /\ ParentsKept
  <2>1. PICK p \in Paths : Delete(p) /\ dirs' = dirs \ {p} BY <1>4 DEF RemoveEntry
  <2>2. DOMAIN tree' = DOMAIN tree \ {p} BY <2>1 DEF Delete, Edited, Drop
  <2>3. ASSUME NEW q \in DOMAIN tree \ {Top} PROVE DirOf(q) # p
    <3>1. q \in Subs \cup Files BY <1>2 DEF TreeSound, Paths
    <3> QED BY <2>1, <3>1 DEF Children, Delete
  <2> QED BY <1>2, <2>1, <2>2, <2>3, DeleteSound
<1>5. ASSUME RenameDir PROVE TreeSound' /\ ParentsKept
  <2>1. PICK p \in dirs, q \in Subs : MoveDir(p, q) /\ dirs' = (dirs \ {p}) \cup {q}
    BY <1>5 DEF RenameDir
  <2> QED BY <1>2, <2>1, MoveDirSound
<1>6. ASSUME ModifyFile PROVE TreeSound' /\ ParentsKept
  <2>1. PICK p \in DOMAIN tree \ dirs : tree' = [tree EXCEPT ![p].mtime = edits + 1] /\ dirs' = dirs
    BY <1>6 DEF ModifyFile, Edited
  <2> QED BY <1>2, <2>1, ModifySound
<1>7. ASSUME RenameFile PROVE TreeSound' /\ ParentsKept
  <2>1. PICK p \in (Subs \cup Files) \ dirs, q \in (Subs \cup Files) \ dirs :
          /\ p # q /\ p \in DOMAIN tree /\ DirOf(q) \in DOMAIN tree /\ DirOf(q) \in dirs
          /\ tree' = Set(Drop(tree, {p}), q, tree[p]) /\ dirs' = dirs
    BY <1>7 DEF RenameFile, Exists, Edited
  <2>2. DirOf(q) # p /\ \A r \in DOMAIN tree : r # Top => DirOf(r) # p BY <1>2, <2>1
  <2>3. TreeSound' /\ DOMAIN tree' = (DOMAIN tree \ {p}) \cup {q} BY <1>2, <2>1, <2>2, RenameSound
  <2> QED BY <1>2, <2>1, <2>3
<1>8. TreeSound' /\ ParentsKept BY <1>3, <1>4, <1>5, <1>6, <1>7 DEF PollEdit
<1>9. TodoSound' BY <1>1 DEF PollInv, TodoSound, Seen
<1> QED BY <1>1, <1>8, <1>9 DEF PollInv, Idle

LEMMA BeginPollKeeps ==
  ASSUME PollInv, BeginPoll
  PROVE  PollInv'
<1>1. /\ todo = {} /\ Exists(Top) /\ walk' = AddEntry(EmptySnapshot, Top, Stat(Top))
      /\ todo' = {<<"list", Top>>} /\ UNCHANGED <<tree, dirs, snapshot, emitter, view, tangled>>
  BY DEF BeginPoll, Idle
<1>2. /\ SnapSound(walk') /\ SnapPaths(walk') = {Top} /\ walk' # EmptySnapshot
      /\ InodeOf(walk', Top) = tree[Top].ino
  <2>1. Top \in Paths BY DEF Paths
  <2>2. Stat(Top).ino = tree[Top].ino BY DEF Stat
  <2> QED BY <1>1, <2>1, <2>2, Added, NothingSeen
<1>3. TreeSound' BY <1>1 DEF PollInv, TreeSound
<1>4. TodoSound'
  <2>1. \A c : c \in todo' <=> c = <<"list", Top>> BY <1>1
  <2>2. \A p : Seen(p)' <=> p = Top BY <1>2 DEF Seen
  <2>3. todo' \subseteq {"list", "stat"} \X Paths BY <1>1 DEF Paths
  <2>4. \A p : <<"stat", p>> \notin todo' /\ (<<"list", p>> \in todo' => p = Top) BY <2>1
  <2> QED BY <2>2, <2>3, <2>4 DEF TodoSound
<1>5. Current(walk)' BY <1>1, <1>2 DEF Current, Exists
<1>6. \A p : Coming(p)' BY <1>1, <1>2 DEF Coming, Seen
<1> QED BY <1>1, <1>2, <1>3, <1>4, <1>5, <1>6 DEF PollInv, Idle, Current, Exists

LEMMA PollFailsKeeps ==
  ASSUME PollInv, PollFails
  PROVE  PollInv'
<1>1. walk = EmptySnapshot /\ emitter' = "stopped" /\ UNCHANGED <<tree, dirs, snapshot, walk, todo, fresh, tangled>>
  BY DEF PollFails, Idle
<1>2. TreeSound' /\ TodoSound' BY <1>1 DEF PollInv, TreeSound, TodoSound, Seen
<1> QED BY <1>1, <1>2 DEF PollInv, Idle

LEMMA ListDirKeeps ==
  ASSUME PollInv, ListDir
  PROVE  PollInv'
<1>1. UNCHANGED <<tree, dirs, snapshot, walk, emitter, view, fresh, tangled>> BY DEF ListDir
<1>2. PICK dir \in Paths :
        /\ <<"list", dir>> \in todo
        /\ todo' = (todo \ {<<"list", dir>>}) \cup {<<"stat", p>> : p \in Children(dir) \cap DOMAIN tree}
  BY DEF ListDir
<1>3. \A p : /\ <<"list", p>> \in todo' <=> <<"list", p>> \in todo /\ p # dir
             /\ <<"stat", p>> \in todo' <=> <<"stat", p>> \in todo \/ p \in Children(dir) \cap DOMAIN tree
  BY <1>2
<1>4. \A p \in Children(dir) : p \in Paths /\ p # Top /\ DirOf(p) = dir
  <2>1. \A p \in Subs : p # Top BY DEF Subs, Top
  <2> QED BY <2>1, Kinds DEF Children, Paths
<1>5. Seen(dir) BY <1>2 DEF PollInv, TodoSound
<1>6. \A p \in Children(dir) : ~Seen(p) BY <1>2, <1>4 DEF PollInv, TodoSound
<1>7. TodoSound'
  <2>1. todo' \subseteq {"list", "stat"} \X Paths BY <1>2, <1>4 DEF PollInv, TodoSound
  <2>2. \A p : Seen(p)' <=> Seen(p) BY <1>1 DEF Seen
  <2> QED BY <1>1, <1>3, <1>4, <1>5, <1>6, <2>1, <2>2 DEF PollInv, TodoSound
<1>8. ASSUME fresh, walk # EmptySnapshot, NEW p \in DOMAIN tree \ {Top} PROVE Coming(p)'
  <2>1. Coming(p) BY <1>8 DEF PollInv
  <2>2. p \in Subs \cup Files BY DEF PollInv, TreeSound, Paths
  <2>3. DirOf(p) = dir => p \in Children(dir) BY <2>2 DEF Children
  <2> QED BY <1>1, <1>3, <2>1, <2>3 DEF Coming, Seen
<1>9. TreeSound' BY <1>1 DEF PollInv, TreeSound
<1>10. walk # EmptySnapshot BY <1>5, NothingSeen DEF Seen
<1> QED BY <1>1, <1>7, <1>8, <1>9, <1>10 DEF PollInv, Idle, Current, Exists

LEMMA StatEntryKeeps ==
  ASSUME PollInv, StatEntry
  PROVE  PollInv'
<1>1. UNCHANGED <<tree, dirs, snapshot, emitter, view, fresh, tangled>> BY DEF StatEntry
<1>2. PICK p \in Paths :
        /\ <<"stat", p>> \in todo
        /\ IF Exists(p)
           THEN /\ walk' = AddEntry(walk, p, Stat(p))
                /\ todo' = (todo \ {<<"stat", p>>}) \cup (IF p \in dirs THEN {<<"list", p>>} ELSE {})
           ELSE todo' = todo \ {<<"stat", p>>} /\ UNCHANGED walk
  BY DEF StatEntry
<1>3. p # Top /\ ~Seen(p) /\ Seen(DirOf(p)) /\ <<"list", DirOf(p)>> \notin todo
  BY <1>2 DEF PollInv, TodoSound
<1>4. TreeSound' BY <1>1 DEF PollInv, TreeSound
<1>5. walk # EmptySnapshot BY <1>3, NothingSeen DEF Seen
<1>6. CASE Exists(p)
  <2>1. /\ SnapSound(walk') /\ SnapPaths(walk') = SnapPaths(walk) \cup {p} /\ walk' # EmptySnapshot
        /\ InodeOf(walk', p) = tree[p].ino
        /\ \A q \in SnapPaths(walk) : InodeOf(walk', q) = InodeOf(walk, q)
    BY <1>2, <1>3, <1>6, Added DEF PollInv, Seen, Stat
  <2>2. \A q : Seen(q)' <=> Seen(q) \/ q = p BY <2>1 DEF Seen
  <2>3. \A q : /\ <<"stat", q>> \in todo' <=> <<"stat", q>> \in todo /\ q # p
               /\ <<"list", q>> \in todo' <=> <<"list", q>> \in todo \/ (q = p /\ p \in dirs)
    BY <1>2, <1>6
  <2>4. todo' \subseteq {"list", "stat"} \X Paths BY <1>2, <1>6 DEF PollInv, TodoSound
  <2>5. TodoSound'
    <3>1. ASSUME NEW q \in Paths, q # Top, Seen(q)' \/ <<"stat", q>> \in todo'
          PROVE  Seen(DirOf(q))' /\ <<"list", DirOf(q)>> \notin todo'
      <4>1. Seen(q) \/ <<"stat", q>> \in todo BY <1>2, <2>2, <2>3, <3>1
      <4>2. Seen(DirOf(q)) /\ <<"list", DirOf(q)>> \notin todo BY <3>1, <4>1 DEF PollInv, TodoSound
      <4> QED BY <1>3, <2>2, <2>3, <4>2
    <3>2. \A q \in Paths : <<"list", q>> \in todo' => Seen(q)' BY <2>2, <2>3 DEF PollInv, TodoSound
    <3>3. \A q \in Paths : <<"stat", q>> \in todo' => q # Top /\ ~Seen(q)'
      BY <2>2, <2>3 DEF PollInv, TodoSound
    <3>4. Seen(Top)' BY <1>5, <2>2 DEF PollInv, TodoSound
    <3> QED BY <2>4, <3>1, <3>2, <3>3, <3>4 DEF TodoSound
  <2>6. ASSUME fresh PROVE Current(walk)'
    <3>1. Current(walk) BY <1>5, <2>6 DEF PollInv
    <3> QED BY <1>1, <1>6, <2>1, <3>1 DEF Current, Exists
  <2>7. ASSUME fresh, NEW q \in DOMAIN tree \ {Top} PROVE Coming(q)'
    <3>1. Coming(q) BY <1>5, <2>7 DEF PollInv
    <3>2. DirOf(q) = p => p \in dirs BY <2>7 DEF PollInv
    <3> QED BY <2>2, <2>3, <3>1, <3>2 DEF Coming
  <2> QED BY <1>1, <1>4, <2>1, <2>5, <2>6, <2>7, <1>5 DEF PollInv, Idle
<1>7. CASE ~Exists(p)
  <2>1. walk' = walk /\ \A q : /\ <<"stat", q>> \in todo' <=> <<"stat", q>> \in todo /\ q # p
                               /\ <<"list", q>> \in todo' <=> <<"list", q>> \in todo
    BY <1>2, <1>7
  <2>2. todo' \subseteq todo BY <1>2, <1>7
  <2>3. \A q : Seen(q)' <=> Seen(q) BY <2>1 DEF Seen
  <2>4. TodoSound' BY <2>1, <2>2, <2>3 DEF PollInv, TodoSound
  <2>5. ASSUME fresh, NEW q \in DOMAIN tree \ {Top} PROVE Coming(q)'
    <3>1. Coming(q) BY <1>5, <2>5 DEF PollInv
    <3>2. q # p BY <1>7, <2>5 DEF Exists
    <3> QED BY <2>1, <2>3, <3>1, <3>2 DEF Coming
  <2>6. fresh => Current(walk)' BY <1>1, <1>5, <2>1 DEF PollInv, Current, Exists
  <2> QED BY <1>1, <1>4, <1>5, <2>1, <2>4, <2>5, <2>6 DEF PollInv, Idle
<1> QED BY <1>6, <1>7

\* A walk that no change fell into has seen the whole tree: its depth is two.
LEMMA WalkWhole ==
  ASSUME PollInv, todo = {}, walk # EmptySnapshot, fresh
  PROVE  SnapPaths(walk) = DOMAIN tree /\ Current(walk)
<1>1. Current(walk) /\ Seen(Top) BY DEF PollInv, TodoSound
<1>2. ASSUME NEW p \in DOMAIN tree \ {Top}, Seen(DirOf(p)) PROVE Seen(p)
  BY <1>2 DEF PollInv, Coming
<1>3. ASSUME NEW p \in Subs \cap DOMAIN tree PROVE Seen(p)
  <2>1. p # Top /\ DirOf(p) = Top BY ShortPath DEF Subs, Top
  <2> QED BY <1>1, <1>2, <2>1
<1>4. ASSUME NEW p \in DOMAIN tree PROVE Seen(p)
  <2>1. CASE p = Top BY <1>1, <2>1
  <2>2. CASE p # Top
    <3>1. p \in Paths /\ DirOf(p) \in DOMAIN tree BY <2>2 DEF PollInv, TreeSound
    <3>2. DirOf(p) \in {Top} \cup Subs BY <2>2, <3>1, Parents
    <3>3. Seen(DirOf(p)) BY <1>1, <1>3, <3>1, <3>2
    <3> QED BY <1>2, <2>2, <3>3
  <2> QED BY <2>1, <2>2
<1> QED BY <1>1, <1>4 DEF Current, Exists, Seen

LEMMA QueueEventsKeeps ==
  ASSUME PollInv, QueueEvents
  PROVE  PollInv'
<1>1. /\ todo = {} /\ walk # EmptySnapshot /\ snapshot' = walk /\ walk' = EmptySnapshot
      /\ UNCHANGED <<tree, dirs, todo, emitter, fresh>>
  BY DEF QueueEvents
<1>2. TreeSound' BY <1>1 DEF PollInv, TreeSound
<1>3. SnapSound(snapshot') /\ SnapSound(walk') BY <1>1, NothingSeen DEF PollInv
<1>4. TodoSound' BY <1>1, NothingSeen DEF TodoSound, Seen
<1>5. fresh' => SnapPaths(snapshot') = DOMAIN tree' /\ Current(snapshot)'
  BY <1>1, WalkWhole DEF Current, Exists
<1>6. ASSUME emitter' = "run", ~tangled' PROVE Follows(view', snapshot')
  <2> DEFINE d == Diff(snapshot, walk)
             f == FilesPart(snapshot, walk, d)
             h == DirsPart(snapshot, walk, d)
  <2>1. ~tangled /\ ~Tangles(d, f, h) /\ \E u \in Followed(view, f) : view' \in Followed(u, h)
    BY <1>6 DEF QueueEvents
  <2>2. Follows(view, snapshot) /\ SnapSound(snapshot) /\ SnapSound(walk) BY <1>1, <1>6, <2>1 DEF PollInv
  <2>3. Parts(d, f, h)
    <3> HIDE DEF d
    <3> QED BY ZenonT(40) DEF Parts, FilesPart, DirsPart
  <2> HIDE DEF f, h
  <2> QED BY <1>1, <2>1, <2>2, <2>3, FollowedOn
<1> QED BY <1>1, <1>2, <1>3, <1>4, <1>5, <1>6 DEF PollInv

LEMMA PollInvIdle ==
  ASSUME PollInv, UNCHANGED <<system, tree, edits, pollVars>>
  PROVE  PollInv'
<1>1. UNCHANGED <<tree, dirs, snapshot, walk, todo, emitter, view, fresh, tangled>> BY DEF pollVars
<1>2. TreeSound' /\ TodoSound' BY <1>1 DEF PollInv, TreeSound, TodoSound, Seen
<1>3. (\A p : Coming(p) <=> Coming(p)') /\ (Current(walk) <=> Current(walk)') /\ (Current(snapshot) <=> Current(snapshot)')
  BY <1>1 DEF Coming, Seen, Current, Exists
<1> QED BY <1>1, <1>2, <1>3 DEF PollInv, Idle

\* Whatever the other programs do while a walk makes its system calls: no path is stat'd twice,
\* a walk that no change falls into sees the whole tree, the inode map of a snapshot is right,
\* and a handler that follows the differences knows, of every file in the last snapshot, a name.
THEOREM PollInvariant == PollSpec => []PollInv
<1>1. PollInv /\ [PollNext /\ UNCHANGED system]_<<system, tree, edits, pollVars>> => PollInv'
  BY PollEditKeeps, BeginPollKeeps, PollFailsKeeps, ListDirKeeps, StatEntryKeeps, QueueEventsKeeps,
     PollInvIdle DEF PollNext
<1> QED BY <1>1, PollInvInit, PTL DEF PollSpec

\* Once a poll has begun and ended after the last change, a handler that follows the events of
\* the polling emitter knows exactly the files that exist, whatever earlier snapshots missed or
\* saw twice; a poll whose moves tangle, or that finds a file where a directory was, is excepted.
THEOREM PollCatchesUp == PollSpec => []ViewCatchesUp
<1>1. PollInv => ViewCatchesUp
  <2> SUFFICES ASSUME PollInv, fresh, Idle, ~tangled PROVE view = DOMAIN tree
    BY DEF ViewCatchesUp
  <2>1. SnapPaths(snapshot) = DOMAIN tree /\ Current(snapshot) /\ Follows(view, snapshot)
    BY DEF PollInv, Idle
  <2>2. ASSUME NEW p \in SnapPaths(snapshot) PROVE ~Twice(snapshot, p)
    BY <2>1 DEF PollInv, TreeSound, Twice, Current
  <2> QED BY <2>1, <2>2 DEF Follows
<1> QED BY <1>1, PollInvariant, PTL

-----------------------------------------------------------------------------
(* Inotify: the tree and the two maps.                                             *)

\* A tree l of directories: l[d] is where directory d is, and In(l) those that are
\* somewhere in the tree. Each has its own path, and a parent unless it is the root.
DirPath == Seq(DirEntries)

Sub(y, n) == y \o <<n>>

Put(l, d, x) == [l EXCEPT ![d] = x]

In(l) == {d \in All : l[d] \notin {New, Out, Removed}}

DirsSound(l, w) ==
  /\ l \in [All -> DirPath \cup {New, Removed}]
  /\ l[Root] = <<>>
  /\ \A c, d \in In(l) : l[c] = l[d] => c = d
  /\ \A d \in In(l) \ {Root} : \E c \in In(l), n \in DirEntries : l[d] = Sub(l[c], n)
  /\ Root \in w /\ w \subseteq In(l)

\* The maps p (by watch) and m (by path): one watch to a path; a watch that lives is on a
\* directory at the path it is known by, a watch that has ended on one that was removed.
MapsSound(l, w, p, m) ==
  /\ p \in [DOMAIN p -> DirPath] /\ DOMAIN p \subseteq All
  /\ \A x \in DOMAIN m : m[x] \in DOMAIN p /\ p[m[x]] = x
  /\ \A d \in w : d \in DOMAIN p /\ p[d] = l[d] /\ p[d] \in DOMAIN m /\ m[p[d]] = d
  /\ \A d \in DOMAIN p \ w : l[d] = Removed
  /\ \A d \in DOMAIN p : p[d] \in DOMAIN m

Ends(ev, d) == ev.mask = "ignored" /\ ev.wd = d
Makes(ev, d, n) == ev.mask = "create" /\ ev.wd = d /\ ev.name = <<n>>

Told == {"create", "delete", "delete_self", "create_file", "ignored"}

EventsOf(D) == [wd : D, mask : Told, name : DirPath \cup {<<File>>}, cookie : Nat]

\* The events q still to be read: all of known watches, nothing of a watch after its end ...
QueueTyped(p, q) ==
  /\ q \in Seq(EventsOf(DOMAIN p))
  /\ \A i \in DOMAIN q : q[i].mask = "create" => q[i].name \in DirPath

EndsLast(w, q) ==
  \A i \in DOMAIN q : q[i].mask = "ignored" =>
    /\ q[i].wd \notin w /\ q[i].name = <<>>
    /\ \A j \in DOMAIN q : j > i => q[j].wd # q[i].wd

\* ... which is told of each known watch that has ended ...
EndsTold(w, p, q) == \A d \in DOMAIN p \ w : \E i \in DOMAIN q : Ends(q[i], d)

\* ... of two watches known by one path first of the one the other map forgot.
ForgottenFirst(p, m, q) ==
  \A d \in DOMAIN p, j \in DOMAIN q : m[p[d]] # d /\ Ends(q[j], m[p[d]]) =>
    \E i \in DOMAIN q : i < j /\ Ends(q[i], d)

InSync(l, w, p, m, q) ==
  /\ MapsSound(l, w, p, m)
  /\ QueueTyped(p, q) /\ EndsLast(w, q) /\ EndsTold(w, p, q) /\ ForgottenFirst(p, m, q)

\* A directory that has no watch although its parent has one is being announced, or the walk
\* g is still to reach it.
Announced(l, w, q, g) ==
  \A c \in w, d \in In(l) \ w, n \in DirEntries : l[d] = Sub(l[c], n) =>
    \/ \E i \in DOMAIN q : Makes(q[i], c, n)
    \/ <<"watch", l[d]>> \in g \/ <<"list", l[c]>> \in g

PathIn(p, ev) == p[ev.wd] \o ev.name

\* The next event q[1] ends a move from the path `from`; when it is read all are in step.
MoveNext(l, w, p, m, from, q) ==
  /\ q # <<>> /\ q[1].mask = "moved_to" /\ q[1].wd \in DOMAIN p /\ from \in DOMAIN m
  /\ InSync(l, w, PathsMoved(p, m, from, PathIn(p, q[1])), WdsMoved(m, from, PathIn(p, q[1])), Tail(q))

\* f is the record of sources. Both maps are in step with the kernel, or will be when a
\* move has been read, whose two events are the first: a directory is renamed only while
\* no event is unread.
WillSync(l, w, p, m, f, q) ==
  \/ InSync(l, w, p, m, q)
  \/ q # <<>> /\ q[1].cookie \in DOMAIN f /\ MoveNext(l, w, p, m, f[q[1].cookie], q)
  \/ /\ q # <<>> /\ q[1].mask = "moved_from" /\ q[1].wd \in DOMAIN p
     /\ Tail(q) # <<>> /\ Tail(q)[1].cookie = q[1].cookie
     /\ MoveNext(l, w, p, m, PathIn(p, q[1]), Tail(q))

KernelEvents == [wd : All, mask : Told \cup {"moved_from", "moved_to"},
                 name : DirPath \cup {<<File>>}, cookie : Nat]

\* The walk goes on only while both maps are in step, and knows the paths it is to list,
\* but for one that was not there when it was to get its watch.
WalkSound ==
  /\ walking # {} => InSync(loc, watched, pathForWd, wdForPath, kq)
  /\ \A x \in DirPath : <<"list", x>> \in walking /\ At(x) # {} => reborn \/ x \in DOMAIN wdForPath

Following ==
  /\ readerThread = "run" /\ treeChanges \in Nat /\ kq \in Seq(KernelEvents)
  /\ DirsSound(loc, watched)
  /\ WillSync(loc, watched, pathForWd, wdForPath, movedFrom, kq)
  /\ Announced(loc, watched, kq, walking) /\ WalkSound

InotifyInv ==
  Recursive => left \/ full \/ renamedEarly \/ (reborn /\ readerThread # "run") \/ Following

-----------------------------------------------------------------------------
(* Inotify: paths.                                                                 *)

\* A path with one more name, taken apart again.
LEMMA PathAppend ==
  ASSUME NEW S, NEW x \in Seq(S), NEW n \in S
  PROVE  /\ x \o <<n>> \in Seq(S) /\ x \o <<n>> # <<>> /\ Len(x \o <<n>>) = Len(x) + 1
         /\ \A i \in 1..Len(x) : (x \o <<n>>)[i] = x[i]
         /\ (x \o <<n>>)[Len(x) + 1] = n
         /\ Front(x \o <<n>>) = x /\ Last(x \o <<n>>) = n
  <1> DEFINE y == x \o <<n>>
  <1>1. <<n>> \in Seq(S) /\ Len(<<n>>) = 1 /\ <<n>>[1] = n
    OBVIOUS
  <1>2. y \in Seq(S) /\ Len(y) = Len(x) + 1
    BY <1>1
  <1>3. \A i \in 1..Len(x) : y[i] = x[i]
    BY <1>1
  <1>4. y[Len(x) + 1] = n
    BY <1>1
  <1>5. y # <<>>
    BY <1>2
  <1>6. Front(y) = [i \in 1..Len(x) |-> y[i]]
    BY <1>2 DEF Front
  <1>7. Front(y) = [i \in 1..Len(x) |-> x[i]]
    BY <1>3, <1>6
  <1>8. x = [i \in 1..Len(x) |-> x[i]]
    OBVIOUS
  <1> QED BY <1>2, <1>3, <1>4, <1>5, <1>7, <1>8 DEF Last

LEMMA PathSplit ==
  ASSUME NEW S, NEW x \in Seq(S), x # <<>>
  PROVE  Front(x) \in Seq(S) /\ Last(x) \in S /\ x = Front(x) \o <<Last(x)>>
  <1>1. Len(x) \in Nat \ {0} /\ \A i \in 1..Len(x) : x[i] \in S
    OBVIOUS
  <1>2. Front(x) = [i \in 1..(Len(x) - 1) |-> x[i]]
    BY <1>1 DEF Front
  <1>3. Front(x) \in Seq(S) /\ Len(Front(x)) = Len(x) - 1
    BY <1>1, <1>2
  <1>4. Last(x) \in S /\ Last(x) = x[Len(x)]
    BY <1>1 DEF Last
  <1> DEFINE y == Front(x) \o <<Last(x)>>
  <1>5. y \in Seq(S) /\ Len(y) = Len(x) /\ y[Len(x)] = x[Len(x)]
        /\ \A i \in 1..(Len(x) - 1) : y[i] = Front(x)[i]
    BY <1>1, <1>3, <1>4, PathAppend
  <1>6. \A i \in 1..Len(x) : y[i] = x[i]
    BY <1>1, <1>2, <1>5
  <1>7. y = x
    BY <1>1, <1>5, <1>6
  <1> QED BY <1>3, <1>4, <1>7

LEMMA SubSame ==
  ASSUME NEW x \in DirPath, NEW y \in DirPath, NEW n \in DirEntries, NEW o \in DirEntries,
         Sub(x, n) = Sub(y, o)
  PROVE  x = y /\ n = o
  <1>1. Front(x \o <<n>>) = x /\ Last(x \o <<n>>) = n
    BY PathAppend DEF DirPath
  <1>2. Front(y \o <<o>>) = y /\ Last(y \o <<o>>) = o
    BY PathAppend DEF DirPath
  <1> QED BY <1>1, <1>2 DEF Sub

LEMMA SubPath ==
  ASSUME NEW x \in DirPath, NEW n \in DirEntries
  PROVE  Sub(x, n) \in DirPath /\ Sub(x, n) # <<>>
  BY PathAppend DEF Sub, DirPath

LEMMA BelowIs ==
  ASSUME NEW S, NEW x \in Seq(S), NEW y \in Seq(S)
  PROVE  Below(x, y) <=> Len(y) < Len(x) /\ \A i \in 1..Len(y) : x[i] = y[i]
  <1>1. Below(x, y) <=> /\ Len(y) <= Len(x) /\ SubSeq(y, 1, Len(y)) = SubSeq(x, 1, Len(y))
                        /\ y # x
    BY DEF Below, IsStrictPrefix, IsPrefix
  <1>2. SubSeq(y, 1, Len(y)) = y
    OBVIOUS
  <1>3. CASE Len(y) <= Len(x)
    <2> DEFINE z == SubSeq(x, 1, Len(y))
    <2>1. z \in Seq(S) /\ Len(z) = Len(y) /\ \A i \in 1..Len(y) : z[i] = x[i]
      BY <1>3
    <2>2. z = y <=> \A i \in 1..Len(y) : x[i] = y[i]
      BY <2>1
    <2>3. (\A i \in 1..Len(y) : x[i] = y[i]) => (y # x <=> Len(y) < Len(x))
      BY <1>3
    <2> QED BY <1>1, <1>2, <1>3, <2>2, <2>3
  <1>4. CASE ~(Len(y) <= Len(x))
    BY <1>1, <1>4
  <1> QED BY <1>3, <1>4

LEMMA BelowAppend ==
  ASSUME NEW S, NEW x \in Seq(S), NEW y \in Seq(S), NEW n \in S
  PROVE  Below(x \o <<n>>, y) <=> x = y \/ Below(x, y)
  <1> DEFINE z == x \o <<n>>
  <1>1. z \in Seq(S) /\ Len(z) = Len(x) + 1 /\ \A i \in 1..Len(x) : z[i] = x[i]
    BY PathAppend
  <1>2. Below(z, y) <=> Len(y) < Len(x) + 1 /\ \A i \in 1..Len(y) : z[i] = y[i]
    BY <1>1, BelowIs
  <1>3. Below(x, y) <=> Len(y) < Len(x) /\ \A i \in 1..Len(y) : x[i] = y[i]
    BY BelowIs
  <1>4. x = y <=> Len(x) = Len(y) /\ \A i \in 1..Len(y) : x[i] = y[i]
    OBVIOUS
  <1>5. Len(x) \in Nat /\ Len(y) \in Nat
    OBVIOUS
  <1>6. Below(z, y) <=> Len(y) <= Len(x) /\ \A i \in 1..Len(y) : x[i] = y[i]
    BY <1>1, <1>2, <1>5
  <1> QED BY <1>3, <1>4, <1>5, <1>6

\* What Rebase gives for the path itself and for those below it.
Rebased(S, x, f, t, r) ==
  /\ r \in Seq(S) /\ Len(r) = Len(t) + (Len(x) - Len(f)) /\ Len(f) <= Len(x)
  /\ \A i \in 1..Len(t) : r[i] = t[i]
  /\ \A i \in 1..(Len(x) - Len(f)) : r[Len(t) + i] = x[Len(f) + i]

LEMMA RebaseIs ==
  ASSUME NEW S, NEW x \in Seq(S), NEW f \in Seq(S), NEW t \in Seq(S), x = f \/ Below(x, f)
  PROVE  Rebased(S, x, f, t, Rebase(x, f, t))
  <1>1. Len(f) <= Len(x) /\ \A i \in 1..Len(f) : x[i] = f[i]
    BY BelowIs
  <1> DEFINE z == SubSeq(x, Len(f) + 1, Len(x))
  <1>2. z \in Seq(S) /\ Len(z) = Len(x) - Len(f)
        /\ \A i \in 1..(Len(x) - Len(f)) : z[i] = x[Len(f) + i]
    BY <1>1
  <1> HIDE DEF z
  <1>4. z \in Seq(S) /\ Len(t) \in Nat /\ Len(z) \in Nat
    BY <1>2
  <1>5. t \o z \in Seq(S) /\ Len(t \o z) = Len(t) + Len(z)
    BY <1>4
  <1>6. \A i \in 1..Len(t) : (t \o z)[i] = t[i]
    BY <1>4
  <1>7. \A i \in 1..Len(z) : (t \o z)[Len(t) + i] = z[i]
    BY <1>4
  <1>3. t \o z \in Seq(S) /\ Len(t \o z) = Len(t) + Len(z)
        /\ (\A i \in 1..Len(t) : (t \o z)[i] = t[i])
        /\ (\A i \in 1..Len(z) : (t \o z)[Len(t) + i] = z[i])
    BY <1>5, <1>6, <1>7
  <1> QED BY <1>1, <1>2, <1>3 DEF Rebase, Rebased, z

LEMMA RebaseInjective ==
  ASSUME NEW S, NEW x \in Seq(S), NEW y \in Seq(S), NEW f \in Seq(S), NEW t \in Seq(S),
         x = f \/ Below(x, f), y = f \/ Below(y, f), Rebase(x, f, t) = Rebase(y, f, t)
  PROVE  x = y
  <1>1. Len(f) <= Len(x) /\ (\A i \in 1..Len(f) : x[i] = f[i])
        /\ Len(f) <= Len(y) /\ (\A i \in 1..Len(f) : y[i] = f[i])
    BY BelowIs
  <1> DEFINE a == Rebase(x, f, t)
             b == Rebase(y, f, t)
  <1>6. Len(a) = Len(t) + (Len(x) - Len(f))
        /\ \A i \in 1..(Len(x) - Len(f)) : a[Len(t) + i] = x[Len(f) + i]
    <2>1. Rebased(S, x, f, t, a)
      BY RebaseIs
    <2> QED BY <2>1 DEF Rebased
  <1>7. Len(b) = Len(t) + (Len(y) - Len(f))
        /\ \A i \in 1..(Len(y) - Len(f)) : b[Len(t) + i] = y[Len(f) + i]
    <2>1. Rebased(S, y, f, t, b)
      BY RebaseIs
    <2> QED BY <2>1 DEF Rebased
  <1>8. a = b
    OBVIOUS
  <1> HIDE DEF a, b
  <1>9. Len(x) \in Nat /\ Len(y) \in Nat /\ Len(f) \in Nat /\ Len(t) \in Nat
    OBVIOUS
  <1>2. Len(x) = Len(y)
    BY <1>6, <1>7, <1>8, <1>9, <1>1
  <1>3. \A i \in 1..(Len(x) - Len(f)) : x[Len(f) + i] = y[Len(f) + i]
    BY <1>6, <1>7, <1>8, <1>2
  <1>4. \A i \in 1..Len(x) : i > Len(f) => x[i] = y[i]
    <2> TAKE i \in 1..Len(x)
    <2> HAVE i > Len(f)
    <2>1. (i - Len(f)) \in 1..(Len(x) - Len(f)) /\ Len(f) + (i - Len(f)) = i
      OBVIOUS
    <2> QED BY <2>1, <1>3
  <1>5. \A i \in 1..Len(x) : x[i] = y[i]
    BY <1>1, <1>4
  <1> QED BY <1>2, <1>5

LEMMA RebaseBelow ==
  ASSUME NEW S, NEW x \in Seq(S), NEW f \in Seq(S), NEW t \in Seq(S), Below(x, f)
  PROVE  Rebase(x, f, t) \in Seq(S) /\ Below(Rebase(x, f, t), t)
  <1>1. Len(f) < Len(x)
    BY BelowIs
  <1>2. Rebase(x, f, t) \in Seq(S) /\ Len(Rebase(x, f, t)) = Len(t) + (Len(x) - Len(f))
        /\ \A i \in 1..Len(t) : Rebase(x, f, t)[i] = t[i]
    <2>1. Rebased(S, x, f, t, Rebase(x, f, t))
      BY RebaseIs
    <2> QED BY <2>1 DEF Rebased
  <1> QED BY <1>1, <1>2, BelowIs

LEMMA RebaseSelf ==
  ASSUME NEW S, NEW f \in Seq(S), NEW t \in Seq(S)
  PROVE  Rebase(f, f, t) = t
  <1> DEFINE a == Rebase(f, f, t)
  <1>1. /\ a \in Seq(S) /\ Len(a) = Len(t) + (Len(f) - Len(f))
        /\ \A i \in 1..Len(t) : a[i] = t[i]
    <2>1. Rebased(S, f, f, t, a)
      BY RebaseIs
    <2> QED BY <2>1 DEF Rebased
  <1> HIDE DEF a
  <1>2. Len(a) = Len(t)
    BY <1>1
  <1>3. a = t
    BY <1>1, <1>2
  <1> QED BY <1>3 DEF a

LEMMA RebaseAppend ==
  ASSUME NEW S, NEW x \in Seq(S), NEW f \in Seq(S), NEW t \in Seq(S), NEW n \in S,
         x = f \/ Below(x, f)
  PROVE  Rebase(Sub(x, n), f, t) = Sub(Rebase(x, f, t), n)
  <1> DEFINE y == Sub(x, n)
             a == Rebase(y, f, t)
             r == Rebase(x, f, t)
             b == Sub(r, n)
  <1>1. y \in Seq(S) /\ Len(y) = Len(x) + 1 /\ (\A i \in 1..Len(x) : y[i] = x[i])
        /\ y[Len(x) + 1] = n
    BY PathAppend DEF Sub
  <1>2. Below(y, f)
    BY BelowAppend DEF Sub
  <1>8. y = f \/ Below(y, f)
    BY <1>2
  <1> HIDE DEF y
  <1>3. /\ a \in Seq(S) /\ Len(a) = Len(t) + (Len(y) - Len(f))
        /\ \A i \in 1..Len(t) : a[i] = t[i]
        /\ \A i \in 1..(Len(y) - Len(f)) : a[Len(t) + i] = y[Len(f) + i]
    <2>1. Rebased(S, y, f, t, a)
      BY <1>1, <1>8, RebaseIs
    <2> QED BY <2>1 DEF Rebased
  <1>4. /\ r \in Seq(S) /\ Len(r) = Len(t) + (Len(x) - Len(f)) /\ Len(f) <= Len(x)
        /\ \A i \in 1..Len(t) : r[i] = t[i]
        /\ \A i \in 1..(Len(x) - Len(f)) : r[Len(t) + i] = x[Len(f) + i]
    <2>1. Rebased(S, x, f, t, r)
      BY RebaseIs
    <2> QED BY <2>1 DEF Rebased
  <1> HIDE DEF a, r
  <1>5. /\ b \in Seq(S) /\ Len(b) = Len(r) + 1 /\ (\A i \in 1..Len(r) : b[i] = r[i])
        /\ b[Len(r) + 1] = n
    BY <1>4, PathAppend DEF Sub
  <1> HIDE DEF b
  <1>6. Len(a) = Len(b) /\ Len(a) = Len(r) + 1
    BY <1>1, <1>3, <1>4, <1>5
  <1>10. Len(t) \in Nat /\ Len(f) \in Nat /\ Len(x) \in Nat /\ Len(r) \in Nat /\ Len(t) <= Len(r)
    BY <1>4
  <1>7. ASSUME NEW i \in 1..Len(a) PROVE a[i] = b[i]
    <2>1. CASE i <= Len(t)
      BY <2>1, <1>3, <1>4, <1>5, <1>6
    <2>2. CASE i > Len(t) /\ i <= Len(r)
      <3> DEFINE k == i - Len(t)
      <3>1. k \in 1..(Len(x) - Len(f)) /\ Len(t) + k = i /\ k \in 1..(Len(y) - Len(f))
        BY <2>2, <1>1, <1>3, <1>4
      <3>2. a[i] = y[Len(f) + k] /\ r[i] = x[Len(f) + k]
        BY <3>1, <1>3, <1>4
      <3>3. Len(f) + k \in 1..Len(x)
        BY <3>1, <1>4
      <3>4. y[Len(f) + k] = x[Len(f) + k]
        BY <3>3, <1>1
      <3>5. i \in 1..Len(r)
        BY <2>2, <1>3
      <3>6. b[i] = r[i]
        BY <3>5, <1>5
      <3> QED BY <3>2, <3>4, <3>6
    <2>3. CASE i = Len(r) + 1
      <3> DEFINE k == i - Len(t)
      <3>1. Len(t) + k = i /\ k \in 1..(Len(y) - Len(f)) /\ Len(f) + k = Len(x) + 1
        BY <2>3, <1>1, <1>3, <1>4
      <3> QED BY <3>1, <2>3, <1>1, <1>3, <1>5
    <2>4. i \in Nat /\ i <= Len(r) + 1
      BY <1>6, <1>3
    <2> QED BY <2>1, <2>2, <2>3, <2>4, <1>10
  <1>9. a = b
    BY <1>3, <1>5, <1>6, <1>7
  <1> QED BY <1>9 DEF a, b, y, r
-----------------------------------------------------------------------------
(* Inotify: the kernel's steps.                                                    *)

LEMMA OneMore ==
  ASSUME NEW S, NEW q \in Seq(S), NEW e \in S
  PROVE  /\ q \o <<e>> \in Seq(S) /\ DOMAIN q = 1..Len(q) /\ Len(q) \in Nat
         /\ DOMAIN (q \o <<e>>) = 1..(Len(q) + 1)
         /\ \A i \in 1..Len(q) : (q \o <<e>>)[i] = q[i]
         /\ (q \o <<e>>)[Len(q) + 1] = e
  OBVIOUS

Grown(S, q, e, r) ==
  /\ r \in Seq(S) /\ DOMAIN q = 1..Len(q) /\ Len(q) \in Nat
  /\ DOMAIN r = 1..(Len(q) + 1)
  /\ \A i \in 1..Len(q) : r[i] = q[i]
  /\ r[Len(q) + 1] = e

\* What an event of a watch that goes on leaves as it is.
LEMMA EventKeeps ==
  ASSUME NEW l, NEW w, NEW p, NEW m, NEW q, InSync(l, w, p, m, q),
         NEW e \in EventsOf(w), e.mask # "ignored", e.mask = "create" => e.name \in DirPath
  PROVE  InSync(l, w, p, m, q \o <<e>>)
  <1> DEFINE r == q \o <<e>>
  <1>1. w \subseteq DOMAIN p
    BY DEF InSync, MapsSound
  <1>2. e \in EventsOf(DOMAIN p)
    BY <1>1 DEF EventsOf
  <1>3. q \in Seq(EventsOf(DOMAIN p))
    BY DEF InSync, QueueTyped
  <1>4. Grown(EventsOf(DOMAIN p), q, e, r)
    BY <1>2, <1>3, OneMore DEF Grown
  <1> HIDE DEF r
  <1>5. e.wd \in w
    BY DEF EventsOf
  <1>6. QueueTyped(p, r)
    BY <1>4 DEF InSync, QueueTyped, Grown
  <1>7. EndsLast(w, r)
    BY <1>4, <1>5 DEF InSync, EndsLast, Grown
  <1>8. EndsTold(w, p, r)
    BY <1>4 DEF InSync, EndsTold, Grown, Ends
  <1>9. ForgottenFirst(p, m, r)
    BY <1>4 DEF InSync, ForgottenFirst, Grown, Ends
  <1> QED BY <1>6, <1>7, <1>8, <1>9 DEF InSync, r

LEMMA AnnouncedMore ==
  ASSUME NEW S, NEW q \in Seq(S), NEW e \in Seq(S), NEW l, NEW w, NEW g, Announced(l, w, q, g)
  PROVE  Announced(l, w, q \o e, g)
  <1> SUFFICES ASSUME NEW c \in w, NEW d \in In(l) \ w, NEW n \in DirEntries, l[d] = Sub(l[c], n),
                      NEW i \in DOMAIN q, Makes(q[i], c, n)
               PROVE  \E j \in DOMAIN (q \o e) : Makes((q \o e)[j], c, n)
    BY DEF Announced
  <1>1. i \in DOMAIN (q \o e) /\ (q \o e)[i] = q[i]
    OBVIOUS
  <1> QED BY <1>1

\* A directory with nothing below it is removed, and its watch ends.
Leaf(l, d) == \A c \in In(l), n \in DirEntries : l[c] # Sub(l[d], n)

Unused(l, x) == \A b \in All : l[b] # x

Differs(l, k, d, x) == k[d] = x /\ \A c \in All \ {d} : k[c] = l[c]

LEMMA RemoveSound ==
  ASSUME NEW l, NEW w, DirsSound(l, w), NEW d \in In(l) \ {Root}, Leaf(l, d),
         NEW k, k = Put(l, d, Removed)
  PROVE  /\ DirsSound(k, w \ {d}) /\ In(k) = In(l) \ {d}
         /\ Differs(l, k, d, Removed)
  <1>1. /\ l \in [All -> DirPath \cup {New, Removed}] /\ l[Root] = <<>> /\ Root \in All
        /\ d \in All
    BY DEF DirsSound, In, All
  <1>2. k \in [All -> DirPath \cup {New, Removed}] /\ k[d] = Removed
        /\ \A c \in All \ {d} : k[c] = l[c]
    BY <1>1 DEF Put
  <1>3. In(k) = In(l) \ {d}
    BY <1>2, <1>1 DEF In
  <1>4. ASSUME NEW c \in In(k) \ {Root} PROVE \E b \in In(k), n \in DirEntries : k[c] = Sub(k[b], n)
    <2>1. c \in In(l) \ {Root} /\ c \in All \ {d}
      BY <1>3 DEF In
    <2>2. PICK b \in In(l), n \in DirEntries : l[c] = Sub(l[b], n)
      BY <2>1 DEF DirsSound
    <2>3. b # d
      BY <2>1, <2>2 DEF Leaf
    <2>4. b \in In(k) /\ b \in All \ {d}
      BY <2>2, <2>3, <1>3 DEF In
    <2> QED BY <2>1, <2>2, <2>4, <1>2
  <1>5. \A c, b \in In(k) : k[c] = k[b] => c = b
    BY <1>2, <1>3 DEF DirsSound, In
  <1>6. Root \in w \ {d} /\ w \ {d} \subseteq In(k)
    BY <1>3 DEF DirsSound
  <1>7. k[Root] = <<>>
    BY <1>1, <1>2
  <1>8. DirsSound(k, w \ {d})
    BY <1>2, <1>4, <1>5, <1>6, <1>7 DEF DirsSound
  <1> QED BY <1>2, <1>3, <1>8 DEF Differs

LEMMA EndKeeps ==
  ASSUME NEW l, NEW w, DirsSound(l, w), NEW p, NEW m, NEW q, InSync(l, w, p, m, q),
         NEW d \in w \ {Root}, Leaf(l, d),
         NEW e \in EventsOf(w), e.mask = "ignored", e.wd = d, e.name = <<>>,
         NEW k, k = Put(l, d, Removed)
  PROVE  InSync(k, w \ {d}, p, m, q \o <<e>>)
  <1> DEFINE r == q \o <<e>>
             v == w \ {d}
  <1>1. w \subseteq DOMAIN p /\ w \subseteq In(l) /\ d \in In(l) \ {Root}
    BY DEF InSync, MapsSound, DirsSound
  <1>2. e \in EventsOf(DOMAIN p)
    BY <1>1 DEF EventsOf
  <1>3. q \in Seq(EventsOf(DOMAIN p))
    BY DEF InSync, QueueTyped
  <1>4. Grown(EventsOf(DOMAIN p), q, e, r)
    BY <1>2, <1>3, OneMore DEF Grown
  <1>5. In(k) = In(l) \ {d} /\ (\A c \in All \ {d} : k[c] = l[c]) /\ k[d] = Removed
    <2>1. In(k) = In(l) \ {d} /\ Differs(l, k, d, Removed)
      BY <1>1, RemoveSound
    <2> QED BY <2>1 DEF Differs
  <1> HIDE DEF r
  <1>6. QueueTyped(p, r)
    BY <1>4 DEF InSync, QueueTyped, Grown
  <1>7. EndsLast(v, r)
    <2>1. \A i \in DOMAIN q : q[i].mask = "ignored" => q[i].wd # d
      BY DEF InSync, EndsLast
    <2> QED BY <2>1, <1>4 DEF InSync, EndsLast, Grown
  <1>8. EndsTold(v, p, r)
    <2>1. Ends(r[Len(q) + 1], d) /\ Len(q) + 1 \in DOMAIN r
      BY <1>4 DEF Ends, Grown
    <2>2. ASSUME NEW c \in DOMAIN p \ w PROVE \E i \in DOMAIN r : Ends(r[i], c)
      BY <1>4 DEF InSync, EndsTold, Grown, Ends
    <2> QED BY <2>1, <2>2 DEF EndsTold
  <1>9. ForgottenFirst(p, m, r)
    <2> SUFFICES ASSUME NEW c \in DOMAIN p, NEW j \in DOMAIN r, m[p[c]] # c, Ends(r[j], m[p[c]])
                 PROVE  \E i \in DOMAIN r : i < j /\ Ends(r[i], c)
      BY DEF ForgottenFirst
    <2>1. CASE j \in DOMAIN q
      <3>1. Ends(q[j], m[p[c]])
        BY <2>1, <1>4 DEF Grown
      <3>2. PICK i \in DOMAIN q : i < j /\ Ends(q[i], c)
        BY <2>1, <3>1 DEF InSync, ForgottenFirst
      <3> QED BY <3>2, <1>4 DEF Grown
    <2>2. CASE j = Len(q) + 1
      <3>1. c \notin w
        BY DEF InSync, MapsSound
      <3>2. PICK i \in DOMAIN q : Ends(q[i], c)
        BY <3>1 DEF InSync, EndsTold
      <3> QED BY <3>2, <2>2, <1>4 DEF Grown
    <2> QED BY <2>1, <2>2, <1>4 DEF Grown
  <1>10. MapsSound(k, v, p, m)
    <2>1. \A c \in v : k[c] = l[c]
      BY <1>1, <1>5 DEF In
    <2>2. \A c \in DOMAIN p \ v : k[c] = Removed
      BY <1>5 DEF InSync, MapsSound
    <2> QED BY <2>1, <2>2 DEF InSync, MapsSound
  <1> QED BY <1>6, <1>7, <1>8, <1>9, <1>10 DEF InSync, r

LEMMA AnnouncedRemoved ==
  ASSUME NEW l, NEW w, DirsSound(l, w), NEW d \in In(l) \ {Root}, Leaf(l, d),
         NEW q, NEW g, Announced(l, w, q, g), NEW k, k = Put(l, d, Removed)
  PROVE  Announced(k, w \ {d}, q, g)
  <1>1. In(k) = In(l) \ {d} /\ Differs(l, k, d, Removed)
    BY RemoveSound
  <1>2. w \subseteq In(l) /\ \A c \in In(k) : k[c] = l[c] /\ c # d
    BY <1>1 DEF DirsSound, Differs, In
  <1> SUFFICES ASSUME NEW c \in w \ {d}, NEW x \in In(k) \ (w \ {d}), NEW n \in DirEntries,
                      k[x] = Sub(k[c], n)
               PROVE  \/ \E i \in DOMAIN q : Makes(q[i], c, n)
                      \/ <<"watch", k[x]>> \in g \/ <<"list", k[c]>> \in g
    BY DEF Announced
  <1>3. c \in In(k) /\ x \in In(l) \ w
    BY <1>1, <1>2
  <1>4. k[x] = l[x] /\ k[c] = l[c]
    BY <1>2, <1>3
  <1> QED BY <1>3, <1>4 DEF Announced

LEMMA RemoveKeeps ==
  ASSUME NEW l, NEW w, DirsSound(l, w), NEW p, NEW m, NEW q, InSync(l, w, p, m, q),
         NEW d \in In(l) \ w, Leaf(l, d), NEW k, k = Put(l, d, Removed)
  PROVE  InSync(k, w, p, m, q)
  <1>1. d \in In(l) \ {Root} /\ w \subseteq In(l)
    BY DEF DirsSound
  <1>2. In(k) = In(l) \ {d} /\ (\A c \in All \ {d} : k[c] = l[c]) /\ k[d] = Removed
    <2>1. In(k) = In(l) \ {d} /\ Differs(l, k, d, Removed)
      BY <1>1, RemoveSound
    <2> QED BY <2>1 DEF Differs
  <1>3. d \notin DOMAIN p
    BY DEF InSync, MapsSound, In
  <1>4. MapsSound(k, w, p, m)
    BY <1>1, <1>2, <1>3 DEF InSync, MapsSound, In
  <1> QED BY <1>4 DEF InSync

LEMMA NotPaths == InotifyAssumption => {New, Out, Removed} \cap DirPath = {}
  <1> SUFFICES ASSUME InotifyAssumption, NEW z \in {New, Out, Removed} \cap DirPath PROVE FALSE
    OBVIOUS
  <1>1. z \in Seq(DirEntries) /\ Len(z) = 1 /\ z[1] \in {"new", "out", "gone"}
    BY DEF New, Out, Removed, DirPath
  <1>2. z[1] \in DirEntries
    BY <1>1
  <1> QED BY <1>1, <1>2 DEF InotifyAssumption

\* A directory is made; when its parent is watched it is announced.
LEMMA MakeSound ==
  ASSUME InotifyAssumption, NEW l, NEW w, DirsSound(l, w), NEW d \in All, l[d] = New, NEW x,
         NEW c \in In(l), NEW n \in DirEntries, x = Sub(l[c], n), Unused(l, x),
         NEW k, k = Put(l, d, x)
  PROVE  /\ DirsSound(k, w) /\ In(k) = In(l) \cup {d}
         /\ Differs(l, k, d, x) /\ d \notin In(l)
  <1>1. /\ l \in [All -> DirPath \cup {New, Removed}] /\ l[Root] = <<>> /\ Root \in All
        /\ In(l) \subseteq All
    BY DEF DirsSound, In, All
  <1>2. l[c] \in DirPath
    BY <1>1 DEF In
  <1>3. x \in DirPath
    BY <1>2, SubPath
  <1>4. x \notin {New, Out, Removed}
    BY <1>3, NotPaths
  <1>5. k \in [All -> DirPath \cup {New, Removed}] /\ k[d] = x
        /\ \A b \in All \ {d} : k[b] = l[b]
    BY <1>1, <1>3 DEF Put
  <1>6. d \notin In(l) /\ d # Root
    <2>1. New # <<>>
      BY DEF New
    <2> QED BY <2>1, <1>1 DEF In
  <1>7. In(k) = In(l) \cup {d}
    BY <1>4, <1>5 DEF In
  <1>8. ASSUME NEW a \in In(k) \ {Root} PROVE \E b \in In(k), o \in DirEntries : k[a] = Sub(k[b], o)
    <2>1. CASE a = d
      BY <2>1, <1>1, <1>5, <1>6, <1>7
    <2>2. CASE a # d
      <3>1. a \in In(l) \ {Root}
        BY <2>2, <1>7
      <3>2. PICK b \in In(l), o \in DirEntries : l[a] = Sub(l[b], o)
        BY <3>1 DEF DirsSound
      <3>3. k[a] = l[a] /\ k[b] = l[b] /\ b \in In(k)
        BY <3>1, <3>2, <1>1, <1>5, <1>6, <1>7
      <3> QED BY <3>2, <3>3
    <2> QED BY <2>1, <2>2
  <1>9. ASSUME NEW a \in In(k), NEW b \in In(k), k[a] = k[b] PROVE a = b
    <2>1. a \in All /\ b \in All /\ (a = d \/ a \in In(l)) /\ (b = d \/ b \in In(l))
      BY <1>1, <1>7
    <2>2. l[a] # x /\ l[b] # x
      BY <2>1 DEF Unused
    <2>3. CASE a # d /\ b # d
      <3>1. l[a] = l[b]
        BY <2>1, <2>3, <1>5, <1>9
      <3> QED BY <3>1, <2>1, <2>3 DEF DirsSound
    <2> QED BY <2>1, <2>2, <2>3, <1>5, <1>9
  <1>10. Root \in w /\ w \subseteq In(k)
    BY <1>7 DEF DirsSound
  <1>11. k[Root] = <<>>
    BY <1>1, <1>5, <1>6
  <1>12. DirsSound(k, w)
    BY <1>5, <1>8, <1>9, <1>10, <1>11 DEF DirsSound
  <1> QED BY <1>5, <1>6, <1>7, <1>12 DEF Differs

LEMMA MakeKeeps ==
  ASSUME InotifyAssumption, NEW l, NEW w, DirsSound(l, w), NEW d \in All, l[d] = New, NEW x,
         NEW c \in In(l), NEW n \in DirEntries, x = Sub(l[c], n), Unused(l, x),
         NEW p, NEW m, NEW r, InSync(l, w, p, m, r), NEW k, k = Put(l, d, x)
  PROVE  InSync(k, w, p, m, r)
  <1>1. /\ In(k) = In(l) \cup {d} /\ (\A b \in All \ {d} : k[b] = l[b]) /\ k[d] = x
        /\ d \notin In(l)
    <2>1. In(k) = In(l) \cup {d} /\ Differs(l, k, d, x) /\ d \notin In(l)
      BY MakeSound
    <2> QED BY <2>1 DEF Differs
  <1>2. In(l) \subseteq All /\ w \subseteq In(l) /\ l \in [All -> DirPath \cup {New, Removed}]
    BY DEF DirsSound, In
  <1>3. d \notin DOMAIN p
    <2>1. New # Removed
      BY DEF New, Removed
    <2>2. d \notin w
      BY <1>1, <1>2
    <2> QED BY <2>1, <2>2 DEF InSync, MapsSound
  <1>4. MapsSound(k, w, p, m)
    BY <1>1, <1>2, <1>3 DEF InSync, MapsSound
  <1> QED BY <1>4 DEF InSync

LEMMA AnnouncedMade ==
  ASSUME InotifyAssumption, NEW l, NEW w, DirsSound(l, w), NEW d \in All, l[d] = New, NEW x,
         NEW c \in In(l), NEW n \in DirEntries, x = Sub(l[c], n), Unused(l, x),
         NEW q, NEW g, Announced(l, w, q, g), c \in w => \E i \in DOMAIN q : Makes(q[i], c, n),
         NEW k, k = Put(l, d, x)
  PROVE  Announced(k, w, q, g)
  <1>1. /\ In(k) = In(l) \cup {d} /\ (\A b \in All \ {d} : k[b] = l[b]) /\ k[d] = x
        /\ d \notin In(l)
    <2>1. In(k) = In(l) \cup {d} /\ Differs(l, k, d, x) /\ d \notin In(l)
      BY MakeSound
    <2> QED BY <2>1 DEF Differs
  <1>2. In(l) \subseteq All /\ w \subseteq In(l) /\ l \in [All -> DirPath \cup {New, Removed}]
    BY DEF DirsSound, In
  <1> SUFFICES ASSUME NEW a \in w, NEW b \in In(k) \ w, NEW o \in DirEntries, k[b] = Sub(k[a], o)
               PROVE  \/ \E i \in DOMAIN q : Makes(q[i], a, o)
                      \/ <<"watch", k[b]>> \in g \/ <<"list", k[a]>> \in g
    BY DEF Announced
  <1>3. k[a] = l[a] /\ a \in In(l)
    BY <1>1, <1>2
  <1>4. CASE b = d
    <2>1. Sub(l[c], n) = Sub(l[a], o)
      BY <1>3, <1>4, <1>1
    <2>2. l[c] \in DirPath /\ l[a] \in DirPath
      BY <1>3, <1>2 DEF In
    <2>3. l[c] = l[a] /\ n = o
      BY <2>1, <2>2, SubSame
    <2>4. a = c
      BY <2>3, <1>3 DEF DirsSound
    <2> QED BY <2>3, <2>4
  <1>5. CASE b # d
    <2>1. b \in In(l) \ w /\ k[b] = l[b]
      BY <1>5, <1>1, <1>2
    <2> QED BY <2>1, <1>3 DEF Announced
  <1> QED BY <1>4, <1>5

-----------------------------------------------------------------------------
(* Inotify: read_events, one event.                                                *)

Shorter(S, q, r) ==
  /\ r \in Seq(S) /\ DOMAIN q = 1..Len(q) /\ Len(q) \in Nat \ {0}
  /\ DOMAIN r = 1..(Len(q) - 1)
  /\ \A i \in 1..(Len(q) - 1) : r[i] = q[i + 1]

LEMMA OneLess ==
  ASSUME NEW S, NEW q \in Seq(S), q # <<>>
  PROVE  Shorter(S, q, Tail(q))
  BY DEF Shorter

\* An event other than the end of a watch is read.
LEMMA ReadKeeps ==
  ASSUME NEW l, NEW w, NEW p, NEW m, NEW q, InSync(l, w, p, m, q), q # <<>>,
         q[1].mask # "ignored"
  PROVE  InSync(l, w, p, m, Tail(q))
  <1> DEFINE r == Tail(q)
             S == EventsOf(DOMAIN p)
  <1>1. Shorter(S, q, r)
    <2>1. q \in Seq(S)
      BY DEF InSync, QueueTyped
    <2> QED BY <2>1, OneLess
  <1> HIDE DEF r, S
  <1>2. \A i \in DOMAIN r : i + 1 \in DOMAIN q /\ r[i] = q[i + 1] /\ i \in Nat
    BY <1>1 DEF Shorter
  <1>3. \A i \in DOMAIN q : i # 1 => i - 1 \in DOMAIN r /\ q[i] = r[i - 1] /\ i \in Nat
    BY <1>1 DEF Shorter
  <1>4. QueueTyped(p, r)
    BY <1>1, <1>2 DEF InSync, QueueTyped, Shorter, S
  <1>5. EndsLast(w, r)
    <2> SUFFICES ASSUME NEW i \in DOMAIN r, r[i].mask = "ignored"
                 PROVE  /\ r[i].wd \notin w /\ r[i].name = <<>>
                        /\ \A j \in DOMAIN r : j > i => r[j].wd # r[i].wd
      BY DEF EndsLast
    <2>1. q[i + 1].mask = "ignored" /\ i + 1 \in DOMAIN q
      BY <1>2
    <2>2. /\ q[i + 1].wd \notin w /\ q[i + 1].name = <<>>
          /\ \A j \in DOMAIN q : j > i + 1 => q[j].wd # q[i + 1].wd
      BY <2>1 DEF InSync, EndsLast
    <2>3. ASSUME NEW j \in DOMAIN r, j > i PROVE r[j].wd # r[i].wd
      <3>1. j + 1 \in DOMAIN q /\ j + 1 > i + 1 /\ r[j] = q[j + 1]
        BY <1>2, <2>3
      <3> QED BY <3>1, <2>2, <1>2
    <2> QED BY <2>2, <2>3, <1>2
  <1>6. EndsTold(w, p, r)
    <2> SUFFICES ASSUME NEW d \in DOMAIN p \ w PROVE \E i \in DOMAIN r : Ends(r[i], d)
      BY DEF EndsTold
    <2>1. PICK i \in DOMAIN q : Ends(q[i], d)
      BY DEF InSync, EndsTold
    <2>2. i # 1
      BY <2>1 DEF Ends
    <2> QED BY <2>1, <2>2, <1>3
  <1>7. ForgottenFirst(p, m, r)
    <2> SUFFICES ASSUME NEW d \in DOMAIN p, NEW j \in DOMAIN r, m[p[d]] # d, Ends(r[j], m[p[d]])
                 PROVE  \E i \in DOMAIN r : i < j /\ Ends(r[i], d)
      BY DEF ForgottenFirst
    <2>1. j + 1 \in DOMAIN q /\ Ends(q[j + 1], m[p[d]])
      BY <1>2
    <2>2. PICK i \in DOMAIN q : i < j + 1 /\ Ends(q[i], d)
      BY <2>1 DEF InSync, ForgottenFirst
    <2>3. i # 1
      BY <2>2 DEF Ends
    <2>4. i - 1 \in DOMAIN r /\ q[i] = r[i - 1] /\ i - 1 < j
      BY <2>2, <2>3, <1>2, <1>3
    <2> QED BY <2>2, <2>4
  <1> QED BY <1>4, <1>5, <1>6, <1>7 DEF InSync, r

LEMMA AnnouncedRead ==
  ASSUME NEW S, NEW q \in Seq(S), q # <<>>, q[1].mask # "create",
         NEW l, NEW w, NEW g, Announced(l, w, q, g)
  PROVE  Announced(l, w, Tail(q), g)
  <1>1. Shorter(S, q, Tail(q))
    BY OneLess
  <1> SUFFICES ASSUME NEW c \in w, NEW d \in In(l) \ w, NEW n \in DirEntries, l[d] = Sub(l[c], n),
                      NEW i \in DOMAIN q, Makes(q[i], c, n)
               PROVE  \E j \in DOMAIN Tail(q) : Makes(Tail(q)[j], c, n)
    BY DEF Announced
  <1>2. i # 1
    BY DEF Makes
  <1>3. i - 1 \in DOMAIN Tail(q) /\ Tail(q)[i - 1] = q[i]
    BY <1>1, <1>2 DEF Shorter
  <1> QED BY <1>3

\* The end of a watch is read: the watch is forgotten, and its path unless another has it.
Forget(m, x, d) == IF m[x] = d THEN Without(m, x) ELSE m

LEMMA ReadEndKeeps ==
  ASSUME NEW l, NEW w, NEW p, NEW m, NEW q, InSync(l, w, p, m, q), q # <<>>,
         NEW d, Ends(q[1], d)
  PROVE  /\ d \in DOMAIN p /\ p[d] \in DOMAIN m /\ q[1].name = <<>>
         /\ InSync(l, w, Without(p, d), Forget(m, p[d], d), Tail(q))
  <1> DEFINE r == Tail(q)
             S == EventsOf(DOMAIN p)
             pp == Without(p, d)
             mm == Forget(m, p[d], d)
  <1>1. q \in Seq(S) /\ q[1] \in S
    BY DEF InSync, QueueTyped
  <1>2. Shorter(S, q, r)
    BY <1>1, OneLess
  <1>3. d \in DOMAIN p
    BY <1>1 DEF EventsOf, Ends
  <1>4. p[d] \in DOMAIN m
    BY <1>3 DEF InSync, MapsSound
  <1>5. 1 \in DOMAIN q
    BY <1>2 DEF Shorter
  <1>6. q[1].name = <<>> /\ d \notin w /\ \A j \in DOMAIN q : j > 1 => q[j].wd # d
    BY <1>5 DEF InSync, EndsLast, Ends
  <1>7. DOMAIN pp = DOMAIN p \ {d} /\ \A c \in DOMAIN pp : pp[c] = p[c]
    BY DEF Without
  <1>8. /\ m[p[d]] = d => DOMAIN mm = DOMAIN m \ {p[d]}
        /\ m[p[d]] # d => DOMAIN mm = DOMAIN m
        /\ \A x \in DOMAIN mm : mm[x] = m[x]
    BY DEF Without, Forget
  <1> HIDE DEF r, S, pp, mm
  <1>9. \A i \in DOMAIN r : i + 1 \in DOMAIN q /\ r[i] = q[i + 1] /\ i \in Nat /\ i + 1 > 1
    BY <1>2 DEF Shorter
  <1>10. \A i \in DOMAIN q : i # 1 => i - 1 \in DOMAIN r /\ q[i] = r[i - 1] /\ i \in Nat
    BY <1>2 DEF Shorter
  <1>11. ASSUME NEW c \in DOMAIN pp PROVE p[c] \in DOMAIN mm
    <2>1. p[c] \in DOMAIN m /\ c # d /\ c \in DOMAIN p
      BY <1>7 DEF InSync, MapsSound
    <2>2. CASE m[p[d]] = d /\ p[c] = p[d]
      <3>1. m[p[c]] # c /\ Ends(q[1], m[p[c]])
        BY <2>1, <2>2
      <3>2. PICK i \in DOMAIN q : i < 1 /\ Ends(q[i], c)
        BY <3>1, <2>1, <1>5 DEF InSync, ForgottenFirst
      <3> QED BY <3>2, <1>2 DEF Shorter
    <2> QED BY <2>1, <2>2, <1>8
  <1>12. MapsSound(l, w, pp, mm)
    <2>1. DOMAIN pp \subseteq All /\ pp \in [DOMAIN pp -> DirPath]
      <3>1. pp = [c \in DOMAIN pp |-> pp[c]]
        BY DEF pp, Without
      <3>2. \A c \in DOMAIN pp : pp[c] \in DirPath /\ c \in All
        BY <1>7 DEF InSync, MapsSound
      <3> QED BY <3>1, <3>2
    <2>2. ASSUME NEW x \in DOMAIN mm PROVE mm[x] \in DOMAIN pp /\ pp[mm[x]] = x
      <3>1. x \in DOMAIN m /\ mm[x] = m[x]
        BY <1>8
      <3>2. m[x] \in DOMAIN p /\ p[m[x]] = x
        BY <3>1 DEF InSync, MapsSound
      <3>3. m[x] # d
        BY <3>2, <1>8
      <3> QED BY <3>1, <3>2, <3>3, <1>7
    <2>3. ASSUME NEW c \in w PROVE c \in DOMAIN pp /\ pp[c] = l[c] /\ pp[c] \in DOMAIN mm /\ mm[pp[c]] = c
      <3>1. c \in DOMAIN p /\ p[c] = l[c] /\ m[p[c]] = c /\ c # d
        BY <1>6 DEF InSync, MapsSound
      <3>2. c \in DOMAIN pp /\ pp[c] = p[c]
        BY <3>1, <1>7
      <3> QED BY <3>1, <3>2, <1>8, <1>11
    <2>4. \A c \in DOMAIN pp \ w : l[c] = Removed
      BY <1>7 DEF InSync, MapsSound
    <2>5. \A c \in DOMAIN pp : pp[c] \in DOMAIN mm
      BY <1>7, <1>11
    <2> QED BY <2>1, <2>2, <2>3, <2>4, <2>5 DEF MapsSound
  <1>13. QueueTyped(pp, r)
    <2>1. ASSUME NEW i \in DOMAIN r PROVE r[i] \in EventsOf(DOMAIN pp)
      <3>1. r[i] \in EventsOf(DOMAIN p)
        BY <1>2 DEF Shorter, S
      <3>2. r[i].wd # d
        BY <1>6, <1>9
      <3> QED BY <3>1, <3>2, <1>7 DEF EventsOf
    <2>2. r \in Seq(EventsOf(DOMAIN pp))
      BY <2>1, <1>2 DEF Shorter
    <2> QED BY <2>2, <1>9 DEF InSync, QueueTyped
  <1>14. EndsLast(w, r)
    <2> SUFFICES ASSUME NEW i \in DOMAIN r, r[i].mask = "ignored"
                 PROVE  /\ r[i].wd \notin w /\ r[i].name = <<>>
                        /\ \A j \in DOMAIN r : j > i => r[j].wd # r[i].wd
      BY DEF EndsLast
    <2>1. q[i + 1].mask = "ignored" /\ i + 1 \in DOMAIN q
      BY <1>9
    <2>2. /\ q[i + 1].wd \notin w /\ q[i + 1].name = <<>>
          /\ \A j \in DOMAIN q : j > i + 1 => q[j].wd # q[i + 1].wd
      BY <2>1 DEF InSync, EndsLast
    <2>3. ASSUME NEW j \in DOMAIN r, j > i PROVE r[j].wd # r[i].wd
      <3>1. j + 1 \in DOMAIN q /\ j + 1 > i + 1 /\ r[j] = q[j + 1]
        BY <1>9, <2>3
      <3> QED BY <3>1, <2>2, <1>9
    <2> QED BY <2>2, <2>3, <1>9
  <1>15. EndsTold(w, pp, r)
    <2> SUFFICES ASSUME NEW c \in DOMAIN pp \ w PROVE \E i \in DOMAIN r : Ends(r[i], c)
      BY DEF EndsTold
    <2>1. PICK i \in DOMAIN q : Ends(q[i], c)
      BY <1>7 DEF InSync, EndsTold
    <2>2. i # 1
      BY <2>1, <1>7 DEF Ends
    <2> QED BY <2>1, <2>2, <1>10
  <1>16. ForgottenFirst(pp, mm, r)
    <2> SUFFICES ASSUME NEW c \in DOMAIN pp, NEW j \in DOMAIN r, mm[pp[c]] # c, Ends(r[j], mm[pp[c]])
                 PROVE  \E i \in DOMAIN r : i < j /\ Ends(r[i], c)
      BY DEF ForgottenFirst
    <2>1. j + 1 \in DOMAIN q /\ Ends(q[j + 1], m[p[c]]) /\ m[p[c]] # c /\ c \in DOMAIN p /\ c # d
      BY <1>7, <1>8, <1>9, <1>11
    <2>2. PICK i \in DOMAIN q : i < j + 1 /\ Ends(q[i], c)
      BY <2>1 DEF InSync, ForgottenFirst
    <2>3. i # 1
      BY <2>1, <2>2 DEF Ends
    <2>4. i - 1 \in DOMAIN r /\ q[i] = r[i - 1] /\ i - 1 < j
      BY <2>2, <2>3, <1>9, <1>10
    <2> QED BY <2>2, <2>4
  <1> QED BY <1>3, <1>4, <1>6, <1>12, <1>13, <1>14, <1>15, <1>16 DEF InSync, r, pp, mm

\* A directory gets its watch, if it has none yet, and both maps an entry.
LEMMA WatchKeeps ==
  ASSUME NEW l, NEW w, DirsSound(l, w), NEW p, NEW m, NEW q, InSync(l, w, p, m, q), NEW d \in In(l)
  PROVE  InSync(l, w \cup {d}, With(p, d, l[d]), With(m, l[d], d), q)
  <1> DEFINE v == w \cup {d}
             pp == With(p, d, l[d])
             mm == With(m, l[d], d)
  <1>1. DOMAIN pp = DOMAIN p \cup {d} /\ pp[d] = l[d] /\ \A c \in DOMAIN p \ {d} : pp[c] = p[c]
    BY DEF With
  <1>2. DOMAIN mm = DOMAIN m \cup {l[d]} /\ mm[l[d]] = d /\ \A x \in DOMAIN m \ {l[d]} : mm[x] = m[x]
    BY DEF With
  <1>3. In(l) \subseteq All /\ l[d] \in DirPath
    BY DEF In, DirsSound
  <1>4. d \in DOMAIN p => d \in w /\ p[d] = l[d] /\ l[d] \in DOMAIN m /\ m[l[d]] = d
    BY DEF InSync, MapsSound, In
  <1>5. pp = [c \in DOMAIN pp |-> pp[c]]
    BY DEF With
  <1> HIDE DEF pp, mm
  <1>6. MapsSound(l, v, pp, mm)
    <2>1. DOMAIN pp \subseteq All /\ pp \in [DOMAIN pp -> DirPath]
      <3>1. \A c \in DOMAIN pp : pp[c] \in DirPath /\ c \in All
        BY <1>1, <1>3 DEF InSync, MapsSound
      <3> QED BY <3>1, <1>5
    <2>2. ASSUME NEW x \in DOMAIN mm PROVE mm[x] \in DOMAIN pp /\ pp[mm[x]] = x
      <3>1. CASE x = l[d]
        BY <3>1, <1>1, <1>2
      <3>2. CASE x # l[d]
        <4>1. x \in DOMAIN m /\ mm[x] = m[x]
          BY <3>2, <1>2
        <4>2. m[x] \in DOMAIN p /\ p[m[x]] = x
          BY <4>1 DEF InSync, MapsSound
        <4>3. m[x] # d
          BY <4>2, <3>2, <1>4
        <4> QED BY <4>1, <4>2, <4>3, <1>1
      <3> QED BY <3>1, <3>2
    <2>3. ASSUME NEW c \in v PROVE c \in DOMAIN pp /\ pp[c] = l[c] /\ pp[c] \in DOMAIN mm /\ mm[pp[c]] = c
      <3>1. CASE c = d
        BY <3>1, <1>1, <1>2
      <3>2. CASE c # d
        <4>1. c \in DOMAIN p /\ p[c] = l[c] /\ l[c] \in DOMAIN m /\ m[l[c]] = c /\ c \in In(l)
          BY <3>2 DEF InSync, MapsSound, DirsSound
        <4>2. l[d] # l[c]
          BY <4>1, <3>2 DEF DirsSound
        <4> QED BY <4>1, <4>2, <3>2, <1>1, <1>2
      <3> QED BY <3>1, <3>2
    <2>4. \A c \in DOMAIN pp \ v : l[c] = Removed
      BY <1>1 DEF InSync, MapsSound
    <2>5. \A c \in DOMAIN pp : pp[c] \in DOMAIN mm
      BY <1>1, <1>2 DEF InSync, MapsSound
    <2> QED BY <2>1, <2>2, <2>3, <2>4, <2>5 DEF MapsSound
  <1>7. ASSUME NEW i \in DOMAIN q PROVE q[i].wd \in DOMAIN p /\ (q[i].mask = "ignored" => q[i].wd \notin v)
    <2>1. q[i] \in EventsOf(DOMAIN p)
      BY DEF InSync, QueueTyped
    <2>2. q[i].wd \in DOMAIN p
      BY <2>1 DEF EventsOf
    <2>3. q[i].mask = "ignored" => q[i].wd \notin w
      BY DEF InSync, EndsLast
    <2> QED BY <2>2, <2>3, <1>4
  <1>8. QueueTyped(pp, q)
    <2>1. EventsOf(DOMAIN p) \subseteq EventsOf(DOMAIN pp)
      BY <1>1 DEF EventsOf
    <2>2. q \in Seq(EventsOf(DOMAIN p))
      BY DEF InSync, QueueTyped
    <2>3. q \in Seq(EventsOf(DOMAIN pp))
      BY <2>1, <2>2
    <2> QED BY <2>3 DEF InSync, QueueTyped
  <1>9. EndsLast(v, q)
    BY <1>7 DEF InSync, EndsLast
  <1>10. EndsTold(v, pp, q)
    BY <1>1 DEF InSync, EndsTold
  <1>11. ForgottenFirst(pp, mm, q)
    <2> SUFFICES ASSUME NEW c \in DOMAIN pp, NEW j \in DOMAIN q, mm[pp[c]] # c, Ends(q[j], mm[pp[c]])
                 PROVE  \E i \in DOMAIN q : i < j /\ Ends(q[i], c)
      BY DEF ForgottenFirst
    <2>1. c \in DOMAIN p \ {d} /\ pp[c] = p[c] /\ p[c] \in DOMAIN m
      BY <1>1, <1>2 DEF InSync, MapsSound
    <2>2. p[c] # l[d]
      BY <2>1, <1>2, <1>7 DEF Ends
    <2>3. mm[p[c]] = m[p[c]]
      BY <2>1, <2>2, <1>2
    <2> QED BY <2>1, <2>3 DEF InSync, ForgottenFirst
  <1> QED BY <1>6, <1>8, <1>9, <1>10, <1>11 DEF InSync, pp, mm

LEMMA WatchSound ==
  ASSUME NEW l, NEW w, DirsSound(l, w), NEW s \in SUBSET In(l)
  PROVE  DirsSound(l, w \cup s)
  BY DEF DirsSound

\* The event of a new directory names its place, when its parent still has its watch.
LEMMA PlaceNamed ==
  ASSUME NEW l, NEW w, NEW p, NEW m, MapsSound(l, w, p, m), NEW ev, NEW c \in w,
         NEW n \in DirEntries, Makes(ev, c, n)
  PROVE  PathIn(p, ev) = Sub(l[c], n)
  <1>1. ev.wd = c /\ ev.name = <<n>>
    BY DEF Makes
  <1>2. p[c] = l[c]
    BY DEF MapsSound
  <1> QED BY <1>1, <1>2 DEF PathIn, Sub

\* After that event the directory s at that place, if there is one, has its watch and is to
\* be listed, ...
LEMMA AnnouncedBegun ==
  ASSUME NEW l, NEW w, NEW p, NEW m, MapsSound(l, w, p, m), NEW S, NEW q \in Seq(S), q # <<>>,
         Announced(l, w, q, {}), NEW s, s = {d \in In(l) : l[d] = PathIn(p, q[1])},
         NEW g, s # {} => <<"list", PathIn(p, q[1])>> \in g
  PROVE  Announced(l, w \cup s, Tail(q), g)
  <1>1. Shorter(S, q, Tail(q))
    BY OneLess
  <1> SUFFICES ASSUME NEW c \in w \cup s, NEW b \in In(l) \ (w \cup s), NEW n \in DirEntries,
                      l[b] = Sub(l[c], n)
               PROVE  (\E j \in DOMAIN Tail(q) : Makes(Tail(q)[j], c, n)) \/ <<"list", l[c]>> \in g
    BY DEF Announced
  <1>2. CASE c \in s
    BY <1>2
  <1>3. CASE c \in w
    <2>1. PICK i \in DOMAIN q : Makes(q[i], c, n)
      BY <1>3 DEF Announced
    <2>2. i # 1
      <3> SUFFICES ASSUME i = 1 PROVE FALSE
        OBVIOUS
      <3>1. PathIn(p, q[1]) = Sub(l[c], n)
        BY <1>3, <2>1, PlaceNamed
      <3> QED BY <3>1
    <2>3. i - 1 \in DOMAIN Tail(q) /\ Tail(q)[i - 1] = q[i]
      BY <1>1, <2>2 DEF Shorter
    <2> QED BY <2>1, <2>3
  <1> QED BY <1>2, <1>3

\* ... so it is when the walk gives the directory s at the path x its watch, ...
LEMMA AnnouncedWatched ==
  ASSUME NEW l, NEW w, NEW q, NEW g, Announced(l, w, q, g), NEW x, NEW s, s = {d \in In(l) : l[d] = x}
  PROVE  Announced(l, w \cup s, q, (g \ {<<"watch", x>>}) \cup {<<"list", x>>})
  <1> DEFINE h == (g \ {<<"watch", x>>}) \cup {<<"list", x>>}
  <1> SUFFICES ASSUME NEW c \in w \cup s, NEW b \in In(l) \ (w \cup s), NEW n \in DirEntries,
                      l[b] = Sub(l[c], n)
               PROVE  \/ \E i \in DOMAIN q : Makes(q[i], c, n)
                      \/ <<"watch", l[b]>> \in h \/ <<"list", l[c]>> \in h
    BY DEF Announced
  <1>1. CASE c \in s
    BY <1>1
  <1>2. CASE c \in w
    <2>1. \/ \E i \in DOMAIN q : Makes(q[i], c, n)
          \/ <<"watch", l[b]>> \in g \/ <<"list", l[c]>> \in g
      BY <1>2 DEF Announced
    <2>2. l[b] # x
      OBVIOUS
    <2> QED BY <2>1, <2>2
  <1> QED BY <1>1, <1>2

\* ... and when it has listed what is in the directory at the path x these are to get theirs.
LEMMA AnnouncedListed ==
  ASSUME NEW l, NEW w, DirsSound(l, w), NEW q, NEW g, Announced(l, w, q, g), NEW x,
         NEW h, h = (g \ {<<"list", x>>})
                    \cup {<<"watch", l[d]>> : d \in {c \in In(l) \ {Root} : Front(l[c]) = x}}
  PROVE  Announced(l, w, q, h)
  <1> SUFFICES ASSUME NEW c \in w, NEW b \in In(l) \ w, NEW n \in DirEntries, l[b] = Sub(l[c], n)
               PROVE  \/ \E i \in DOMAIN q : Makes(q[i], c, n)
                      \/ <<"watch", l[b]>> \in h \/ <<"list", l[c]>> \in h
    BY DEF Announced
  <1>1. \/ \E i \in DOMAIN q : Makes(q[i], c, n)
        \/ <<"watch", l[b]>> \in g \/ <<"list", l[c]>> \in g
    BY DEF Announced
  <1>2. CASE l[c] = x
    <2>1. l[c] \in DirPath
      BY DEF DirsSound, In
    <2>2. Front(l[b]) = x
      BY <2>1, <1>2, PathAppend DEF DirPath, Sub
    <2>3. b # Root
      BY DEF DirsSound
    <2>4. <<"watch", l[b]>> \in h
      BY <2>2, <2>3
    <2> QED BY <2>4
  <1>3. CASE l[c] # x
    <2>1. <<"list", l[c]>> # <<"list", x>> /\ <<"watch", l[b]>> # <<"list", x>>
      BY <1>3
    <2> QED BY <1>1, <2>1
  <1> QED BY <1>2, <1>3

-----------------------------------------------------------------------------
(* Inotify: the rename of a directory.                                             *)

\* where the path x is after `from` has moved to `to`
MovedPath(x, from, to) == IF x = from \/ Below(x, from) THEN Rebase(x, from, to) ELSE x

\* In the tree l a directory moves from `from` to `to`, where nothing is.
Moves(l, d, to) ==
  /\ d \in In(l) \ {Root} /\ to \in DirPath /\ to # l[d] /\ ~Below(to, l[d])
  /\ \A c \in In(l) : l[c] # to /\ ~Below(l[c], to)
  /\ \E c \in In(l), n \in DirEntries : to = Sub(l[c], n)

After(l, d, to) == [c \in All |-> IF c \in In(l) THEN MovedPath(l[c], l[d], to) ELSE l[c]]

LEMMA MovedPaths ==
  ASSUME NEW l, NEW w, DirsSound(l, w), NEW d, NEW to, Moves(l, d, to), NEW c \in In(l)
  PROVE  /\ l[c] \in DirPath /\ l[d] \in DirPath /\ MovedPath(l[c], l[d], to) \in DirPath
         /\ c = d => MovedPath(l[c], l[d], to) = to /\ ~Below(l[c], l[d])
         /\ Below(l[c], l[d]) => /\ MovedPath(l[c], l[d], to) = Rebase(l[c], l[d], to)
                                 /\ Below(MovedPath(l[c], l[d], to), to)
                                 /\ c # d
         /\ c # d /\ ~Below(l[c], l[d]) => MovedPath(l[c], l[d], to) = l[c]
         /\ ~Below(to, to)
  <1>1. l[c] \in DirPath /\ l[d] \in DirPath /\ to \in DirPath /\ d \in In(l)
    BY DEF DirsSound, In, Moves
  <1>2. ~Below(l[d], l[d]) /\ ~Below(to, to)
    BY <1>1, BelowIs DEF DirPath
  <1>3. Rebase(l[d], l[d], to) = to
    BY <1>1, RebaseSelf DEF DirPath
  <1>4. Below(l[c], l[d]) => Rebase(l[c], l[d], to) \in DirPath /\ Below(Rebase(l[c], l[d], to), to)
    BY <1>1, RebaseBelow DEF DirPath
  <1>5. l[c] = l[d] <=> c = d
    BY <1>1 DEF DirsSound
  <1> QED BY <1>1, <1>2, <1>3, <1>4, <1>5 DEF MovedPath

LEMMA MoveInjective ==
  ASSUME NEW l, NEW w, DirsSound(l, w), NEW d, NEW to, Moves(l, d, to),
         NEW b \in In(l), NEW c \in In(l), MovedPath(l[b], l[d], to) = MovedPath(l[c], l[d], to)
  PROVE  b = c
  <1> DEFINE f == l[d]
             x == l[b]
             y == l[c]
  <1>1. /\ x \in DirPath /\ f \in DirPath /\ y \in DirPath /\ to \in DirPath /\ ~Below(to, to)
        /\ b = d => MovedPath(x, f, to) = to
        /\ Below(x, f) => MovedPath(x, f, to) = Rebase(x, f, to) /\ Below(MovedPath(x, f, to), to)
        /\ b # d /\ ~Below(x, f) => MovedPath(x, f, to) = x
    BY MovedPaths DEF Moves
  <1>2. /\ c = d => MovedPath(y, f, to) = to
        /\ Below(y, f) => MovedPath(y, f, to) = Rebase(y, f, to) /\ Below(MovedPath(y, f, to), to)
        /\ c # d /\ ~Below(y, f) => MovedPath(y, f, to) = y
    BY MovedPaths
  <1>3. x # to /\ ~Below(x, to) /\ y # to /\ ~Below(y, to)
    BY DEF Moves
  <1>4. MovedPath(x, f, to) = MovedPath(y, f, to) /\ (x = y => b = c)
    BY DEF DirsSound
  <1> HIDE DEF f, x, y
  <1>5. CASE Below(x, f) /\ Below(y, f)
    <2>1. Rebase(x, f, to) = Rebase(y, f, to)
      BY <1>1, <1>2, <1>4, <1>5
    <2>2. x = y
      BY <2>1, <1>1, <1>5, RebaseInjective DEF DirPath
    <2> QED BY <2>2, <1>4
  <1>6. CASE ~Below(x, f) \/ ~Below(y, f)
    BY <1>1, <1>2, <1>3, <1>4, <1>6
  <1> QED BY <1>5, <1>6

LEMMA MovedTreeSound ==
  ASSUME InotifyAssumption, NEW l, NEW w, DirsSound(l, w), NEW d, NEW to, Moves(l, d, to)
  PROVE  DirsSound(After(l, d, to), w) /\ In(After(l, d, to)) = In(l)
  <1> DEFINE k == After(l, d, to)
             f == l[d]
  <1>1. In(l) \subseteq All /\ Root \in In(l) /\ l \in [All -> DirPath \cup {New, Removed}]
        /\ l[Root] = <<>> /\ d \in In(l) /\ d # Root
    BY DEF DirsSound, In, Moves
  <1>2. \A c \in In(l) : k[c] = MovedPath(l[c], f, to) /\ k[c] \in DirPath
    BY <1>1, MovedPaths DEF After
  <1>3. \A c \in All \ In(l) : k[c] = l[c]
    BY DEF After
  <1>4. k = [c \in All |-> k[c]]
    BY DEF After
  <1> HIDE DEF k
  <1>5. k \in [All -> DirPath \cup {New, Removed}]
    BY <1>1, <1>2, <1>3, <1>4
  <1>6. In(k) = In(l)
    BY <1>1, <1>2, <1>3, NotPaths DEF In
  <1>7. k[Root] = <<>>
    <2>1. ~Below(l[Root], f)
      <3>1. <<>> \in DirPath /\ f \in DirPath
        BY <1>1, MovedPaths
      <3>2. Below(<<>>, f) => Len(f) < Len(<<>>)
        BY <3>1, BelowIs DEF DirPath
      <3>3. Len(f) \in Nat /\ Len(<<>>) = 0
        BY <3>1 DEF DirPath
      <3> QED BY <3>2, <3>3, <1>1
    <2>2. MovedPath(l[Root], f, to) = l[Root]
      BY <2>1, <1>1, MovedPaths
    <2> QED BY <2>2, <1>1, <1>2
  <1>8. \A b, c \in In(k) : k[b] = k[c] => b = c
    BY <1>2, <1>6, MoveInjective
  <1>9. ASSUME NEW c \in In(k) \ {Root} PROVE \E b \in In(k), n \in DirEntries : k[c] = Sub(k[b], n)
    <2>1. CASE c = d
      <3>1. k[c] = to
        BY <2>1, <1>1, <1>2, MovedPaths
      <3>2. PICK b \in In(l), n \in DirEntries : to = Sub(l[b], n)
        BY DEF Moves
      <3>3. l[b] \in DirPath /\ f \in DirPath /\ to # f /\ ~Below(to, f)
        BY <3>2, MovedPaths DEF Moves
      <3>4. Below(to, f) <=> l[b] = f \/ Below(l[b], f)
        BY <3>2, <3>3, BelowAppend DEF DirPath, Sub
      <3>5. k[b] = l[b]
        BY <3>3, <3>4, <3>2, <1>2 DEF MovedPath
      <3> QED BY <3>1, <3>2, <3>5, <1>6
    <2>2. CASE c # d
      <3>1. PICK b \in In(l), n \in DirEntries : l[c] = Sub(l[b], n)
        BY <1>6 DEF DirsSound
      <3>2. l[b] \in DirPath /\ f \in DirPath /\ l[c] \in DirPath /\ to \in DirPath /\ c \in In(l)
        BY <3>1, <1>6, MovedPaths DEF Moves
      <3>3. Below(l[c], f) <=> l[b] = f \/ Below(l[b], f)
        BY <3>1, <3>2, BelowAppend DEF DirPath, Sub
      <3>4. l[c] # f
        BY <2>2, <1>1, <3>2 DEF DirsSound
      <3>5. CASE Below(l[c], f)
        <4>1. Rebase(Sub(l[b], n), f, to) = Sub(Rebase(l[b], f, to), n)
          BY <3>2, <3>3, <3>5, RebaseAppend DEF DirPath
        <4>2. k[c] = Rebase(l[c], f, to) /\ k[b] = Rebase(l[b], f, to)
          BY <3>1, <3>2, <3>3, <3>5, <1>2 DEF MovedPath
        <4> QED BY <4>1, <4>2, <3>1, <1>6
      <3>6. CASE ~Below(l[c], f)
        <4>1. k[c] = l[c] /\ k[b] = l[b]
          BY <3>1, <3>2, <3>3, <3>4, <3>6, <1>2 DEF MovedPath
        <4> QED BY <4>1, <3>1, <1>6
      <3> QED BY <3>5, <3>6
    <2> QED BY <2>1, <2>2
  <1>10. Root \in w /\ w \subseteq In(k)
    BY <1>6 DEF DirsSound
  <1>11. DirsSound(k, w)
    BY <1>5, <1>7, <1>8, <1>9, <1>10 DEF DirsSound
  <1> QED BY <1>6, <1>11 DEF k

\* All directories of the tree l have watches, and a watch that has ended was known by the
\* path to which the directory moves. The two maps are then as the tree after the move.
Settled(l, w, p, m, d, to) ==
  /\ w = In(l) /\ MapsSound(l, w, p, m) /\ Moves(l, d, to)
  /\ \A c \in DOMAIN p \ w : p[c] = to

WdsAre(l, w, m) == DOMAIN m = {l[c] : c \in w} /\ \A c \in w : m[l[c]] = c

\* the map by path, once the directory's own entry has moved, and the paths still to move
OwnMoved(l, w, d, to, own, moving) ==
  /\ DOMAIN own = {l[c] : c \in w \ {d}} \cup {to} /\ own[to] = d
  /\ \A c \in w \ {d} : own[l[c]] = c
  /\ moving = {l[c] : c \in {b \in w : Below(l[b], l[d])}}

LEMMA RenamedWds ==
  ASSUME Recursive, NEW l, NEW w, DirsSound(l, w), NEW p, NEW m, NEW d, NEW to,
         Settled(l, w, p, m, d, to)
  PROVE  /\ m[l[d]] = d
         /\ OwnMoved(l, w, d, to, RenamedWd(m, l[d], to), Moving(RenamedWd(m, l[d], to), l[d]))
  <1> DEFINE f == l[d]
             own == RenamedWd(m, f, to)
  <1>1. w = In(l) /\ d \in w /\ ~Below(to, f) /\ to # f /\ \A c \in w : l[c] # to
    BY DEF Settled, Moves
  <1>2. \A c \in w : l[c] \in DOMAIN m /\ m[l[c]] = c
    BY DEF Settled, MapsSound
  <1>3. ASSUME NEW x \in DOMAIN m PROVE x = to \/ \E c \in w : x = l[c]
    <2>1. m[x] \in DOMAIN p /\ p[m[x]] = x
      BY DEF Settled, MapsSound
    <2>2. CASE m[x] \in w
      BY <2>1, <2>2 DEF Settled, MapsSound
    <2>3. CASE m[x] \notin w
      BY <2>1, <2>3 DEF Settled
    <2> QED BY <2>2, <2>3
  <1>4. DOMAIN own = (DOMAIN m \ {f}) \cup {to} /\ own[to] = m[f]
        /\ \A x \in DOMAIN m \ {f, to} : own[x] = m[x]
    BY DEF RenamedWd, With, Without
  <1>5. \A c \in w : l[c] = f <=> c = d
    BY <1>1 DEF DirsSound
  <1> HIDE DEF f, own
  <1>6. DOMAIN own = {l[c] : c \in w \ {d}} \cup {to}
    BY <1>1, <1>2, <1>3, <1>4, <1>5
  <1>7. own[to] = d
    BY <1>1, <1>2, <1>4 DEF f
  <1>8. \A c \in w \ {d} : own[l[c]] = c
    BY <1>1, <1>2, <1>4, <1>5
  <1>9. Moving(own, f) = {x \in DOMAIN own : Below(x, f)}
    BY DEF Moving
  <1>10. ~Below(l[d], f)
    BY <1>1, MovedPaths DEF f, Settled
  <1>11. Moving(own, f) = {l[c] : c \in {b \in w : Below(l[b], f)}}
    BY <1>1, <1>6, <1>9, <1>10
  <1> QED BY <1>1, <1>2, <1>6, <1>7, <1>8, <1>11 DEF own, f, OwnMoved

LEMMA MovedPathsAre ==
  ASSUME Recursive, NEW l, NEW w, DirsSound(l, w), NEW p, NEW m, NEW d, NEW to,
         Settled(l, w, p, m, d, to)
  PROVE  /\ PathsMoved(p, m, l[d], to) = [c \in DOMAIN p |-> PathsMoved(p, m, l[d], to)[c]]
         /\ \A c \in w : PathsMoved(p, m, l[d], to)[c] = After(l, d, to)[c]
         /\ \A c \in DOMAIN p \ w : PathsMoved(p, m, l[d], to)[c] = to
  <1> DEFINE f == l[d]
             own == RenamedWd(m, f, to)
             moving == Moving(own, f)
             moved(c) == {x \in moving : own[x] = c}
             known == With(p, m[f], to)
             pp == PathsMoved(p, m, f, to)
  <1>1. /\ m[f] = d /\ \A c \in w \ {d} : own[l[c]] = c
        /\ moving = {l[c] : c \in {b \in w : Below(l[b], f)}}
    <2>1. m[f] = d /\ OwnMoved(l, w, d, to, own, moving)
      BY RenamedWds
    <2> QED BY <2>1 DEF OwnMoved
  <1>2. w = In(l) /\ d \in w /\ w \subseteq DOMAIN p /\ \A c \in w : p[c] = l[c]
    BY DEF Settled, MapsSound, Moves
  <1>3. pp = [c \in DOMAIN known \cup {own[x] : x \in moving} |->
                IF moved(c) # {} THEN Rebase(CHOOSE x \in moved(c) : TRUE, f, to) ELSE known[c]]
    BY DEF PathsMoved
  <1>4. DOMAIN known = DOMAIN p \cup {m[f]} /\ known[m[f]] = to
        /\ \A c \in DOMAIN p : c # m[f] => known[c] = p[c]
    BY DEF With
  <1>5. ASSUME NEW c \in w
        PROVE  /\ c = d => After(l, d, to)[c] = to /\ ~Below(l[c], f)
               /\ Below(l[c], f) => After(l, d, to)[c] = Rebase(l[c], f, to) /\ c # d
               /\ c # d /\ ~Below(l[c], f) => After(l, d, to)[c] = l[c]
    <2>1. c \in In(l) /\ c \in All /\ Moves(l, d, to)
      BY <1>2 DEF In, Settled
    <2>2. After(l, d, to)[c] = MovedPath(l[c], f, to)
      BY <2>1 DEF After
    <2> QED BY <2>1, <2>2, MovedPaths
  <1> HIDE DEF f, own, moving, known, pp
  <1>6. ASSUME NEW x \in moving PROVE \E c \in w : x = l[c] /\ own[x] = c /\ Below(l[c], f)
    BY <1>1, <1>5
  <1>7. \A c : moved(c) # {} => c \in w /\ Below(l[c], f)
    BY <1>6
  <1>8. ASSUME NEW c \in w, Below(l[c], f) PROVE moved(c) = {l[c]}
    <2>1. l[c] \in moved(c)
      BY <1>1, <1>5, <1>8
    <2>2. \A x \in moved(c) : x = l[c]
      BY <1>6
    <2> QED BY <2>1, <2>2
  <1>9. DOMAIN known \cup {own[x] : x \in moving} = DOMAIN p
    BY <1>1, <1>2, <1>4, <1>6
  <1>10. \A c \in DOMAIN p : pp[c] = IF moved(c) # {} THEN Rebase(CHOOSE x \in moved(c) : TRUE, f, to)
                                     ELSE known[c]
    BY <1>3, <1>9
  <1>11. pp = [c \in DOMAIN p |-> pp[c]]
    BY <1>3, <1>9
  <1>12. ASSUME NEW c \in w PROVE pp[c] = After(l, d, to)[c]
    <2>1. CASE Below(l[c], f)
      <3>1. (CHOOSE x \in moved(c) : TRUE) = l[c] /\ moved(c) # {}
        BY <2>1, <1>8
      <3>2. pp[c] = Rebase(l[c], f, to)
        BY <3>1, <1>2, <1>10
      <3> QED BY <3>2, <2>1, <1>5
    <2>2. CASE ~Below(l[c], f)
      <3>1. pp[c] = known[c]
        BY <2>2, <1>2, <1>7, <1>10
      <3> QED BY <3>1, <2>2, <1>1, <1>2, <1>4, <1>5
    <2> QED BY <2>1, <2>2
  <1>13. ASSUME NEW c \in DOMAIN p \ w PROVE pp[c] = to
    <2>1. pp[c] = known[c]
      BY <1>7, <1>10
    <2>2. known[c] = p[c]
      BY <1>1, <1>2, <1>4
    <2> QED BY <2>1, <2>2 DEF Settled
  <1> QED BY <1>11, <1>12, <1>13 DEF pp, f

LEMMA MovedWdsAre ==
  ASSUME Recursive, NEW l, NEW w, DirsSound(l, w), NEW p, NEW m, NEW d, NEW to,
         Settled(l, w, p, m, d, to)
  PROVE  WdsAre(After(l, d, to), w, WdsMoved(m, l[d], to))
  <1> DEFINE f == l[d]
             own == RenamedWd(m, f, to)
             moving == Moving(own, f)
             origin(x) == {y \in moving : Rebase(y, f, to) = x}
             mm == WdsMoved(m, f, to)
             k == After(l, d, to)
  <1>1. /\ own[to] = d /\ (\A c \in w \ {d} : own[l[c]] = c)
        /\ DOMAIN own = {l[c] : c \in w \ {d}} \cup {to}
        /\ moving = {l[c] : c \in {b \in w : Below(l[b], f)}}
    <2>1. m[f] = d /\ OwnMoved(l, w, d, to, own, moving)
      BY RenamedWds
    <2> QED BY <2>1 DEF OwnMoved
  <1>2. w = In(l) /\ d \in w /\ Moves(l, d, to)
    BY DEF Settled, Moves
  <1>3. mm = [x \in (DOMAIN own \ moving) \cup {Rebase(y, f, to) : y \in moving} |->
                IF origin(x) # {} THEN own[CHOOSE y \in origin(x) : TRUE] ELSE own[x]]
    BY DEF WdsMoved
  <1>4. ASSUME NEW c \in w
        PROVE  /\ c = d => k[c] = to /\ ~Below(l[c], f)
               /\ Below(l[c], f) => k[c] = Rebase(l[c], f, to) /\ Below(k[c], to) /\ c # d
               /\ c # d /\ ~Below(l[c], f) => k[c] = l[c]
               /\ l[c] # to /\ ~Below(l[c], to) /\ ~Below(to, to)
    <2>1. c \in In(l) /\ c \in All
      BY <1>2 DEF In
    <2>2. k[c] = MovedPath(l[c], f, to)
      BY <2>1 DEF After
    <2>3. l[c] # to /\ ~Below(l[c], to)
      BY <1>2 DEF Moves
    <2> QED BY <2>1, <2>2, <2>3, <1>2, MovedPaths
  <1>5. \A b, c \in w : k[b] = k[c] => b = c
    <2> SUFFICES ASSUME NEW b \in w, NEW c \in w, k[b] = k[c] PROVE b = c
      OBVIOUS
    <2>1. k[b] = MovedPath(l[b], f, to) /\ k[c] = MovedPath(l[c], f, to) /\ b \in In(l) /\ c \in In(l)
      BY <1>2 DEF After, In
    <2> QED BY <2>1, <1>2, MoveInjective
  <1>6. \A b, c \in w : l[b] = l[c] => b = c
    BY <1>2 DEF DirsSound
  <1> HIDE DEF f, own, moving, mm, k
  <1>7. ASSUME NEW x \in moving PROVE \E c \in w \ {d} : x = l[c] /\ own[x] = c /\ Below(l[c], f)
                                                         /\ k[c] = Rebase(x, f, to)
    BY <1>1, <1>4
  <1>8. ASSUME NEW c \in w, Below(l[c], f) PROVE l[c] \in moving /\ origin(k[c]) = {l[c]} /\ own[l[c]] = c
    <2>1. l[c] \in moving /\ own[l[c]] = c /\ l[c] \in origin(k[c])
      BY <1>1, <1>4, <1>8
    <2>2. ASSUME NEW y \in origin(k[c]) PROVE y = l[c]
      <3>1. PICK b \in w \ {d} : y = l[b] /\ k[b] = Rebase(y, f, to)
        BY <1>7
      <3>2. k[b] = k[c]
        BY <3>1
      <3> QED BY <3>1, <3>2, <1>5
    <2> QED BY <2>1, <2>2
  <1>9. ASSUME NEW c \in w, ~Below(l[c], f) PROVE origin(k[c]) = {} /\ k[c] \in DOMAIN own \ moving /\ own[k[c]] = c
    <2>1. origin(k[c]) = {}
      <3> SUFFICES ASSUME NEW y \in origin(k[c]) PROVE FALSE
        OBVIOUS
      <3>1. PICK b \in w \ {d} : y = l[b] /\ k[b] = Rebase(y, f, to) /\ Below(l[b], f)
        BY <1>7
      <3>2. k[b] = k[c]
        BY <3>1
      <3> QED BY <3>1, <3>2, <1>5, <1>9
    <2>2. CASE c = d
      <3>1. k[c] = to /\ to \notin moving
        BY <2>2, <1>4, <1>7
      <3> QED BY <3>1, <2>1, <2>2, <1>1
    <2>3. CASE c # d
      <3>1. k[c] = l[c] /\ l[c] \notin moving
        BY <2>3, <1>4, <1>6, <1>7, <1>9
      <3> QED BY <3>1, <2>1, <2>3, <1>1
    <2> QED BY <2>2, <2>3
  <1>10. ASSUME NEW c \in w PROVE k[c] \in DOMAIN mm /\ mm[k[c]] = c
    <2>1. CASE Below(l[c], f)
      <3>1. l[c] \in moving /\ origin(k[c]) = {l[c]} /\ own[l[c]] = c /\ k[c] = Rebase(l[c], f, to)
        BY <2>1, <1>4, <1>8
      <3>2. k[c] \in DOMAIN mm
        BY <3>1, <1>3
      <3>3. mm[k[c]] = IF origin(k[c]) # {} THEN own[CHOOSE y \in origin(k[c]) : TRUE] ELSE own[k[c]]
        BY <3>2, <1>3
      <3>4. (CHOOSE y \in origin(k[c]) : TRUE) = l[c] /\ origin(k[c]) # {}
        BY <3>1
      <3> QED BY <3>1, <3>2, <3>3, <3>4
    <2>2. CASE ~Below(l[c], f)
      BY <2>2, <1>3, <1>9
    <2> QED BY <2>1, <2>2
  <1>11. ASSUME NEW x \in DOMAIN mm PROVE \E c \in w : x = k[c]
    <2>1. CASE x \in DOMAIN own \ moving
      <3>1. CASE x = to
        BY <3>1, <1>2, <1>4
      <3>2. CASE x # to
        <4>1. PICK c \in w \ {d} : x = l[c]
          BY <3>2, <2>1, <1>1
        <4>2. ~Below(l[c], f)
          BY <4>1, <2>1, <1>1
        <4> QED BY <4>1, <4>2, <1>4
      <3> QED BY <3>1, <3>2
    <2>2. CASE \E y \in moving : x = Rebase(y, f, to)
      BY <2>2, <1>7
    <2> QED BY <2>1, <2>2, <1>3
  <1>12. DOMAIN mm = {k[c] : c \in w}
    BY <1>10, <1>11
  <1> QED BY <1>10, <1>12 DEF WdsAre, mm, k, f

\* The whole move, of the tree, and of the maps when its events have been read.
LEMMA MoveKeeps ==
  ASSUME InotifyAssumption, Recursive, NEW l, NEW w, DirsSound(l, w), NEW p, NEW m, NEW q,
         InSync(l, w, p, m, q), NEW d, NEW to, Settled(l, w, p, m, d, to)
  PROVE  /\ l[d] \in DOMAIN m
         /\ InSync(After(l, d, to), w, PathsMoved(p, m, l[d], to), WdsMoved(m, l[d], to), q)
  <1> DEFINE f == l[d]
             k == After(l, d, to)
             pp == PathsMoved(p, m, f, to)
             mm == WdsMoved(m, f, to)
  <1>1. /\ pp = [c \in DOMAIN p |-> pp[c]] /\ (\A c \in w : pp[c] = k[c])
        /\ \A c \in DOMAIN p \ w : pp[c] = to
    BY MovedPathsAre
  <1>2. DOMAIN mm = {k[c] : c \in w} /\ \A c \in w : mm[k[c]] = c
    <2>1. WdsAre(k, w, mm)
      BY MovedWdsAre
    <2> QED BY <2>1 DEF WdsAre
  <1>3. w = In(l) /\ d \in w /\ Moves(l, d, to) /\ w \subseteq DOMAIN p /\ f \in DOMAIN m /\ DOMAIN p \subseteq All
    BY DEF Settled, MapsSound, Moves
  <1>4. \A c \in w : k[c] \in DirPath
    <2> SUFFICES ASSUME NEW c \in w PROVE k[c] \in DirPath
      OBVIOUS
    <2>1. k[c] = MovedPath(l[c], f, to) /\ c \in In(l)
      BY <1>3 DEF After, In
    <2> QED BY <2>1, <1>3, MovedPaths
  <1>5. k[d] = to /\ In(k) = In(l)
    <2>1. k[d] = MovedPath(l[d], f, to) /\ d \in In(l)
      BY <1>3 DEF After, In
    <2>2. MovedPath(l[d], f, to) = to
      BY <2>1, <1>3, MovedPaths
    <2> QED BY <2>1, <2>2, <1>3, MovedTreeSound
  <1>6. \A c \in All \ w : k[c] = l[c]
    BY <1>3 DEF After
  <1> HIDE DEF f, k, pp, mm
  <1>7. DOMAIN pp = DOMAIN p
    BY <1>1
  <1>8. MapsSound(k, w, pp, mm)
    <2>1. \A c \in DOMAIN pp : pp[c] \in DirPath
      BY <1>1, <1>4, <1>5, <1>3, <1>7
    <2>2. pp \in [DOMAIN pp -> DirPath] /\ DOMAIN pp \subseteq All
      BY <2>1, <1>1, <1>3, <1>7
    <2>3. \A x \in DOMAIN mm : mm[x] \in DOMAIN pp /\ pp[mm[x]] = x
      BY <1>1, <1>2, <1>3, <1>7
    <2>4. \A c \in w : c \in DOMAIN pp /\ pp[c] = k[c] /\ pp[c] \in DOMAIN mm /\ mm[pp[c]] = c
      BY <1>1, <1>2, <1>3, <1>7
    <2>5. \A c \in DOMAIN pp \ w : k[c] = Removed
      BY <1>3, <1>6, <1>7 DEF InSync, MapsSound
    <2>6. \A c \in DOMAIN pp : pp[c] \in DOMAIN mm
      BY <1>1, <1>2, <1>3, <1>5, <1>7
    <2> QED BY <2>2, <2>3, <2>4, <2>5, <2>6 DEF MapsSound
  <1>9. QueueTyped(pp, q) /\ EndsLast(w, q) /\ EndsTold(w, pp, q)
    BY <1>7 DEF InSync, QueueTyped, EndsTold
  <1>10. ForgottenFirst(pp, mm, q)
    <2> SUFFICES ASSUME NEW c \in DOMAIN pp, NEW j \in DOMAIN q, mm[pp[c]] # c, Ends(q[j], mm[pp[c]])
                 PROVE  FALSE
      BY DEF ForgottenFirst
    <2>1. c \in DOMAIN p \ w
      BY <1>1, <1>2, <1>7
    <2>2. mm[pp[c]] = d
      BY <2>1, <1>1, <1>2, <1>3, <1>5
    <2> QED BY <2>2, <1>3 DEF InSync, EndsLast, Ends
  <1> QED BY <1>3, <1>8, <1>9, <1>10 DEF InSync, k, pp, mm, f

-----------------------------------------------------------------------------
(* Inotify: events queued behind those unread.                                     *)

\* What the events e, queued while the tree l with watches w becomes k with watches v, keep.
Carries(l, w, k, v, e) ==
  \A p, m, q : InSync(l, w, p, m, q) => InSync(k, v, p, m, q \o e)

LEMMA EventsTyped ==
  ASSUME NEW l, NEW w, NEW p, NEW m, NEW q, InSync(l, w, p, m, q)
  PROVE  q \in Seq(KernelEvents)
  <1>1. DOMAIN p \subseteq All
    BY DEF InSync, MapsSound
  <1>2. EventsOf(DOMAIN p) \subseteq KernelEvents
    BY <1>1 DEF EventsOf, KernelEvents
  <1>3. q \in Seq(EventsOf(DOMAIN p))
    BY DEF InSync, QueueTyped
  <1> QED BY <1>2, <1>3

LEMMA CarriesNone == ASSUME NEW l, NEW w PROVE Carries(l, w, l, w, <<>>)
  <1> SUFFICES ASSUME NEW p, NEW m, NEW q, InSync(l, w, p, m, q) PROVE InSync(l, w, p, m, q \o <<>>)
    BY DEF Carries
  <1>1. q \in Seq(KernelEvents)
    BY EventsTyped
  <1>2. q \o <<>> = q
    BY <1>1
  <1> QED BY <1>2

LEMMA CarriesOne ==
  ASSUME NEW l, NEW w, NEW e \in EventsOf(w), e.mask # "ignored",
         e.mask = "create" => e.name \in DirPath
  PROVE  Carries(l, w, l, w, <<e>>)
  BY EventKeeps DEF Carries

LEMMA CarriesBoth ==
  ASSUME NEW l, NEW w, NEW k, NEW v, NEW j, NEW u, NEW a \in Seq(KernelEvents),
         NEW b \in Seq(KernelEvents), Carries(l, w, k, v, a), Carries(k, v, j, u, b)
  PROVE  Carries(l, w, j, u, a \o b)
  <1> SUFFICES ASSUME NEW p, NEW m, NEW q, InSync(l, w, p, m, q) PROVE InSync(j, u, p, m, q \o (a \o b))
    BY DEF Carries
  <1>1. q \in Seq(KernelEvents)
    BY EventsTyped
  <1>2. InSync(k, v, p, m, q \o a)
    BY DEF Carries
  <1>3. InSync(j, u, p, m, (q \o a) \o b)
    BY <1>2 DEF Carries
  <1>4. (q \o a) \o b = q \o (a \o b)
    BY <1>1
  <1> QED BY <1>3, <1>4

LEMMA FrontStays ==
  ASSUME NEW S, NEW q \in Seq(S), q # <<>>, NEW e \in Seq(S)
  PROVE  /\ q \o e # <<>> /\ (q \o e)[1] = q[1] /\ Tail(q \o e) = Tail(q) \o e
         /\ Tail(q) \in Seq(S) /\ q \o e \in Seq(S)
  <1>1. Len(q) \in Nat \ {0} /\ Len(e) \in Nat /\ q \o e \in Seq(S) /\ Len(q \o e) = Len(q) + Len(e)
    OBVIOUS
  <1>2. (q \o e)[1] = q[1]
    BY <1>1
  <1>3. Tail(q \o e) \in Seq(S) /\ Tail(q) \o e \in Seq(S) /\ Tail(q) \in Seq(S)
    BY <1>1
  <1>4. Len(Tail(q \o e)) = Len(q) + Len(e) - 1 /\ Len(Tail(q) \o e) = Len(q) + Len(e) - 1
    BY <1>1
  <1>5. ASSUME NEW i \in 1..(Len(q) + Len(e) - 1) PROVE Tail(q \o e)[i] = (Tail(q) \o e)[i]
    <2>1. Tail(q \o e)[i] = (q \o e)[i + 1]
      BY <1>1
    <2>2. CASE i <= Len(q) - 1
      BY <2>1, <2>2, <1>1
    <2>3. CASE i > Len(q) - 1
      BY <2>1, <2>3, <1>1
    <2> QED BY <2>2, <2>3, <1>1
  <1>6. Tail(q \o e) = Tail(q) \o e
    BY <1>3, <1>4, <1>5
  <1> QED BY <1>1, <1>2, <1>3, <1>6

LEMMA MoveStillNext ==
  ASSUME NEW l, NEW w, NEW k, NEW v, NEW e \in Seq(KernelEvents), Carries(l, w, k, v, e),
         NEW p, NEW m, NEW from, NEW q \in Seq(KernelEvents), MoveNext(l, w, p, m, from, q)
  PROVE  MoveNext(k, v, p, m, from, q \o e)
  <1>1. q # <<>>
    BY DEF MoveNext
  <1>2. q \o e # <<>> /\ (q \o e)[1] = q[1] /\ Tail(q \o e) = Tail(q) \o e
    BY <1>1, FrontStays
  <1> DEFINE to == PathIn(p, q[1])
  <1>3. InSync(l, w, PathsMoved(p, m, from, to), WdsMoved(m, from, to), Tail(q))
    BY DEF MoveNext
  <1>4. InSync(k, v, PathsMoved(p, m, from, to), WdsMoved(m, from, to), Tail(q) \o e)
    BY <1>3 DEF Carries
  <1>5. /\ q[1].mask = "moved_to" /\ q[1].wd \in DOMAIN p /\ from \in DOMAIN m
    BY DEF MoveNext
  <1> QED BY <1>2, <1>4, <1>5 DEF MoveNext

LEMMA StillWillSync ==
  ASSUME NEW l, NEW w, NEW k, NEW v, NEW e \in Seq(KernelEvents), Carries(l, w, k, v, e),
         NEW p, NEW m, NEW f, NEW q \in Seq(KernelEvents), WillSync(l, w, p, m, f, q)
  PROVE  WillSync(k, v, p, m, f, q \o e)
  <1>1. CASE InSync(l, w, p, m, q)
    BY <1>1 DEF Carries, WillSync
  <1>2. CASE q # <<>> /\ q[1].cookie \in DOMAIN f /\ MoveNext(l, w, p, m, f[q[1].cookie], q)
    <2>1. MoveNext(k, v, p, m, f[q[1].cookie], q \o e)
      BY <1>2, MoveStillNext
    <2>2. q \o e # <<>> /\ (q \o e)[1] = q[1]
      BY <1>2, FrontStays
    <2> QED BY <2>1, <2>2, <1>2 DEF WillSync
  <1>3. CASE /\ q # <<>> /\ q[1].mask = "moved_from" /\ q[1].wd \in DOMAIN p
             /\ Tail(q) # <<>> /\ Tail(q)[1].cookie = q[1].cookie
             /\ MoveNext(l, w, p, m, PathIn(p, q[1]), Tail(q))
    <2>1. /\ q \o e # <<>> /\ (q \o e)[1] = q[1] /\ Tail(q \o e) = Tail(q) \o e
          /\ Tail(q) \in Seq(KernelEvents)
      BY <1>3, FrontStays
    <2> DEFINE r == Tail(q)
    <2>2. r \in Seq(KernelEvents) /\ r # <<>>
      BY <2>1, <1>3
    <2>3. MoveNext(k, v, p, m, PathIn(p, q[1]), r \o e)
      BY <2>2, <1>3, MoveStillNext
    <2>4. r \o e # <<>> /\ (r \o e)[1] = r[1]
      BY <2>2, FrontStays
    <2> QED BY <2>1, <2>3, <2>4, <1>3 DEF WillSync
  <1> QED BY <1>1, <1>2, <1>3 DEF WillSync

\* When no event is unread and no walk goes on, every directory has a watch and both maps are
\* as the tree.
LEMMA LeastPath ==
  ASSUME NEW T, T \subseteq Nat, T # {}
  PROVE  \E x \in T : \A y \in T : x <= y
  <1> DEFINE R == OpToRel(<, Nat)
  <1>1. IsWellFoundedOn(R, Nat)
    BY NatLessThanWellFounded
  <1>2. \E x \in T : \A y \in T : ~(<<y, x>> \in R)
    <2> HIDE DEF R
    <2> QED BY <1>1, WFMin
  <1>3. PICK x \in T : \A y \in T : ~(<<y, x>> \in R)
    BY <1>2
  <1>4. ASSUME NEW y \in T PROVE x <= y
    <2>1. x \in Nat /\ y \in Nat /\ ~(<<y, x>> \in R)
      BY <1>3
    <2> QED BY <2>1 DEF OpToRel
  <1> QED BY <1>4

LEMMA AllRead ==
  ASSUME NEW l, NEW w, DirsSound(l, w), NEW p, NEW m, InSync(l, w, p, m, <<>>),
         Announced(l, w, <<>>, {})
  PROVE  /\ w = In(l) /\ DOMAIN p = w /\ (\A c \in w : p[c] = l[c]) /\ WdsAre(l, w, m)
  <1>1. w = In(l)
    <2> DEFINE U == In(l) \ w
               T == {Len(l[d]) : d \in U}
    <2> SUFFICES ASSUME U # {} PROVE FALSE
      BY DEF DirsSound
    <2>1. \A d \in In(l) : l[d] \in DirPath /\ Len(l[d]) \in Nat
      BY DEF DirsSound, In, DirPath
    <2>2. T \subseteq Nat /\ T # {}
      BY <2>1
    <2> HIDE DEF T
    <2>3. PICK n \in T : \A o \in T : n <= o
      BY <2>2, LeastPath
    <2>4. PICK d \in U : n = Len(l[d])
      BY <2>3 DEF T
    <2>5. d # Root
      BY DEF DirsSound
    <2>6. PICK c \in In(l), o \in DirEntries : l[d] = Sub(l[c], o)
      BY <2>5 DEF DirsSound
    <2>7. Len(l[d]) = Len(l[c]) + 1 /\ Len(l[c]) \in Nat
      BY <2>1, <2>6, PathAppend DEF DirPath, Sub
    <2>8. c \in w
      <3> SUFFICES ASSUME c \notin w PROVE FALSE
        OBVIOUS
      <3>1. Len(l[c]) \in T
        BY <2>6 DEF T
      <3> QED BY <3>1, <2>3, <2>4, <2>7
    <2>9. \E i \in DOMAIN <<>> : Makes(<<>>[i], c, o)
      BY <2>6, <2>8 DEF Announced
    <2> QED BY <2>9
  <1>2. ASSUME NEW d \in DOMAIN p PROVE d \in w
    <2> SUFFICES ASSUME d \notin w PROVE FALSE
      OBVIOUS
    <2>1. \E i \in DOMAIN <<>> : Ends(<<>>[i], d)
      BY DEF InSync, EndsTold
    <2> QED BY <2>1
  <1>3. w \subseteq DOMAIN p /\ (\A c \in w : p[c] = l[c] /\ l[c] \in DOMAIN m /\ m[l[c]] = c)
    BY DEF InSync, MapsSound
  <1>4. ASSUME NEW x \in DOMAIN m PROVE \E c \in w : x = l[c]
    <2>1. m[x] \in DOMAIN p /\ p[m[x]] = x
      BY DEF InSync, MapsSound
    <2> QED BY <2>1, <1>2, <1>3
  <1>5. DOMAIN m = {l[c] : c \in w}
    BY <1>3, <1>4
  <1> QED BY <1>1, <1>2, <1>3, <1>5 DEF WdsAre

-----------------------------------------------------------------------------
(* Inotify: the changes of the tree.                                               *)

LEMMA PlacesNamed ==
  ASSUME InotifyAssumption, DirsSound(loc, watched)
  PROVE  /\ In(loc) = InTree /\ Root \in InTree /\ InTree \subseteq All
         /\ \A d \in InTree : loc[d] \in DirPath /\ (loc[d] = <<>> <=> d = Root)
         /\ \A d \in All : loc[d] # Out /\ (loc[d] \in DirPath => d \in InTree)
  <1>1. In(loc) = InTree
    BY DEF In, InTree
  <1>2. loc \in [All -> DirPath \cup {New, Removed}] /\ loc[Root] = <<>> /\ Root \in In(loc)
    BY DEF DirsSound
  <1>3. Out \notin DirPath \cup {New, Removed}
    BY NotPaths DEF Out, New, Removed
  <1>4. \A d \in InTree : loc[d] \in DirPath
    BY <1>2 DEF InTree
  <1>5. \A d \in InTree : loc[d] = <<>> => d = Root
    BY <1>1, <1>2 DEF DirsSound
  <1>6. \A d \in All : loc[d] \in DirPath => d \in InTree
    BY NotPaths DEF InTree
  <1> QED BY <1>1, <1>2, <1>3, <1>4, <1>5, <1>6 DEF InTree

\* the directory a path is in
LEMMA ParentIs ==
  ASSUME InotifyAssumption, DirsSound(loc, watched), NEW x \in DirPath, x # <<>>, At(Front(x)) # {}
  PROVE  /\ Parent(x) \in InTree /\ Last(x) \in DirEntries /\ x = Sub(loc[Parent(x)], Last(x))
         /\ loc[Parent(x)] # x /\ <<Last(x)>> \in DirPath
  <1>1. Front(x) \in DirPath /\ Last(x) \in DirEntries /\ x = Front(x) \o <<Last(x)>>
    BY PathSplit DEF DirPath
  <1>2. Parent(x) \in All /\ loc[Parent(x)] = Front(x)
    BY DEF Parent, At
  <1>3. Parent(x) \in InTree
    BY <1>1, <1>2, PlacesNamed
  <1>4. Front(x) # x
    <2>1. Len(Front(x) \o <<Last(x)>>) = Len(Front(x)) + 1 /\ Len(Front(x)) \in Nat
      BY <1>1, PathAppend DEF DirPath
    <2> QED BY <2>1, <1>1
  <1> QED BY <1>1, <1>2, <1>3, <1>4 DEF Sub, DirPath

LEMMA ParentOf ==
  ASSUME InotifyAssumption, DirsSound(loc, watched), NEW d \in InTree \ {Root}
  PROVE  loc[d] \in DirPath /\ loc[d] # <<>> /\ At(Front(loc[d])) # {}
  <1>1. loc[d] \in DirPath /\ loc[d] # <<>>
    BY PlacesNamed
  <1>2. PICK c \in In(loc), n \in DirEntries : loc[d] = Sub(loc[c], n)
    BY PlacesNamed DEF DirsSound
  <1>3. loc[c] \in DirPath /\ c \in All
    BY <1>2, PlacesNamed
  <1>4. Front(loc[d]) = loc[c]
    BY <1>2, <1>3, PathAppend DEF DirPath, Sub
  <1>5. c \in At(Front(loc[d]))
    BY <1>3, <1>4 DEF At
  <1> QED BY <1>1, <1>5

LEMMA LeafIs ==
  ASSUME InotifyAssumption, DirsSound(loc, watched), NEW d \in InTree, Subdirs(d) = {}
  PROVE  Leaf(loc, d)
  <1> SUFFICES ASSUME NEW c \in In(loc), NEW n \in DirEntries, loc[c] = Sub(loc[d], n) PROVE FALSE
    BY DEF Leaf
  <1>1. loc[d] \in DirPath /\ c \in InTree
    BY PlacesNamed
  <1>2. Below(loc[c], loc[d])
    BY <1>1, BelowAppend DEF DirPath, Sub
  <1> QED BY <1>1, <1>2 DEF Subdirs

\* what the kernel queues for one watch
NewEvent(wd, mask, name) == [wd |-> wd, mask |-> mask, name |-> name, cookie |-> treeChanges]

LEMMA QueuedIs ==
  ASSUME treeChanges \in Nat, watched \subseteq All, NEW wd, NEW mask \in Told \cup {"moved_from", "moved_to"},
         NEW name \in DirPath \cup {<<File>>}
  PROVE  /\ wd \in watched => Queued(wd, mask, name) = <<NewEvent(wd, mask, name)>>
         /\ wd \notin watched => Queued(wd, mask, name) = <<>>
         /\ Queued(wd, mask, name) \in Seq(KernelEvents)
         /\ wd \in watched /\ mask \in Told => NewEvent(wd, mask, name) \in EventsOf(watched)
         /\ wd \in watched => NewEvent(wd, mask, name) \in KernelEvents
  <1>1. wd \in watched => NewEvent(wd, mask, name) \in KernelEvents
    BY DEF NewEvent, KernelEvents
  <1>2. wd \in watched /\ mask \in Told => NewEvent(wd, mask, name) \in EventsOf(watched)
    BY DEF NewEvent, EventsOf
  <1>3. wd \in watched => Queued(wd, mask, name) = <<NewEvent(wd, mask, name)>>
    BY DEF Queued, NewEvent
  <1>4. wd \notin watched => Queued(wd, mask, name) = <<>>
    BY DEF Queued
  <1>5. Queued(wd, mask, name) \in Seq(KernelEvents)
    <2>1. CASE wd \in watched
      <3>1. NewEvent(wd, mask, name) \in KernelEvents
        BY <2>1, <1>1
      <3>2. <<NewEvent(wd, mask, name)>> \in Seq(KernelEvents)
        BY <3>1
      <3> QED BY <2>1, <3>2, <1>3
    <2>2. CASE wd \notin watched
      BY <2>2, <1>4
    <2> QED BY <2>1, <2>2
  <1> QED BY <1>1, <1>2, <1>3, <1>4, <1>5

\* An event that is not the end of a watch, queued when the tree is l and the watches are v,
\* of which wd is one if it was.
LEMMA QueuedCarries ==
  ASSUME treeChanges \in Nat, watched \subseteq All, NEW wd, NEW mask \in Told \ {"ignored"},
         NEW name \in DirPath \cup {<<File>>}, mask = "create" => name \in DirPath,
         NEW l, NEW v, wd \in watched => wd \in v
  PROVE  Carries(l, v, l, v, Queued(wd, mask, name))
  <1> DEFINE e == NewEvent(wd, mask, name)
  <1>1. e.mask = mask /\ e.name = name
    BY DEF NewEvent
  <1>2. wd \in watched => e \in EventsOf(v)
    BY DEF NewEvent, EventsOf
  <1> HIDE DEF e
  <1>3. CASE wd \in watched
    <2>1. Carries(l, v, l, v, <<e>>)
      BY <1>1, <1>2, <1>3, CarriesOne
    <2> QED BY <2>1, <1>3, QueuedIs DEF e
  <1>4. CASE wd \notin watched
    BY <1>4, QueuedIs, CarriesNone
  <1> QED BY <1>3, <1>4

\* When the tree becomes k and reborn r, no path that is to be listed gets its first directory
\* unnoticed.
WalkStays(k, r) ==
  /\ reborn => r
  /\ \A d \in All : k[d] \in DirPath /\ <<"list", k[d]>> \in walking =>
       r \/ k[d] \in DOMAIN wdForPath \/ At(k[d]) # {}

\* A step of the kernel keeps both maps in step when its events do.
LEMMA ChangeFollows ==
  ASSUME Following, NEW e \in Seq(KernelEvents), Changed(e), DirsSound(loc, watched)',
         Carries(loc, watched, loc', watched', e), Announced(loc', watched', kq \o e, walking),
         WalkStays(loc', reborn')
  PROVE  Following'
  <1>1. /\ treeChanges' = treeChanges + 1 /\ kq' = kq \o e /\ pathForWd' = pathForWd
        /\ wdForPath' = wdForPath /\ movedFrom' = movedFrom /\ readerThread' = readerThread
        /\ walking' = walking
    BY DEF Changed, maps
  <1>2. WillSync(loc', watched', pathForWd, wdForPath, movedFrom, kq \o e)
    BY StillWillSync DEF Following
  <1>3. WillSync(loc, watched, pathForWd, wdForPath, movedFrom, kq)'
    BY <1>1, <1>2
  <1>4. kq' \in Seq(KernelEvents)
    BY <1>1 DEF Following
  <1>5. Announced(loc, watched, kq, walking)'
    BY <1>1
  <1>6. WalkSound'
    <2>1. walking # {} => InSync(loc', watched', pathForWd, wdForPath, kq \o e)
      BY DEF Following, WalkSound, Carries
    <2>2. (walking # {} => InSync(loc, watched, pathForWd, wdForPath, kq))'
      BY <2>1, <1>1
    <2>3. ASSUME NEW x \in DirPath, <<"list", x>> \in walking, At(x)' # {}
          PROVE  reborn' \/ x \in DOMAIN wdForPath
      <3>1. PICK d \in All : loc'[d] = x
        BY <2>3 DEF At
      <3>2. reborn' \/ x \in DOMAIN wdForPath \/ At(x) # {}
        BY <3>1, <2>3 DEF WalkStays
      <3>3. reborn => reborn'
        BY DEF WalkStays
      <3> QED BY <3>2, <3>3, <2>3 DEF Following, WalkSound
    <2> QED BY <2>2, <2>3, <1>1 DEF WalkSound
  <1> QED BY <1>1, <1>3, <1>4, <1>5, <1>6 DEF Following

LEMMA MoreAnnounced ==
  ASSUME Following, NEW e \in Seq(KernelEvents)
  PROVE  Announced(loc, watched, kq \o e, walking)
  BY AnnouncedMore DEF Following

LEMMA PutFileFollows ==
  ASSUME InotifyAssumption, Following, NEW d \in All, PutFile(d)
  PROVE  Following'
  <1> DEFINE e == Queued(d, "create_file", <<File>>)
  <1>1. watched \subseteq All /\ treeChanges \in Nat
    BY PlacesNamed DEF Following, DirsSound
  <1>2. "create_file" \in Told \ {"ignored"} /\ "create_file" # "create" /\ <<File>> \in DirPath \cup {<<File>>}
    BY DEF Told
  <1>3. e \in Seq(KernelEvents)
    BY <1>1, <1>2, QueuedIs
  <1>4. Carries(loc, watched, loc, watched, e)
    BY <1>1, <1>2, QueuedCarries
  <1>5. loc' = loc /\ watched' = watched /\ Changed(e) /\ reborn' = reborn
    BY DEF PutFile
  <1>6. DirsSound(loc, watched)'
    BY <1>5 DEF Following
  <1> HIDE DEF e
  <1>7. Carries(loc, watched, loc', watched', e) /\ Announced(loc', watched', kq \o e, walking)
    <2>1. Announced(loc, watched, kq \o e, walking)
      BY <1>3, MoreAnnounced
    <2> QED BY <2>1, <1>4, <1>5
  <1>8. WalkStays(loc', reborn')
    BY <1>5 DEF WalkStays, At
  <1> QED BY <1>3, <1>5, <1>6, <1>7, <1>8, ChangeFollows

LEMMA MkdirFollows ==
  ASSUME InotifyAssumption, Following, NEW d \in Dirs, NEW x \in DirPaths, Mkdir(d, x)
  PROVE  Following'
  <1> DEFINE c == Parent(x)
             n == Last(x)
             e == Queued(c, "create", <<n>>)
  <1>1. watched \subseteq All /\ treeChanges \in Nat /\ DirsSound(loc, watched) /\ d \in All
    BY PlacesNamed DEF Following, DirsSound, All
  <1>2. x \in DirPath
    <2>1. PICK i \in 0..MaxDepth : x \in [1..i -> DirEntries]
      BY DEF DirPaths
    <2> QED BY <2>1 DEF InotifyAssumption, DirPath
  <1>3. /\ loc[d] = New /\ x # <<>> /\ At(x) = {} /\ At(Front(x)) # {} /\ loc' = Put(loc, d, x)
        /\ watched' = watched /\ Changed(e)
        /\ reborn' = (reborn \/ (<<"list", x>> \in walking /\ x \notin DOMAIN wdForPath))
    BY DEF Mkdir, Free, Put
  <1>4. c \in InTree /\ n \in DirEntries /\ x = Sub(loc[c], n) /\ <<n>> \in DirPath
    BY <1>1, <1>2, <1>3, ParentIs
  <1>5. c \in In(loc) /\ Unused(loc, x)
    BY <1>1, <1>3, <1>4, PlacesNamed DEF Unused, At
  <1>6. "create" \in Told \ {"ignored"} /\ <<n>> \in DirPath \cup {<<File>>}
    BY <1>4 DEF Told
  <1> HIDE DEF c, n
  <1>7. e \in Seq(KernelEvents) /\ Carries(loc, watched, loc, watched, e)
    <2>1. e \in Seq(KernelEvents)
      BY <1>1, <1>6, QueuedIs
    <2> QED BY <2>1, <1>1, <1>4, <1>6, QueuedCarries
  <1>8. DirsSound(loc', watched)
    BY <1>1, <1>3, <1>4, <1>5, MakeSound
  <1>9. Carries(loc, watched, loc', watched, e)
    <2> SUFFICES ASSUME NEW p, NEW m, NEW q, InSync(loc, watched, p, m, q)
                 PROVE  InSync(loc', watched, p, m, q \o e)
      BY DEF Carries
    <2> DEFINE r == q \o e
    <2>1. InSync(loc, watched, p, m, r)
      BY <1>7 DEF Carries
    <2> HIDE DEF r
    <2>2. InSync(loc', watched, p, m, r)
      BY <2>1, <1>1, <1>3, <1>4, <1>5, MakeKeeps
    <2> QED BY <2>2 DEF r
  <1>10. Announced(loc', watched, kq \o e, walking)
    <2> DEFINE r == kq \o e
    <2>1. Announced(loc, watched, r, walking)
      BY <1>7, MoreAnnounced
    <2>2. c \in watched => \E i \in DOMAIN r : Makes(r[i], c, n)
      <3> SUFFICES ASSUME c \in watched PROVE \E i \in DOMAIN r : Makes(r[i], c, n)
        OBVIOUS
      <3>1. e = <<NewEvent(c, "create", <<n>>)>> /\ NewEvent(c, "create", <<n>>) \in KernelEvents
        BY <1>1, <1>6, QueuedIs
      <3>2. kq \in Seq(KernelEvents)
        BY DEF Following
      <3>3. Len(kq) + 1 \in DOMAIN r /\ r[Len(kq) + 1] = NewEvent(c, "create", <<n>>)
        BY <3>1, <3>2, OneMore
      <3> QED BY <3>3 DEF Makes, NewEvent
    <2> HIDE DEF r
    <2>3. Announced(loc', watched, r, walking)
      BY <2>1, <2>2, <1>1, <1>3, <1>4, <1>5, AnnouncedMade
    <2> QED BY <2>3 DEF r
  <1>11. WalkStays(loc', reborn')
    <2>1. ASSUME NEW b \in All, loc'[b] \in DirPath, <<"list", loc'[b]>> \in walking
          PROVE  reborn' \/ loc'[b] \in DOMAIN wdForPath \/ At(loc'[b]) # {}
      <3>1. CASE b = d
        <4>1. loc'[b] = x
          BY <3>1, <1>1, <1>3 DEF Put, DirsSound
        <4> QED BY <4>1, <2>1, <1>3
      <3>2. CASE b # d
        <4>1. loc'[b] = loc[b]
          BY <3>2, <1>3 DEF Put
        <4> QED BY <4>1 DEF At
      <3> QED BY <3>1, <3>2
    <2>2. reborn => reborn'
      BY <1>3
    <2> QED BY <2>1, <2>2 DEF WalkStays
  <1> HIDE DEF e
  <1>12. DirsSound(loc, watched)' /\ Carries(loc, watched, loc', watched', e)
         /\ Announced(loc', watched', kq \o e, walking)
    BY <1>3, <1>8, <1>9, <1>10
  <1> QED BY <1>3, <1>7, <1>11, <1>12, ChangeFollows

LEMMA RmdirFollows ==
  ASSUME InotifyAssumption, Following, NEW d \in Dirs, Rmdir(d)
  PROVE  Following'
  <1> DEFINE c == Parent(loc[d])
             gone == Queued(d, "delete_self", <<>>)
             ends == Queued(d, "ignored", <<>>)
             up == Queued(c, "delete", <<Last(loc[d])>>)
             k == Put(loc, d, Removed)
             v == watched \ {d}
  <1>1. /\ watched \subseteq All /\ treeChanges \in Nat /\ DirsSound(loc, watched) /\ d \in All
        /\ watched \subseteq InTree
    BY PlacesNamed DEF Following, DirsSound, All
  <1>2. /\ d # Root /\ loc[d] \notin {New, Removed} /\ loc[d] # Out /\ Subdirs(d) = {}
        /\ loc' = k /\ watched' = v /\ reborn' = reborn
        /\ Changed((gone \o ends) \o up) \/ Changed(up \o (gone \o ends))
    <2>1. loc[d] # Out
      BY <1>1, PlacesNamed
    <2> QED BY <2>1 DEF Rmdir, Put
  <1>3. d \in In(loc) \ {Root} /\ d \in InTree \ {Root}
    BY <1>1, <1>2, PlacesNamed DEF In
  <1>4. loc[d] \in DirPath /\ loc[d] # <<>> /\ At(Front(loc[d])) # {}
    BY <1>1, <1>3, ParentOf
  <1>5. c \in InTree /\ <<Last(loc[d])>> \in DirPath /\ c # d
    <2>1. c \in InTree /\ <<Last(loc[d])>> \in DirPath /\ loc[c] # loc[d]
      BY <1>1, <1>4, ParentIs
    <2> QED BY <2>1
  <1>6. Leaf(loc, d)
    BY <1>1, <1>2, <1>3, LeafIs
  <1>7. DirsSound(k, v)
    BY <1>1, <1>3, <1>6, RemoveSound
  <1>8. /\ {"delete_self", "delete"} \subseteq Told \ {"ignored"} /\ "ignored" \in Told
        /\ <<>> \in DirPath /\ "delete" # "create" /\ "delete_self" # "create"
    BY DEF Told, DirPath
  <1>9. gone \in Seq(KernelEvents) /\ ends \in Seq(KernelEvents) /\ up \in Seq(KernelEvents)
    <2>1. gone \in Seq(KernelEvents)
      BY <1>1, <1>8, QueuedIs
    <2>2. ends \in Seq(KernelEvents)
      BY <1>1, <1>8, QueuedIs
    <2>3. up \in Seq(KernelEvents)
      BY <1>1, <1>5, <1>8, QueuedIs
    <2> QED BY <2>1, <2>2, <2>3
  <1>10. Carries(loc, watched, loc, watched, gone)
    BY <1>1, <1>8, QueuedCarries
  <1>11. Carries(loc, watched, k, v, ends)
    <2>1. CASE d \in watched
      <3> DEFINE e == NewEvent(d, "ignored", <<>>)
      <3>1. ends = <<e>> /\ e \in EventsOf(watched)
        BY <2>1, <1>1, <1>8, QueuedIs
      <3>2. e.mask = "ignored" /\ e.wd = d /\ e.name = <<>>
        BY DEF NewEvent
      <3> HIDE DEF e, ends, k
      <3>3. d \in watched \ {Root} /\ k = Put(loc, d, Removed)
        BY <2>1, <1>2 DEF k
      <3>4. ASSUME NEW p, NEW m, NEW q, InSync(loc, watched, p, m, q)
            PROVE  InSync(k, v, p, m, q \o <<e>>)
        BY <3>1, <3>2, <3>3, <3>4, <1>1, <1>6, EndKeeps
      <3> QED BY <3>1, <3>4 DEF Carries
    <2>2. CASE d \notin watched
      <3>1. ends = <<>>
        BY <2>2, <1>1, <1>8, QueuedIs
      <3>2. v = watched
        BY <2>2
      <3> HIDE DEF ends, k, v
      <3>3. ASSUME NEW p, NEW m, NEW q, InSync(loc, watched, p, m, q)
            PROVE  InSync(k, watched, p, m, q \o <<>>)
        <4>1. InSync(loc, watched, p, m, q \o <<>>)
          BY <3>3, CarriesNone DEF Carries
        <4>2. d \in In(loc) \ watched /\ k = Put(loc, d, Removed)
          BY <2>2, <1>3 DEF k
        <4> QED BY <4>1, <4>2, <1>1, <1>6, RemoveKeeps
      <3> QED BY <3>1, <3>2, <3>3 DEF Carries
    <2> QED BY <2>1, <2>2
  <1>12. Carries(loc, watched, loc, watched, up)
    BY <1>1, <1>5, <1>8, QueuedCarries
  <1>13. Carries(k, v, k, v, up)
    <2>1. c \in watched => c \in v
      BY <1>5
    <2> QED BY <2>1, <1>1, <1>5, <1>8, QueuedCarries
  <1> HIDE DEF gone, ends, up, k, v
  <1> DEFINE self == gone \o ends
  <1>14. self \in Seq(KernelEvents) /\ Carries(loc, watched, k, v, self)
    <2>1. gone \o ends \in Seq(KernelEvents)
      BY <1>9
    <2> QED BY <2>1, <1>9, <1>10, <1>11, CarriesBoth
  <1> HIDE DEF self
  <1>15. Carries(loc, watched, k, v, self \o up) /\ Carries(loc, watched, k, v, up \o self)
    <2>1. Carries(loc, watched, k, v, self \o up)
      BY <1>9, <1>13, <1>14, CarriesBoth
    <2>2. Carries(loc, watched, k, v, up \o self)
      BY <1>9, <1>12, <1>14, CarriesBoth
    <2> QED BY <2>1, <2>2
  <1>16. self \o up \in Seq(KernelEvents) /\ up \o self \in Seq(KernelEvents)
    BY <1>9, <1>14
  <1>17. Changed(self \o up) \/ Changed(up \o self)
    BY <1>2 DEF self
  <1>18. DirsSound(loc, watched)'
    BY <1>2, <1>7
  <1>19. ASSUME NEW e \in Seq(KernelEvents) PROVE Announced(loc', watched', kq \o e, walking)
    <2>1. Announced(loc, watched, kq \o e, walking)
      BY <1>19, MoreAnnounced
    <2>2. loc' = Put(loc, d, Removed) /\ watched' = watched \ {d}
      BY <1>2 DEF k, v
    <2> QED BY <2>1, <2>2, <1>1, <1>3, <1>6, AnnouncedRemoved
  <1>20. WalkStays(loc', reborn')
    <2>1. \A b \in All : loc'[b] \in DirPath => loc'[b] = loc[b]
      <3>1. loc' = Put(loc, d, Removed)
        BY <1>2 DEF k
      <3>2. Removed \notin DirPath
        BY NotPaths
      <3> QED BY <3>1, <3>2, <1>1 DEF Put, DirsSound
    <2> QED BY <2>1, <1>2 DEF WalkStays, At
  <1>21. CASE Changed(self \o up)
    <2>1. Carries(loc, watched, loc', watched', self \o up)
      BY <1>2, <1>15
    <2> QED BY <2>1, <1>16, <1>18, <1>19, <1>20, <1>21, ChangeFollows
  <1>22. CASE Changed(up \o self)
    <2>1. Carries(loc, watched, loc', watched', up \o self)
      BY <1>2, <1>15
    <2> QED BY <2>1, <1>16, <1>18, <1>19, <1>20, <1>22, ChangeFollows
  <1> QED BY <1>17, <1>21, <1>22

\* Below a path where nothing is there is nothing.
LEMMA NothingUnder ==
  ASSUME NEW l, NEW w, DirsSound(l, w), NEW x \in DirPath, \A c \in In(l) : l[c] # x
  PROVE  \A c \in In(l) : ~Below(l[c], x)
  <1> DEFINE U == {c \in In(l) : Below(l[c], x)}
             T == {Len(l[c]) : c \in U}
  <1> SUFFICES ASSUME U # {} PROVE FALSE
    OBVIOUS
  <1>1. \A c \in In(l) : l[c] \in DirPath /\ Len(l[c]) \in Nat
    BY DEF DirsSound, In, DirPath
  <1>2. T \subseteq Nat /\ T # {}
    BY <1>1
  <1> HIDE DEF T
  <1>3. PICK n \in T : \A o \in T : n <= o
    BY <1>2, LeastPath
  <1>4. PICK d \in U : n = Len(l[d])
    BY <1>3 DEF T
  <1>5. d # Root
    <2>1. Len(x) < Len(l[d]) /\ Len(x) \in Nat
      BY <1>1, BelowIs DEF DirPath
    <2> QED BY <2>1 DEF DirsSound
  <1>6. PICK c \in In(l), o \in DirEntries : l[d] = Sub(l[c], o)
    BY <1>5 DEF DirsSound
  <1>7. Len(l[d]) = Len(l[c]) + 1 /\ Len(l[c]) \in Nat
    BY <1>1, <1>6, PathAppend DEF DirPath, Sub
  <1>8. l[c] = x \/ Below(l[c], x)
    BY <1>1, <1>6, BelowAppend DEF DirPath, Sub
  <1>9. c \in U
    BY <1>6, <1>8
  <1>10. Len(l[c]) \in T
    BY <1>9 DEF T
  <1> QED BY <1>10, <1>3, <1>4, <1>7

\* The tree in which the directory moves: without the empty one it replaces, whose watch ends.
LEMMA ReplacedKeeps ==
  ASSUME InotifyAssumption, treeChanges \in Nat, DirsSound(loc, watched), watched = InTree,
         NEW p, NEW m, InSync(loc, watched, p, m, <<>>),
         NEW t \in InTree \ {Root}, Subdirs(t) = {}
  PROVE  /\ DirsSound(Put(loc, t, Removed), watched \ {t})
         /\ InSync(Put(loc, t, Removed), watched \ {t}, p, m,
                   Queued(t, "delete_self", <<>>) \o Queued(t, "ignored", <<>>))
         /\ Queued(t, "delete_self", <<>>) \o Queued(t, "ignored", <<>>) \in Seq(KernelEvents)
  <1> DEFINE k == Put(loc, t, Removed)
             a == NewEvent(t, "delete_self", <<>>)
             b == NewEvent(t, "ignored", <<>>)
             e == Queued(t, "delete_self", <<>>)
             f == Queued(t, "ignored", <<>>)
  <1>1. watched \subseteq All /\ t \in In(loc) \ {Root} /\ t \in watched \ {Root}
    BY PlacesNamed
  <1>2. Leaf(loc, t)
    BY LeafIs
  <1>3. DirsSound(k, watched \ {t})
    BY <1>1, <1>2, RemoveSound
  <1>4. "delete_self" \in Told \ {"ignored"} /\ "ignored" \in Told /\ <<>> \in DirPath /\ "delete_self" # "create"
    BY DEF Told, DirPath
  <1>5. e = <<a>> /\ a \in EventsOf(watched) /\ e \in Seq(KernelEvents)
    BY <1>1, <1>4, QueuedIs
  <1>6. f = <<b>> /\ b \in EventsOf(watched) /\ f \in Seq(KernelEvents)
    BY <1>1, <1>4, QueuedIs
  <1>7. b.mask = "ignored" /\ b.wd = t /\ b.name = <<>>
    BY DEF NewEvent
  <1>8. InSync(loc, watched, p, m, <<>> \o e)
    <2>1. Carries(loc, watched, loc, watched, e)
      BY <1>1, <1>4, QueuedCarries
    <2> QED BY <2>1 DEF Carries
  <1>9. <<>> \o e = e
    BY <1>5
  <1> HIDE DEF k, a, b, e, f
  <1>10. k = Put(loc, t, Removed) /\ InSync(loc, watched, p, m, e)
    BY <1>8, <1>9 DEF k
  <1>11. InSync(k, watched \ {t}, p, m, e \o <<b>>)
    BY <1>1, <1>2, <1>6, <1>7, <1>10, EndKeeps
  <1>12. InSync(k, watched \ {t}, p, m, e \o f)
    BY <1>6, <1>11
  <1>13. e \o f \in Seq(KernelEvents)
    BY <1>5, <1>6
  <1> QED BY <1>3, <1>12, <1>13 DEF k, e, f

\* what a rename is, of a directory d to the path x, in the tree l with watches v
Renames(d, x, l, v, over) ==
  /\ DirsSound(l, v) /\ Settled(l, v, pathForWd, wdForPath, d, x)
  /\ InSync(l, v, pathForWd, wdForPath, over) /\ over \in Seq(KernelEvents)
  /\ l[d] = loc[d] /\ watched' = v /\ loc' = After(l, d, x)

LEMMA RenameInto ==
  ASSUME InotifyAssumption, DirsSound(loc, watched), treeChanges \in Nat,
         InSync(loc, watched, pathForWd, wdForPath, <<>>), Announced(loc, watched, <<>>, {}),
         NEW d \in Dirs, NEW x \in DirPath, Rename(d, x)
  PROVE  \E l, v, over :
           /\ Renames(d, x, l, v, over)
           /\ Changed(Queued(Parent(loc[d]), "moved_from", <<Last(loc[d])>>)
                      \o Queued(Parent(x), "moved_to", <<Last(x)>>) \o over)
  <1> DEFINE p == pathForWd
             m == wdForPath
             ev(over) == Queued(Parent(loc[d]), "moved_from", <<Last(loc[d])>>)
                         \o Queued(Parent(x), "moved_to", <<Last(x)>>) \o over
  <1>1. /\ d \in InTree \ {Root} /\ x # <<>> /\ x # loc[d] /\ ~Below(x, loc[d]) /\ At(Front(x)) # {}
        /\ \A t \in At(x) : Subdirs(t) = {}
        /\ watched' = watched \ At(x)
        /\ loc' = [c \in All |-> IF c \in At(x) THEN Removed ELSE MoveTree(d, x)[c]]
    BY DEF Rename
  <1>2. watched = In(loc) /\ DOMAIN p = watched /\ (\A c \in watched : p[c] = loc[c])
    BY AllRead
  <1>3. watched = InTree /\ InTree \subseteq All
    BY <1>2, PlacesNamed
  <1>4. /\ Parent(x) \in InTree /\ Last(x) \in DirEntries /\ x = Sub(loc[Parent(x)], Last(x))
        /\ loc[Parent(x)] # x
    BY <1>1, ParentIs
  <1>5. MapsSound(loc, watched, p, m)
    BY DEF InSync
  <1>6. \A c \in All : MoveTree(d, x)[c] = IF c = d THEN x
                                           ELSE IF c \in Subdirs(d) THEN Rebase(loc[c], loc[d], x)
                                           ELSE loc[c]
    BY DEF MoveTree
  <1>7. Rebase(loc[d], loc[d], x) = x /\ ~Below(loc[d], loc[d])
    <2>1. loc[d] \in DirPath
      BY <1>1, PlacesNamed
    <2>2. Rebase(loc[d], loc[d], x) = x
      BY <2>1, RebaseSelf DEF DirPath
    <2>3. ~Below(loc[d], loc[d])
      BY <2>1, BelowIs DEF DirPath
    <2> QED BY <2>2, <2>3
  <1>8. \A c \in InTree : MoveTree(d, x)[c] = MovedPath(loc[c], loc[d], x)
    <2> SUFFICES ASSUME NEW c \in InTree PROVE MoveTree(d, x)[c] = MovedPath(loc[c], loc[d], x)
      OBVIOUS
    <2>1. c \in All /\ (loc[c] = loc[d] => c = d) /\ (c \in Subdirs(d) <=> Below(loc[c], loc[d]))
      BY <1>1, <1>3, <1>2 DEF DirsSound, Subdirs
    <2> QED BY <2>1, <1>6, <1>7 DEF MovedPath
  <1>9. \A c \in All \ InTree : MoveTree(d, x)[c] = loc[c]
    BY <1>1, <1>6 DEF Subdirs
  <1>10. CASE At(x) = {}
    <2>1. Changed(ev(<<>>))
      BY <1>10 DEF Rename
    <2>2. \A c \in In(loc) : loc[c] # x
      BY <1>10, <1>2, <1>3 DEF At
    <2>3. \A c \in In(loc) : ~Below(loc[c], x)
      BY <2>2, NothingUnder
    <2>4. Moves(loc, d, x)
      BY <1>1, <1>2, <1>3, <1>4, <2>2, <2>3 DEF Moves
    <2>5. Settled(loc, watched, p, m, d, x)
      BY <2>4, <1>2, <1>5 DEF Settled
    <2>6. watched' = watched
      BY <1>1, <1>10
    <2>7. loc' = After(loc, d, x)
      <3>1. \A c \in All : loc'[c] = After(loc, d, x)[c]
        BY <1>1, <1>2, <1>3, <1>8, <1>9, <1>10 DEF After
      <3>2. loc' = [c \in All |-> loc'[c]] /\ After(loc, d, x) = [c \in All |-> After(loc, d, x)[c]]
        BY <1>1 DEF After
      <3> QED BY <3>1, <3>2
    <2>8. <<>> \in Seq(KernelEvents)
      OBVIOUS
    <2>9. Renames(d, x, loc, watched, <<>>)
      BY <2>5, <2>6, <2>7, <2>8 DEF Renames
    <2> QED BY <2>1, <2>9
  <1>11. CASE At(x) # {}
    <2> DEFINE t == CHOOSE t \in At(x) : TRUE
               over == Queued(t, "delete_self", <<>>) \o Queued(t, "ignored", <<>>)
               k == Put(loc, t, Removed)
               v == watched \ {t}
    <2>1. t \in All /\ loc[t] = x /\ t \in At(x)
      BY <1>11 DEF At
    <2>2. Changed(ev(over))
      BY <1>11 DEF Rename
    <2>3. t \in InTree \ {Root} /\ Subdirs(t) = {} /\ t # d
      BY <2>1, <1>1, PlacesNamed
    <2>4. DirsSound(k, v) /\ InSync(k, v, p, m, over) /\ over \in Seq(KernelEvents)
      BY <2>3, <1>3, ReplacedKeeps
    <2>5. In(k) = In(loc) \ {t} /\ Differs(loc, k, t, Removed)
      <3>1. Leaf(loc, t)
        BY <2>3, LeafIs
      <3>2. k = Put(loc, t, Removed) /\ t \in In(loc) \ {Root}
        BY <2>3, <1>2, <1>3
      <3> HIDE DEF k, t, over
      <3> QED BY <3>1, <3>2, RemoveSound
    <2>6. k[t] = Removed /\ \A c \in All \ {t} : k[c] = loc[c]
      BY <2>5 DEF Differs
    <2>7. At(x) = {t}
      <3> SUFFICES ASSUME NEW c \in At(x) PROVE c = t
        BY <2>1
      <3>1. c \in All /\ loc[c] = x /\ c \in InTree
        BY PlacesNamed DEF At
      <3> QED BY <3>1, <2>1, <2>3, <1>2, <1>3 DEF DirsSound
    <2> HIDE DEF k, over, t
    <2>8. \A c \in In(k) : k[c] # x
      BY <2>5, <2>6, <2>7, <1>2, <1>3 DEF At
    <2>9. \A c \in In(k) : ~Below(k[c], x)
      BY <2>1, <2>3, <2>5, <2>6, <1>2, <1>3 DEF Subdirs
    <2>10. \E c \in In(k), n \in DirEntries : x = Sub(k[c], n)
      <3>1. Parent(x) # t
        BY <1>4, <2>1
      <3>2. Parent(x) \in In(k) /\ k[Parent(x)] = loc[Parent(x)]
        BY <3>1, <1>2, <1>3, <1>4, <2>5, <2>6
      <3> QED BY <3>2, <1>4
    <2>11. d \in In(k) \ {Root} /\ k[d] = loc[d]
      BY <1>1, <1>2, <1>3, <2>3, <2>5, <2>6
    <2>12. Moves(k, d, x)
      BY <2>8, <2>9, <2>10, <2>11, <1>1 DEF Moves
    <2>13. MapsSound(k, v, p, m)
      BY <2>4 DEF InSync
    <2>14. Settled(k, v, p, m, d, x)
      <3>1. v = In(k)
        BY <1>2, <2>5
      <3>2. \A c \in DOMAIN p \ v : p[c] = x
        BY <1>2, <2>1, <2>3, <1>3
      <3> QED BY <3>1, <3>2, <2>12, <2>13 DEF Settled
    <2>15. watched' = v
      BY <1>1, <2>7
    <2>16. loc' = After(k, d, x)
      <3>1. ASSUME NEW c \in All PROVE loc'[c] = After(k, d, x)[c]
        <4>1. After(k, d, x)[c] = IF c \in In(k) THEN MovedPath(k[c], k[d], x) ELSE k[c]
          BY DEF After
        <4>2. loc'[c] = IF c \in {t} THEN Removed ELSE MoveTree(d, x)[c]
          BY <1>1, <2>7
        <4>3. CASE c = t
          BY <4>1, <4>2, <4>3, <2>5, <2>6
        <4>4. CASE c # t /\ c \in InTree
          <5>1. c \in In(k) /\ k[c] = loc[c]
            BY <4>4, <2>5, <2>6, <1>2, <1>3
          <5> QED BY <5>1, <4>1, <4>2, <4>4, <1>8, <2>11
        <4>5. CASE c # t /\ c \notin InTree
          <5>1. c \notin In(k) /\ k[c] = loc[c]
            BY <4>5, <2>5, <2>6, <1>2, <1>3
          <5> QED BY <5>1, <4>1, <4>2, <4>5, <1>9
        <4> QED BY <4>3, <4>4, <4>5
      <3>2. loc' = [c \in All |-> loc'[c]] /\ After(k, d, x) = [c \in All |-> After(k, d, x)[c]]
        BY <1>1 DEF After
      <3> QED BY <3>1, <3>2
    <2>17. Renames(d, x, k, v, over)
      BY <2>4, <2>11, <2>14, <2>15, <2>16 DEF Renames
    <2> QED BY <2>2, <2>17
  <1> QED BY <1>10, <1>11

\* After a rename the two events of the move are the first, and both maps will be in step.
LEMMA RenameFollows ==
  ASSUME InotifyAssumption, Recursive, Following, NEW d \in Dirs, NEW x \in DirPaths, Rename(d, x)
  PROVE  renamedEarly' \/ Following'
  <1>1. renamedEarly' = (renamedEarly \/ kq # <<>> \/ walking # {})
    BY DEF Rename
  <1>2. CASE kq # <<>> \/ walking # {}
    BY <1>1, <1>2
  <1>3. CASE kq = <<>> /\ walking = {}
    <2> DEFINE p == pathForWd
               m == wdForPath
               a == NewEvent(Parent(loc[d]), "moved_from", <<Last(loc[d])>>)
               b == NewEvent(Parent(x), "moved_to", <<Last(x)>>)
               from == Queued(Parent(loc[d]), "moved_from", <<Last(loc[d])>>)
               to == Queued(Parent(x), "moved_to", <<Last(x)>>)
    <2>1. DirsSound(loc, watched) /\ treeChanges \in Nat /\ readerThread = "run"
      BY DEF Following
    <2>2. InSync(loc, watched, p, m, <<>>) /\ Announced(loc, watched, <<>>, {})
      BY <1>3 DEF Following, WillSync
    <2>3. x \in DirPath
      <3>1. PICK i \in 0..MaxDepth : x \in [1..i -> DirEntries]
        BY DEF DirPaths
      <3> QED BY <3>1 DEF InotifyAssumption, DirPath
    <2>4. PICK l, v, over : Renames(d, x, l, v, over) /\ Changed(from \o to \o over)
      BY <2>1, <2>2, <2>3, RenameInto
    <2>5. /\ watched = In(loc) /\ watched = InTree /\ DOMAIN p = watched /\ watched \subseteq All
          /\ \A c \in watched : p[c] = loc[c]
      BY <2>1, <2>2, AllRead, PlacesNamed
    <2>6. d \in InTree \ {Root} /\ x # <<>> /\ At(Front(x)) # {}
      BY DEF Rename
    <2>7. loc[d] \in DirPath /\ loc[d] # <<>> /\ At(Front(loc[d])) # {}
      BY <2>1, <2>6, ParentOf
    <2>8. Parent(loc[d]) \in watched /\ <<Last(loc[d])>> \in DirPath /\ loc[d] = Sub(loc[Parent(loc[d])], Last(loc[d]))
      BY <2>1, <2>5, <2>7, ParentIs
    <2>9. Parent(x) \in watched /\ <<Last(x)>> \in DirPath /\ x = Sub(loc[Parent(x)], Last(x))
      BY <2>1, <2>3, <2>5, <2>6, ParentIs
    <2>10. from = <<a>> /\ a \in KernelEvents
      BY <2>1, <2>5, <2>8, QueuedIs
    <2>11. to = <<b>> /\ b \in KernelEvents
      BY <2>1, <2>5, <2>9, QueuedIs
    <2>12. a.mask = "moved_from" /\ a.wd \in DOMAIN p /\ PathIn(p, a) = loc[d]
      BY <2>5, <2>8 DEF NewEvent, PathIn, Sub
    <2>13. b.mask = "moved_to" /\ b.wd \in DOMAIN p /\ PathIn(p, b) = x
      BY <2>5, <2>9 DEF NewEvent, PathIn, Sub
    <2>14. a.cookie = b.cookie
      BY DEF NewEvent
    <2> HIDE DEF a, b, from, to, p, m
    <2>15. over \in Seq(KernelEvents) /\ DirsSound(l, v) /\ InSync(l, v, p, m, over)
           /\ Settled(l, v, p, m, d, x) /\ l[d] = loc[d] /\ watched' = v /\ loc' = After(l, d, x)
      BY <2>4 DEF Renames, p, m
    <2>16. /\ l[d] \in DOMAIN m
           /\ InSync(After(l, d, x), v, PathsMoved(p, m, l[d], x), WdsMoved(m, l[d], x), over)
      BY <2>15, MoveKeeps
    <2>17. DirsSound(After(l, d, x), v)
      BY <2>15, MovedTreeSound DEF Settled
    <2> DEFINE r == to \o over
               q == from \o to \o over
    <2>18. r \in Seq(KernelEvents) /\ r # <<>> /\ r[1] = b /\ Tail(r) = over
      BY <2>11, <2>15
    <2>19. q = from \o r
      BY <2>10, <2>11, <2>15
    <2> HIDE DEF r, q
    <2>20. q \in Seq(KernelEvents) /\ q # <<>> /\ q[1] = a /\ Tail(q) = r
      BY <2>10, <2>18, <2>19
    <2>21. MoveNext(After(l, d, x), v, p, m, loc[d], r)
      <3>1. PathIn(p, r[1]) = x /\ r[1].mask = "moved_to" /\ r[1].wd \in DOMAIN p
        BY <2>13, <2>18
      <3>2. InSync(After(l, d, x), v, PathsMoved(p, m, loc[d], x), WdsMoved(m, loc[d], x), over)
        BY <2>15, <2>16
      <3>3. loc[d] \in DOMAIN m
        BY <2>15, <2>16
      <3> QED BY <3>1, <3>2, <3>3, <2>18 DEF MoveNext
    <2>22. MoveNext(After(l, d, x), v, p, m, PathIn(p, q[1]), Tail(q))
      BY <2>21, <2>12, <2>20
    <2>23. WillSync(After(l, d, x), v, p, m, movedFrom, q)
      <3>1. q[1].mask = "moved_from" /\ q[1].wd \in DOMAIN p /\ Tail(q) # <<>>
            /\ Tail(q)[1].cookie = q[1].cookie
        BY <2>12, <2>14, <2>18, <2>20
      <3> QED BY <3>1, <2>20, <2>22 DEF WillSync
    <2>24. /\ kq' = kq \o q /\ treeChanges' = treeChanges + 1 /\ pathForWd' = pathForWd
           /\ wdForPath' = wdForPath /\ movedFrom' = movedFrom /\ readerThread' = readerThread
           /\ walking' = {}
      BY <2>4, <1>3 DEF Changed, maps, q
    <2>25. kq' = q
      BY <2>24, <2>20, <1>3
    <2>26. WillSync(loc, watched, pathForWd, wdForPath, movedFrom, kq)'
      BY <2>23, <2>24, <2>25, <2>15 DEF p, m
    <2>27. DirsSound(loc, watched)'
      BY <2>15, <2>17
    <2>28. WalkSound'
      BY <2>24 DEF WalkSound
    <2>29. Announced(loc, watched, kq, walking)'
      <3>1. In(After(l, d, x)) = v
        <4>1. v = In(l) /\ Moves(l, d, x)
          BY <2>15 DEF Settled
        <4> QED BY <4>1, <2>15, MovedTreeSound
      <3>2. \A g, r1 : Announced(After(l, d, x), v, r1, g)
        BY <3>1 DEF Announced
      <3> QED BY <3>2, <2>15
    <2>30. Following'
      BY <2>1, <2>20, <2>24, <2>25, <2>26, <2>27, <2>28, <2>29 DEF Following
    <2> QED BY <2>30
  <1> QED BY <1>2, <1>3

-----------------------------------------------------------------------------
(* Inotify: read_events.                                                           *)

\* the part of Following that an event that is read can change
LEMMA ReadFollows ==
  ASSUME Following, DirsSound(loc, watched'), loc' = loc, treeChanges' = treeChanges,
         kq # <<>>, kq' = Tail(kq), readerThread' = "run",
         WillSync(loc, watched', pathForWd', wdForPath', movedFrom', Tail(kq)),
         Announced(loc, watched', Tail(kq), walking'), WalkSound'
  PROVE  Following'
  <1>1. kq' \in Seq(KernelEvents)
    BY DEF Following
  <1>2. DirsSound(loc, watched)' /\ WillSync(loc, watched, pathForWd, wdForPath, movedFrom, kq)'
        /\ Announced(loc, watched, kq, walking)'
    OBVIOUS
  <1> QED BY <1>1, <1>2 DEF Following

\* the events of a move
LEMMA ReadMoveFollows ==
  ASSUME InotifyAssumption, Following, ReadEvents, ~InSync(loc, watched, pathForWd, wdForPath, kq)
  PROVE  Following'
  <1> DEFINE ev == Head(kq)
  <1>1. /\ kq # <<>> /\ kq' = Tail(kq) /\ loc' = loc /\ treeChanges' = treeChanges
        /\ kq \in Seq(KernelEvents) /\ DirsSound(loc, watched) /\ readerThread = "run"
        /\ walking = {}
    BY DEF ReadEvents, Following
  <1>2. ev = kq[1]
    BY <1>1
  <1>5. ASSUME kq[1].mask \in {"moved_from", "moved_to"}, walking' = {}, watched' = watched
        PROVE  Announced(loc, watched', Tail(kq), walking') /\ WalkSound'
    <2>1. Announced(loc, watched, Tail(kq), walking)
      BY <1>1, <1>5, AnnouncedRead DEF Following
    <2> QED BY <2>1, <1>1, <1>5 DEF WalkSound
  <1>3. CASE kq[1].cookie \in DOMAIN movedFrom /\ MoveNext(loc, watched, pathForWd, wdForPath, movedFrom[kq[1].cookie], kq)
    <2> DEFINE from == movedFrom[ev.cookie]
               to == PathIn(pathForWd, ev)
    <2>1. /\ ev.mask = "moved_to" /\ ev.wd \in DOMAIN pathForWd /\ from \in DOMAIN wdForPath
          /\ InSync(loc, watched, PathsMoved(pathForWd, wdForPath, from, to), WdsMoved(wdForPath, from, to), Tail(kq))
      BY <1>2, <1>3 DEF MoveNext
    <2>2. SourceForMove(ev) \cap DOMAIN wdForPath # {}
      BY <2>1, <1>2, <1>3 DEF SourceForMove
    <2>3. /\ MovedWd(from, pathForWd[ev.wd] \o ev.name)
          /\ UNCHANGED <<movedFrom, walking, readerThread, watched>>
      BY <2>1, <2>2 DEF ReadEvents
    <2>4. /\ wdForPath' = WdsMoved(wdForPath, from, to)
          /\ pathForWd' = PathsMoved(pathForWd, wdForPath, from, to)
      BY <2>3 DEF MovedWd, PathIn
    <2>5. WillSync(loc, watched', pathForWd', wdForPath', movedFrom', Tail(kq))
      BY <2>1, <2>3, <2>4 DEF WillSync
    <2>6. Announced(loc, watched', Tail(kq), walking') /\ WalkSound'
      BY <2>1, <2>3, <1>1, <1>2, <1>5
    <2> QED BY <2>3, <2>5, <2>6, <1>1, ReadFollows
  <1>4. CASE /\ kq[1].mask = "moved_from" /\ kq[1].wd \in DOMAIN pathForWd
             /\ Tail(kq) # <<>> /\ Tail(kq)[1].cookie = kq[1].cookie
             /\ MoveNext(loc, watched, pathForWd, wdForPath, PathIn(pathForWd, kq[1]), Tail(kq))
    <2> DEFINE q == Tail(kq)
               from == PathIn(pathForWd, kq[1])
    <2>1. movedFrom' = With(movedFrom, ev.cookie, pathForWd[ev.wd] \o ev.name)
          /\ UNCHANGED <<wdForPath, pathForWd, walking, readerThread, watched>>
      BY <1>2, <1>4 DEF ReadEvents
    <2>2. ev.cookie \in DOMAIN movedFrom' /\ movedFrom'[ev.cookie] = from
      BY <2>1, <1>2 DEF With, PathIn
    <2>3. q # <<>> /\ q[1].cookie = ev.cookie
      BY <1>2, <1>4
    <2> HIDE DEF from, q, ev
    <2>4. MoveNext(loc, watched, pathForWd, wdForPath, from, q)
      BY <1>4 DEF from, q
    <2>5. MoveNext(loc, watched', pathForWd', wdForPath', movedFrom'[q[1].cookie], q)
      BY <2>1, <2>2, <2>3, <2>4
    <2>6. WillSync(loc, watched', pathForWd', wdForPath', movedFrom', q)
      BY <2>2, <2>3, <2>5 DEF WillSync
    <2>7. Announced(loc, watched', Tail(kq), walking') /\ WalkSound'
      BY <2>1, <1>1, <1>4, <1>5
    <2> QED BY <2>1, <2>6, <2>7, <1>1, ReadFollows DEF q
  <1> QED BY <1>3, <1>4 DEF Following, WillSync

\* the directories that _add_watch can find
LEMMA FoundAt ==
  ASSUME InotifyAssumption, DirsSound(loc, watched), NEW x \in DirPath
  PROVE  /\ At(x) = {d \in In(loc) : loc[d] = x}
         /\ \A d \in Watchable(x) : d \in In(loc) /\ loc[d] = x /\ At(x) = {d}
  <1>1. At(x) = {d \in In(loc) : loc[d] = x}
    BY PlacesNamed DEF At
  <1>2. ASSUME NEW d \in Watchable(x) PROVE d \in In(loc) /\ loc[d] = x /\ At(x) = {d}
    <2>1. d \in At(x)
      BY DEF Watchable
    <2> QED BY <2>1, <1>1 DEF DirsSound
  <1> QED BY <1>1, <1>2

\* _add_watch: the watches and both maps have what is at the path then.
LEMMA AddWatchKeeps ==
  ASSUME InotifyAssumption, DirsSound(loc, watched), NEW x \in DirPath, NEW q,
         InSync(loc, watched, pathForWd, wdForPath, q), AddWatch(x), ~full'
  PROVE  /\ InSync(loc, watched', pathForWd', wdForPath', q)
         /\ watched' = watched \cup At(x) /\ DirsSound(loc, watched')
         /\ At(x) # {} => x \in DOMAIN wdForPath' /\ Watchable(x) # {}
         /\ DOMAIN wdForPath \subseteq DOMAIN wdForPath'
  <1>1. CASE Watchable(x) = {}
    <2>1. At(x) = {} /\ watched' = watched /\ wdForPath' = wdForPath /\ pathForWd' = pathForWd
      BY <1>1 DEF AddWatch
    <2> QED BY <2>1
  <1>2. CASE Watchable(x) # {}
    <2>1. PICK d \in Watchable(x) : /\ watched' = watched \cup {d}
                                    /\ wdForPath' = With(wdForPath, x, d)
                                    /\ pathForWd' = With(pathForWd, d, x)
      BY <1>2 DEF AddWatch
    <2>2. d \in In(loc) /\ loc[d] = x /\ At(x) = {d}
      BY FoundAt
    <2>3. InSync(loc, watched \cup {d}, With(pathForWd, d, x), With(wdForPath, x, d), q)
      BY <2>2, WatchKeeps
    <2>4. DirsSound(loc, watched \cup {d})
      BY <2>2, WatchSound
    <2>5. x \in DOMAIN wdForPath' /\ DOMAIN wdForPath \subseteq DOMAIN wdForPath'
      BY <2>1 DEF With
    <2> QED BY <2>1, <2>2, <2>3, <2>4, <2>5, <1>2
  <1> QED BY <1>1, <1>2

\* what the steps that read, list and watch keep when both maps are in step
ReadOn ==
  /\ readerThread' = "run" /\ DirsSound(loc, watched')
  /\ InSync(loc, watched', pathForWd', wdForPath', kq')
  /\ Announced(loc, watched', kq', walking')
  /\ \A x \in DirPath : <<"list", x>> \in walking' /\ At(x) # {} => reborn \/ x \in DOMAIN wdForPath'

LEMMA ReadOnFollows ==
  ASSUME Following, ReadOn, loc' = loc, treeChanges' = treeChanges, reborn' = reborn,
         kq' \in Seq(KernelEvents)
  PROVE  Following'
  <1>1. DirsSound(loc, watched)' /\ Announced(loc, watched, kq, walking)'
        /\ InSync(loc, watched, pathForWd, wdForPath, kq)'
    BY DEF ReadOn
  <1>2. WillSync(loc, watched, pathForWd, wdForPath, movedFrom, kq)'
    BY <1>1 DEF WillSync
  <1>3. \A x : At(x)' = At(x)
    BY DEF At
  <1>4. WalkSound'
    BY <1>1, <1>3 DEF ReadOn, WalkSound
  <1> QED BY <1>1, <1>2, <1>4 DEF Following, ReadOn

\* the event of a new directory
LEMMA ReadMakeFollows ==
  ASSUME InotifyAssumption, Following, NEW ev, ev = kq[1], kq # <<>>, ev.mask = "create",
         InSync(loc, watched, pathForWd, wdForPath, kq), walking = {},
         AddWatch(PathIn(pathForWd, ev)), readerThread' = "run", kq' = Tail(kq),
         walking' = {g \in {<<"list", PathIn(pathForWd, ev)>>} : Watchable(PathIn(pathForWd, ev)) # {}}
  PROVE  full' \/ ReadOn
  <1> SUFFICES ASSUME ~full' PROVE ReadOn
    OBVIOUS
  <1> DEFINE x == PathIn(pathForWd, ev)
  <1> HIDE DEF x
  <1>1. /\ DirsSound(loc, watched) /\ MapsSound(loc, watched, pathForWd, wdForPath)
        /\ kq \in Seq(KernelEvents) /\ Announced(loc, watched, kq, {})
    BY DEF Following, InSync
  <1>2. x \in DirPath
    <2>1. kq \in Seq(EventsOf(DOMAIN pathForWd)) /\ 1 \in DOMAIN kq
      BY DEF InSync, QueueTyped
    <2>2. kq[1] \in EventsOf(DOMAIN pathForWd) /\ ev.name \in DirPath
      BY <2>1 DEF InSync, QueueTyped
    <2>3. pathForWd[ev.wd] \in DirPath
      BY <2>2, <1>1 DEF MapsSound, EventsOf
    <2> QED BY <2>2, <2>3 DEF x, PathIn, DirPath
  <1>3. InSync(loc, watched, pathForWd, wdForPath, Tail(kq))
    BY ReadKeeps
  <1>4. AddWatch(x) /\ walking' = {g \in {<<"list", x>>} : Watchable(x) # {}}
    BY DEF x
  <1>5. /\ InSync(loc, watched', pathForWd', wdForPath', Tail(kq))
        /\ watched' = watched \cup At(x) /\ DirsSound(loc, watched')
        /\ At(x) # {} => x \in DOMAIN wdForPath' /\ Watchable(x) # {}
    BY <1>1, <1>2, <1>3, <1>4, AddWatchKeeps
  <1>6. Announced(loc, watched \cup At(x), Tail(kq), walking')
    <2>1. At(x) = {d \in In(loc) : loc[d] = PathIn(pathForWd, kq[1])}
      BY <1>1, <1>2, FoundAt DEF x
    <2>2. At(x) # {} => <<"list", PathIn(pathForWd, kq[1])>> \in walking'
      BY <1>4, <1>5 DEF x
    <2> QED BY <2>1, <2>2, <1>1, AnnouncedBegun
  <1>7. ASSUME NEW y \in DirPath, <<"list", y>> \in walking', At(y) # {} PROVE y \in DOMAIN wdForPath'
    <2>1. y = x
      BY <1>4, <1>7
    <2> QED BY <2>1, <1>5, <1>7
  <1> QED BY <1>5, <1>6, <1>7 DEF ReadOn

\* the events of no move
LEMMA ReadSyncFollows ==
  ASSUME InotifyAssumption, Recursive, Following, ReadEvents,
         InSync(loc, watched, pathForWd, wdForPath, kq)
  PROVE  full' \/ Following'
  <1> DEFINE ev == kq[1]
  <1>1. /\ kq # <<>> /\ kq' = Tail(kq) /\ loc' = loc /\ treeChanges' = treeChanges
        /\ DirsSound(loc, watched) /\ readerThread = "run" /\ walking = {} /\ reborn' = reborn
        /\ kq \in Seq(KernelEvents) /\ Announced(loc, watched, kq, walking)
    BY DEF ReadEvents, Following
  <1>2. kq \in Seq(EventsOf(DOMAIN pathForWd)) /\ 1 \in DOMAIN kq
    BY <1>1 DEF InSync, QueueTyped
  <1>3. ev \in EventsOf(DOMAIN pathForWd) /\ Head(kq) = ev
    BY <1>1, <1>2
  <1>4. ev.wd \in DOMAIN pathForWd /\ ev.mask \in Told
    BY <1>3 DEF EventsOf
  <1> HIDE DEF ev
  <1>5. SUFFICES full' \/ ReadOn
    <2>1. kq' \in Seq(KernelEvents)
      BY <1>1
    <2> QED BY <2>1, <1>1, ReadOnFollows
  <1>6. ASSUME ev.mask # "create", walking' = walking, watched' = watched, readerThread' = readerThread,
               InSync(loc, watched, pathForWd', wdForPath', Tail(kq))
        PROVE  ReadOn
    <2>1. Announced(loc, watched, Tail(kq), walking)
      BY <1>1, <1>6, AnnouncedRead DEF ev
    <2> QED BY <2>1, <1>1, <1>6 DEF ReadOn
  <1>7. CASE ev.mask = "ignored"
    <2>1. Ends(kq[1], ev.wd)
      BY <1>7 DEF Ends, ev
    <2>2. /\ pathForWd[ev.wd] \in DOMAIN wdForPath /\ ev.name = <<>>
          /\ InSync(loc, watched, Without(pathForWd, ev.wd),
                    Forget(wdForPath, pathForWd[ev.wd], ev.wd), Tail(kq))
      BY <2>1, <1>1, ReadEndKeeps DEF ev
    <2>3. pathForWd[ev.wd] \in DirPath
      BY <1>4 DEF InSync, MapsSound
    <2>4. pathForWd[ev.wd] \o ev.name = pathForWd[ev.wd]
      BY <2>2, <2>3 DEF DirPath
    <2>5. /\ pathForWd' = Without(pathForWd, ev.wd)
          /\ wdForPath' = Forget(wdForPath, pathForWd[ev.wd], ev.wd)
          /\ UNCHANGED <<walking, readerThread, watched>>
      BY <1>3, <1>4, <1>7, <2>2, <2>4 DEF ReadEvents, Forget
    <2> QED BY <2>2, <2>5, <1>6, <1>7
  <1>8. CASE ev.mask = "create"
    <2>1. AddWatch(PathIn(pathForWd, ev)) /\ readerThread' = readerThread
          /\ walking' = {g \in {<<"list", PathIn(pathForWd, ev)>>} : Watchable(PathIn(pathForWd, ev)) # {}}
      BY <1>3, <1>4, <1>8 DEF ReadEvents, PathIn
    <2> QED BY <2>1, <1>1, <1>8, ReadMakeFollows DEF ev
  <1>9. CASE ev.mask \in {"delete", "delete_self", "create_file"}
    <2>1. UNCHANGED <<wdForPath, pathForWd, walking, readerThread, watched>>
      BY <1>3, <1>4, <1>9 DEF ReadEvents, maps
    <2>2. InSync(loc, watched, pathForWd, wdForPath, Tail(kq))
      BY <1>1, <1>9, ReadKeeps DEF ev
    <2> QED BY <2>1, <2>2, <1>6, <1>9
  <1> QED BY <1>4, <1>7, <1>8, <1>9 DEF Told

LEMMA ReadEventsFollows ==
  ASSUME InotifyAssumption, Recursive, Following, ReadEvents
  PROVE  full' \/ Following'
  BY ReadSyncFollows, ReadMoveFollows

\* The walk lists a directory: a file there is looked up by the directory's path.
LEMMA ListFoundFollows ==
  ASSUME InotifyAssumption, Following, ListFound
  PROVE  (reborn' /\ readerThread' # "run") \/ Following'
  <1>1. PICK y \in DirPaths :
          /\ <<"list", y>> \in walking
          /\ walking' = (walking \ {<<"list", y>>})
                        \cup {<<"watch", loc[d]>> : d \in {c \in InTree \ {Root} : Front(loc[c]) = y}}
          /\ readerThread' = IF At(y) \cap files # {} /\ y \notin DOMAIN wdForPath
                             THEN "KeyError" ELSE "run"
    BY DEF ListFound
  <1>2. /\ loc' = loc /\ treeChanges' = treeChanges /\ reborn' = reborn /\ kq' = kq
        /\ watched' = watched /\ pathForWd' = pathForWd /\ wdForPath' = wdForPath
    BY DEF ListFound, kernel, maps
  <1>3. y \in DirPath
    <2>1. PICK i \in 0..MaxDepth : y \in [1..i -> DirEntries]
      BY DEF DirPaths
    <2> QED BY <2>1 DEF InotifyAssumption, DirPath
  <1>4. /\ DirsSound(loc, watched) /\ Announced(loc, watched, kq, walking) /\ kq \in Seq(KernelEvents)
        /\ InSync(loc, watched, pathForWd, wdForPath, kq)
    BY <1>1 DEF Following, WalkSound
  <1>5. CASE At(y) \cap files # {} /\ y \notin DOMAIN wdForPath
    <2>1. readerThread' = "KeyError"
      BY <1>1, <1>5
    <2>2. reborn
      BY <1>1, <1>3, <1>5 DEF Following, WalkSound
    <2> QED BY <2>1, <2>2, <1>2
  <1>6. CASE ~(At(y) \cap files # {} /\ y \notin DOMAIN wdForPath)
    <2>1. readerThread' = "run"
      BY <1>1, <1>6
    <2>2. Announced(loc, watched, kq, walking')
      <3>1. InTree = In(loc)
        BY <1>4, PlacesNamed
      <3> QED BY <3>1, <1>1, <1>4, AnnouncedListed
    <2>3. ASSUME NEW x \in DirPath, <<"list", x>> \in walking', At(x) # {}
          PROVE  reborn \/ x \in DOMAIN wdForPath
      <3>1. <<"list", x>> \in walking
        BY <1>1, <2>3
      <3> QED BY <3>1, <2>3 DEF Following, WalkSound
    <2>4. ReadOn
      BY <2>1, <2>2, <2>3, <1>2, <1>4 DEF ReadOn
    <2> QED BY <2>4, <1>2, <1>4, ReadOnFollows
  <1> QED BY <1>5, <1>6

\* The walk gives a directory it has found its watch.
LEMMA WatchFoundFollows ==
  ASSUME InotifyAssumption, Following, WatchFound
  PROVE  full' \/ Following'
  <1> SUFFICES ASSUME ~full' PROVE Following'
    OBVIOUS
  <1>1. PICK y \in DirPaths :
          /\ <<"watch", y>> \in walking /\ AddWatch(y)
          /\ walking' = (walking \ {<<"watch", y>>}) \cup {<<"list", y>>}
    BY DEF WatchFound
  <1>2. /\ loc' = loc /\ treeChanges' = treeChanges /\ reborn' = reborn /\ kq' = kq
        /\ readerThread' = readerThread
    BY DEF WatchFound
  <1>3. y \in DirPath
    <2>1. PICK i \in 0..MaxDepth : y \in [1..i -> DirEntries]
      BY DEF DirPaths
    <2> QED BY <2>1 DEF InotifyAssumption, DirPath
  <1>4. /\ DirsSound(loc, watched) /\ Announced(loc, watched, kq, walking) /\ kq \in Seq(KernelEvents)
        /\ InSync(loc, watched, pathForWd, wdForPath, kq) /\ readerThread = "run"
    BY <1>1 DEF Following, WalkSound
  <1>5. /\ InSync(loc, watched', pathForWd', wdForPath', kq)
        /\ watched' = watched \cup At(y) /\ DirsSound(loc, watched')
        /\ At(y) # {} => y \in DOMAIN wdForPath'
        /\ DOMAIN wdForPath \subseteq DOMAIN wdForPath'
    BY <1>1, <1>3, <1>4, AddWatchKeeps
  <1>6. Announced(loc, watched \cup At(y), kq, walking')
    <2>1. At(y) = {d \in In(loc) : loc[d] = y}
      BY <1>3, <1>4, FoundAt
    <2> QED BY <2>1, <1>1, <1>4, AnnouncedWatched
  <1>7. ASSUME NEW x \in DirPath, <<"list", x>> \in walking', At(x) # {}
        PROVE  reborn \/ x \in DOMAIN wdForPath'
    <2>1. CASE x = y
      BY <2>1, <1>5, <1>7
    <2>2. CASE x # y
      <3>1. <<"list", x>> \in walking
        BY <2>2, <1>1, <1>7
      <3> QED BY <3>1, <1>5, <1>7 DEF Following, WalkSound
    <2> QED BY <2>1, <2>2
  <1>8. ReadOn
    BY <1>2, <1>4, <1>5, <1>6, <1>7 DEF ReadOn
  <1> QED BY <1>2, <1>4, <1>8, ReadOnFollows

-----------------------------------------------------------------------------
(* Inotify: both maps follow the tree.                                             *)

LEMMA InotifyInvInit == InotifyAssumption /\ InotifyInit => InotifyInv
  <1> SUFFICES ASSUME InotifyAssumption, InotifyInit PROVE Following
    BY DEF InotifyInv
  <1>1. /\ loc = [d \in All |-> IF d = Root THEN <<>> ELSE New] /\ watched = {Root} /\ kq = <<>>
        /\ wdForPath = [x \in {<<>>} |-> Root] /\ pathForWd = [d \in {Root} |-> <<>>]
        /\ readerThread = "run" /\ treeChanges = 0 /\ walking = {}
    BY DEF InotifyInit
  <1>2. <<>> \in DirPath /\ Root \in All
    BY DEF DirPath, All
  <1>3. <<>> \notin {New, Out, Removed}
    BY <1>2, NotPaths
  <1>4. In(loc) = {Root}
    BY <1>1, <1>2, <1>3 DEF In
  <1>5. DirsSound(loc, watched)
    <2>1. loc \in [All -> DirPath \cup {New, Removed}] /\ loc[Root] = <<>>
      BY <1>1, <1>2
    <2> QED BY <2>1, <1>1, <1>4 DEF DirsSound
  <1>6. MapsSound(loc, watched, pathForWd, wdForPath)
    <2>1. DOMAIN pathForWd = {Root} /\ pathForWd[Root] = <<>> /\ DOMAIN wdForPath = {<<>>}
          /\ wdForPath[<<>>] = Root /\ loc[Root] = <<>>
      BY <1>1, <1>2
    <2>2. pathForWd \in [DOMAIN pathForWd -> DirPath]
      BY <1>1, <1>2
    <2> QED BY <2>1, <2>2, <1>1, <1>2 DEF MapsSound
  <1>7. kq \in Seq(KernelEvents) /\ kq \in Seq(EventsOf(DOMAIN pathForWd)) /\ DOMAIN kq = {}
    BY <1>1
  <1>8. QueueTyped(pathForWd, kq) /\ EndsLast(watched, kq)
        /\ ForgottenFirst(pathForWd, wdForPath, kq)
    BY <1>7 DEF QueueTyped, EndsLast, ForgottenFirst
  <1>9. EndsTold(watched, pathForWd, kq) /\ Announced(loc, watched, kq, walking)
    BY <1>1, <1>4 DEF EndsTold, Announced
  <1>10. WillSync(loc, watched, pathForWd, wdForPath, movedFrom, kq)
    BY <1>6, <1>8, <1>9 DEF InSync, WillSync
  <1>11. WalkSound
    BY <1>1 DEF WalkSound
  <1> QED BY <1>1, <1>5, <1>7, <1>9, <1>10, <1>11 DEF Following

\* what the history knows is not forgotten
LEMMA HistoryGrows ==
  ASSUME [InotifyNext]_inotifyVars
  PROVE  (left => left') /\ (full => full') /\ (renamedEarly => renamedEarly')
         /\ (reborn /\ readerThread # "run" => reborn' /\ readerThread' # "run")
  <1>1. ASSUME NEW e, Changed(e) PROVE full' = full /\ readerThread' = readerThread
    BY <1>1 DEF Changed
  <1>2. ASSUME NEW d, NEW x, Mkdir(d, x)
        PROVE  left' = left /\ renamedEarly' = renamedEarly /\ full' = full
               /\ readerThread' = readerThread /\ (reborn => reborn')
    <2>1. full' = full /\ readerThread' = readerThread
      BY <1>1, <1>2 DEF Mkdir
    <2>2. left' = left /\ renamedEarly' = renamedEarly
      BY <1>2 DEF Mkdir
    <2>3. reborn' = (reborn \/ (<<"list", x>> \in walking /\ x \notin DOMAIN wdForPath))
      BY <1>2 DEF Mkdir
    <2> QED BY <2>1, <2>2, <2>3
  <1>3. ASSUME NEW d, NEW x, Rename(d, x)
        PROVE  left' = left /\ (renamedEarly => renamedEarly') /\ full' = full
               /\ readerThread' = readerThread /\ reborn' = reborn
    <2>1. left' = left /\ reborn' = reborn
      BY <1>3 DEF Rename
    <2>2. renamedEarly' = (renamedEarly \/ kq # <<>> \/ walking # {})
      BY <1>3 DEF Rename
    <2>3. full' = full /\ readerThread' = readerThread
      BY <1>3 DEF Rename, Changed
    <2> QED BY <2>1, <2>2, <2>3
  <1>4. ASSUME NEW d, NEW x, MoveIn(d, x) \/ MoveOut(d) \/ Rmdir(d) \/ PutFile(d)
        PROVE  (left => left') /\ renamedEarly' = renamedEarly /\ full' = full
               /\ readerThread' = readerThread /\ reborn' = reborn
    BY <1>1, <1>4 DEF MoveIn, MoveOut, Rmdir, PutFile
  <1>5. CASE TreeChange
    BY <1>2, <1>3, <1>4, <1>5 DEF TreeChange
  <1>6. ASSUME NEW x, AddWatch(x) PROVE full => full'
    BY <1>6 DEF AddWatch
  <1>7. CASE ReadEvents
    <2>1. full' = full \/ \E x \in {pathForWd[Head(kq).wd] \o Head(kq).name} : AddWatch(x)
      BY <1>7 DEF ReadEvents
    <2> QED BY <2>1, <1>6, <1>7 DEF ReadEvents
  <1>8. CASE ListFound
    BY <1>8 DEF ListFound, kernel
  <1>9. CASE WatchFound
    BY <1>6, <1>9 DEF WatchFound
  <1>10. CASE UNCHANGED inotifyVars
    BY <1>10 DEF inotifyVars, kernel
  <1> QED BY <1>5, <1>7, <1>8, <1>9, <1>10 DEF InotifyNext

LEMMA InotifyInvStep ==
  ASSUME InotifyAssumption, InotifyInv, [InotifyNext]_inotifyVars
  PROVE  InotifyInv'
  <1> SUFFICES ASSUME Recursive, ~left', ~full', ~renamedEarly', ~(reborn' /\ readerThread' # "run")
               PROVE  Following'
    BY DEF InotifyInv
  <1>1. Following
    BY HistoryGrows DEF InotifyInv
  <1>2. ASSUME NEW d \in Dirs, NEW x \in DirPaths, Mkdir(d, x) \/ Rename(d, x) PROVE Following'
    BY <1>1, <1>2, MkdirFollows, RenameFollows
  <1>3. ASSUME NEW d \in Dirs, NEW x \in DirPaths, MoveIn(d, x) PROVE FALSE
    BY <1>3 DEF MoveIn
  <1>4. ASSUME NEW d \in Dirs, MoveOut(d) PROVE FALSE
    BY <1>4 DEF MoveOut
  <1>5. ASSUME NEW d \in Dirs, Rmdir(d) PROVE Following'
    BY <1>1, <1>5, RmdirFollows
  <1>6. ASSUME NEW d \in All, PutFile(d) PROVE Following'
    BY <1>1, <1>6, PutFileFollows
  <1>7. ASSUME ReadEvents \/ ListFound \/ WatchFound PROVE Following'
    BY <1>1, <1>7, ReadEventsFollows, ListFoundFollows, WatchFoundFollows
  <1>8. ASSUME UNCHANGED inotifyVars PROVE Following'
    <2>1. /\ loc' = loc /\ watched' = watched /\ kq' = kq /\ treeChanges' = treeChanges
          /\ pathForWd' = pathForWd /\ wdForPath' = wdForPath /\ movedFrom' = movedFrom
          /\ readerThread' = readerThread /\ walking' = walking /\ reborn' = reborn
      BY <1>8 DEF inotifyVars, kernel, maps
    <2>2. DirsSound(loc, watched)' /\ WillSync(loc, watched, pathForWd, wdForPath, movedFrom, kq)'
          /\ Announced(loc, watched, kq, walking)'
      BY <2>1, <1>1 DEF Following
    <2>3. WalkSound'
      BY <2>1, <1>1 DEF Following, WalkSound, At
    <2> QED BY <2>1, <2>2, <2>3, <1>1 DEF Following
  <1>9. CASE TreeChange
    BY <1>2, <1>3, <1>4, <1>5, <1>6, <1>9 DEF TreeChange
  <1> QED BY <1>7, <1>8, <1>9 DEF InotifyNext

\* Of a recursive watch whose directories stay in the tree, are renamed only while no event
\* is unread and no walk goes on, and are all granted their watches. However directories are
\* made, removed and replaced and files appear while events wait to be read and between the
\* steps of a walk through a new directory, the two maps are what the kernel will have once
\* the waiting events are read: a watch that ended is in the maps until its end is read, two
\* watches on one path are told apart by the order of their ends, and a directory without a
\* watch is announced by an event of its parent's watch or is still before the walk.
THEOREM InotifyInvariant == InotifySpec => []InotifyInv
<1>1. InotifyInv /\ [InotifyNext]_inotifyVars => InotifyInv'
  BY InotifyAssumption, InotifyInvStep
<1>2. InotifyInit => InotifyInv
  BY InotifyAssumption, InotifyInvInit
<1> QED BY <1>1, <1>2, PTL DEF InotifySpec

\* The thread that reads events does not die of a key that one of the two maps lacks, unless
\* a directory was made again between the walk's attempt to watch it and its listing; and
\* when all events are processed and no walk goes on both maps name exactly the directories
\* of the tree, each where it is, and each has its watch.
THEOREM InotifyMapsFollow == InotifySpec => []MapsFollow
<1>1. InotifyInv => MapsFollow
  <2>1. ASSUME Following, kq = <<>>, walking = {}
        PROVE  /\ watched = InTree
               /\ DOMAIN pathForWd = InTree /\ \A d \in InTree : pathForWd[d] = loc[d]
               /\ DOMAIN wdForPath = {loc[d] : d \in InTree}
               /\ \A d \in InTree : wdForPath[loc[d]] = d
    <3>1. DirsSound(loc, watched) /\ InSync(loc, watched, pathForWd, wdForPath, <<>>)
          /\ Announced(loc, watched, <<>>, {})
      BY <2>1 DEF Following, WillSync
    <3>2. In(loc) = InTree
      BY DEF In, InTree
    <3>3. /\ watched = In(loc) /\ DOMAIN pathForWd = watched
          /\ \A c \in watched : pathForWd[c] = loc[c]
          /\ WdsAre(loc, watched, wdForPath)
      BY <3>1, AllRead
    <3> QED BY <3>2, <3>3 DEF WdsAre
  <2>2. Following => readerThread = "run"
    BY DEF Following
  <2> QED BY <2>1, <2>2 DEF InotifyInv, MapsFollow
<1> QED BY <1>1, InotifyInvariant, PTL

-----------------------------------------------------------------------------
(* FSEvents and Windows: the events of one change, one by one.                  *)

\* where an inode is, the inodes there are, and what a change moved or wrote to
PlaceOf(x, i) == CHOOSE p \in DOMAIN x : x[p].ino = i
InosOf(x) == {x[p].ino : p \in DOMAIN x}
Along(t, u, i) == /\ DirOf(PlaceOf(u, i)) # DirOf(PlaceOf(t, i))
                  /\ u[DirOf(PlaceOf(u, i))].ino = t[DirOf(PlaceOf(t, i))].ino
Shifted(t, u) == {i \in InosOf(t) \cap InosOf(u) : PlaceOf(t, i) # PlaceOf(u, i) /\ ~Along(t, u, i)}
Touched(t, u) == {i \in InosOf(t) \cap InosOf(u) : t[PlaceOf(t, i)].mtime # u[PlaceOf(u, i)].mtime}
One(S) == CHOOSE i \in S : TRUE
MoveOf(p, q, i) == IF system = "Windows" /\ DirOf(p) # DirOf(q)
                   THEN <<Ev(p, i, "removed"), Ev(q, i, "created")>>
                   ELSE <<Ev(p, i, "renamed"), Ev(q, i, "renamedTo")>>

LEMMA ChangeParts ==
  ASSUME NEW t, NEW u
  PROVE  LET gone == InosOf(t) \ InosOf(u)
             born == InosOf(u) \ InosOf(t)
         IN  ChangeEvents(t, u) =
               (IF gone = {} THEN <<>> ELSE <<Ev(PlaceOf(t, One(gone)), One(gone), "removed")>>)
               \o (IF Shifted(t, u) = {} THEN <<>> ELSE
                   MoveOf(PlaceOf(t, One(Shifted(t, u))), PlaceOf(u, One(Shifted(t, u))), One(Shifted(t, u))))
               \o (IF born = {} THEN <<>> ELSE <<Ev(PlaceOf(u, One(born)), One(born), "created")>>)
               \o (IF Touched(t, u) = {} THEN <<>> ELSE
                   <<Ev(PlaceOf(u, One(Touched(t, u))), One(Touched(t, u)), "modified")>>)
BY DEF ChangeEvents, Shifted, Touched, Along, One, MoveOf, InosOf, PlaceOf

\* what the kernel has waiting after the events of a change, same events merged on macOS
MergedAll(old, evs) == FoldLeft(Merge, old, evs)

\* FoldLeft over at most three events, step by step.
LEMMA MergedStepwise ==
  ASSUME NEW base, NEW seq, DOMAIN seq \in {{}, {1}, {1, 2}, {1, 2, 3}}
  PROVE  LET a == IF 1 \in DOMAIN seq THEN Merge(base, seq[1]) ELSE base
             b == IF 2 \in DOMAIN seq THEN Merge(a, seq[2]) ELSE a
         IN  MergedAll(base, seq) = IF 3 \in DOMAIN seq THEN Merge(b, seq[3]) ELSE b
<1> DEFINE V == DOMAIN seq
           A(f) == f = [s \in SUBSET V |-> IF s = {} THEN base ELSE
                          Merge(f[s \ {Max(s)}], seq[Max(s)])]
           a(s) == IF 1 \in s THEN Merge(base, seq[1]) ELSE base
           b(s) == IF 2 \in s THEN Merge(a(s), seq[2]) ELSE a(s)
           c(s) == IF 3 \in s THEN Merge(b(s), seq[3]) ELSE b(s)
           g == CHOOSE f : A(f)
           h == [s \in SUBSET V |-> c(s)]
<1>1. MergedAll(base, seq) = g[V]
  BY DEF MergedAll, FoldLeft, MapThenFoldSet
<1>2. V \in SUBSET {1, 2, 3}
  OBVIOUS
<1>m. ASSUME NEW s \in SUBSET {1, 2, 3}, s # {}
      PROVE Max(s) = IF 3 \in s THEN 3 ELSE IF 2 \in s THEN 2 ELSE 1
  <2> DEFINE m == IF 3 \in s THEN 3 ELSE IF 2 \in s THEN 2 ELSE 1
  <2>0. \A y \in s : y = 1 \/ y = 2 \/ y = 3
    OBVIOUS
  <2>1. m \in s /\ \A y \in s : m >= y
    <3>1. CASE 3 \in s BY <2>0, <3>1
    <3>2. CASE 3 \notin s /\ 2 \in s BY <2>0, <3>2
    <3>3. CASE 3 \notin s /\ 2 \notin s
      <4>1. \A y \in s : y = 1 BY <2>0, <3>3
      <4>2. m = 1 BY <3>3
      <4>3. 1 \in s BY <1>m, <4>1
      <4> QED BY <4>1, <4>2, <4>3
    <3> QED BY <3>1, <3>2, <3>3
  <2>2. ASSUME NEW n \in s, \A y \in s : n >= y
        PROVE n = m
    <3> HIDE DEF m
    <3>1. n \in 1..3 /\ m \in 1..3
      BY <2>1, <2>2
    <3>2. n >= m /\ m >= n
      BY <2>1, <2>2
    <3> QED BY <3>1, <3>2
  <2> HIDE DEF m
  <2>3. Max(s) = m
    BY <2>1, <2>2 DEF Max
  <2> QED BY <2>3 DEF m
<1>3. ASSUME NEW s \in SUBSET V, s # {}
      PROVE  c(s) = Merge(c(s \ {Max(s)}), seq[Max(s)])
  <2>1. CASE 3 \in s
    <3>1. Max(s) = 3 BY <1>2, <1>m, <2>1
    <3>2. b(s \ {3}) = b(s) /\ 3 \notin s \ {3} OBVIOUS
    <3> HIDE DEF b
    <3> QED BY <2>1, <3>1, <3>2
  <2>2. CASE 3 \notin s /\ 2 \in s
    <3>1. Max(s) = 2 BY <1>2, <1>m, <2>2
    <3>2. a(s \ {2}) = a(s) /\ 2 \notin s \ {2} /\ 3 \notin s \ {2} BY <2>2
    <3> HIDE DEF a
    <3> QED BY <2>2, <3>1, <3>2
  <2>3. CASE 3 \notin s /\ 2 \notin s
    <3>1. s = {1} BY <1>2, <1>3, <2>3
    <3>2. Max(s) = 1 BY <1>2, <1>m, <3>1
    <3>3. s \ {1} = {} BY <3>1
    <3> QED BY <2>3, <3>1, <3>2, <3>3
  <2> QED BY <2>1, <2>2, <2>3
<1>4. A(h)
  <2>1. \A s \in SUBSET V : s # {} => s \ {Max(s)} \in SUBSET V
    OBVIOUS
  <2>2. c({}) = base OBVIOUS
  <2> HIDE DEF c
  <2>3. \A s \in SUBSET V : s # {} => c(s) = Merge(h[s \ {Max(s)}], seq[Max(s)])
    BY <1>3, <2>1
  <2> QED BY <2>2, <2>3
<1>5. A(g)
  <2> HIDE DEF h, A
  <2> QED BY <1>4
<1>6. g = h
  <2>1. ASSUME NEW s \in SUBSET V PROVE g[s] = c(s)
    <3>0. \A r \in SUBSET V : g[r] = IF r = {} THEN base ELSE Merge(g[r \ {Max(r)}], seq[Max(r)])
      <4> HIDE DEF g, V
      <4> QED BY <1>5
    <3> HIDE DEF g, A, h
    <3>m. \A r \in SUBSET V : r # {} => c(r) = Merge(c(r \ {Max(r)}), seq[Max(r)])
      BY <1>3
    <3>e. c({}) = base OBVIOUS
    <3> HIDE DEF c
    <3>1. ASSUME NEW r \in SUBSET V, r \subseteq {1} PROVE g[r] = c(r)
      <4>1. CASE r = {} BY <3>0, <3>e, <4>1
      <4>2. CASE r # {}
        <5>1. r = {1} BY <3>1, <4>2
        <5>2. Max(r) = 1 BY <1>m, <5>1
        <5>3. r \ {Max(r)} = {} BY <5>1, <5>2
        <5> QED BY <3>0, <3>m, <3>e, <4>2, <5>3
      <4> QED BY <4>1, <4>2
    <3>2. ASSUME NEW r \in SUBSET V, r \subseteq {1, 2} PROVE g[r] = c(r)
      <4>1. CASE 2 \notin r BY <3>1, <3>2, <4>1
      <4>2. CASE 2 \in r
        <5>2. Max(r) = 2 BY <1>2, <1>m, <3>2, <4>2
        <5>3. r \ {Max(r)} \in SUBSET V /\ r \ {Max(r)} \subseteq {1} BY <3>2, <5>2
        <5> QED BY <3>0, <3>m, <3>1, <4>2, <5>3
      <4> QED BY <4>1, <4>2
    <3>3. CASE 3 \notin s BY <1>2, <3>2, <3>3
    <3>4. CASE 3 \in s
      <4>2. Max(s) = 3 BY <1>2, <1>m, <3>4
      <4>3. s \ {Max(s)} \in SUBSET V /\ s \ {Max(s)} \subseteq {1, 2} BY <1>2, <4>2
      <4> QED BY <3>0, <3>m, <3>2, <3>4, <4>3
    <3> QED BY <3>3, <3>4
  <2>2. DOMAIN g = SUBSET V /\ g = [s \in SUBSET V |-> g[s]]
    <3> HIDE DEF g
    <3> QED BY <1>5
  <2> HIDE DEF g, c
  <2> QED BY <2>1, <2>2
<1>7. MergedAll(base, seq) = c(V)
  <2>1. h[V] = c(V)
    OBVIOUS
  <2> HIDE DEF h, g, c
  <2> QED BY <1>1, <1>6, <2>1
<1> QED BY ONLY <1>7

-----------------------------------------------------------------------------
(* FSEvents and Windows: what a list of unread events says about the tree.      *)

NatFlags == {"created", "removed", "renamed", "renamedTo", "modified"}
NatEvents == [path : Paths, ino : Inodes \cup {"top"}, flags : SUBSET NatFlags]

Puts(e) == Is(e, "created") \/ Is(e, "renamedTo")
Takes(e) == Is(e, "removed") \/ Is(e, "renamed")
Touches(e, p) == e.path = p /\ (Puts(e) \/ Takes(e))
Alike(e, d) == e.ino = d.ino /\ e.path = d.path

\* the last event that puts or takes a path says whether it is there
ViewLags(Q, K, D) ==
  \A p \in Paths :
    /\ (\A k \in DOMAIN Q : ~Touches(Q[k], p)) => (p \in K <=> p \in D)
    /\ \A k \in DOMAIN Q :
         Touches(Q[k], p) /\ (\A j \in k + 1 .. Len(Q) : ~Touches(Q[j], p)) => (Puts(Q[k]) <=> p \in D)

\* the halves of a rename are next to each other
Halves(Q) ==
  \A k \in DOMAIN Q :
    /\ Is(Q[k], "renamed") => k < Len(Q) /\ Is(Q[k + 1], "renamedTo") /\ Q[k + 1].ino = Q[k].ino
    /\ Is(Q[k], "renamedTo") /\ k > 1 => Is(Q[k - 1], "renamed")

\* what an event leaves at its path is there, or a later event takes it away
Placed(Q, T) ==
  \A k \in DOMAIN Q :
    \/ Takes(Q[k])
    \/ Q[k].path \in DOMAIN T /\ T[Q[k].path].ino = Q[k].ino
    \/ \E m \in k + 1 .. Len(Q) : Takes(Q[m]) /\ Alike(Q[m], Q[k])

\* an inode's next event is where the last one left it
Continued(Q) ==
  \A j, k \in DOMAIN Q :
    j < k /\ Q[j].ino = Q[k].ino /\ ~Takes(Q[j]) =>
      Q[k].path = Q[j].path \/ \E m \in j + 1 .. k - 1 : Takes(Q[m]) /\ Alike(Q[m], Q[j])

\* before event n inode i is free: the last event of it says so, or _fs_view does
Freed(Q, V, n, i) ==
  IF \E j \in 1 .. n - 1 : Q[j].ino = i
  THEN \E j \in 1 .. n - 1 :
         Q[j].ino = i /\ Is(Q[j], "removed") /\ \A m \in j + 1 .. n - 1 : Q[m].ino # i
  ELSE i \notin V

\* only what is free is created
CreatedAnew(Q, V, U) ==
  /\ \A n \in DOMAIN Q : Is(Q[n], "created") => Freed(Q, V, n, Q[n].ino)
  /\ \A i \in Inodes \ U : Freed(Q, V, Len(Q) + 1, i)

AllDistinct(S) == \A j, k \in DOMAIN S : Alike(S[j], S[k]) => j = k

OneOne(T) == \A p, q \in DOMAIN T : T[p].ino = T[q].ino => p = q

-----------------------------------------------------------------------------
(* One event more.                                                              *)

LEMMA EventMore ==
  ASSUME NEW Q \in Seq(NatEvents), NEW e \in NatEvents
  PROVE  /\ Append(Q, e) \in Seq(NatEvents)
         /\ Len(Q) \in Nat
         /\ DOMAIN Q = 1 .. Len(Q)
         /\ DOMAIN Append(Q, e) = 1 .. Len(Q) + 1
         /\ Len(Append(Q, e)) = Len(Q) + 1
         /\ \A k \in 1 .. Len(Q) : Append(Q, e)[k] = Q[k]
         /\ Append(Q, e)[Len(Q) + 1] = e
OBVIOUS

LEMMA EventMoreLags ==
  ASSUME NEW Q \in Seq(NatEvents), NEW e \in NatEvents, NEW K, NEW D, NEW D2,
         ViewLags(Q, K, D),
         \A p \in Paths : p # e.path => (p \in D2 <=> p \in D),
         \/ Puts(e) /\ e.path \in D2
         \/ Takes(e) /\ ~Puts(e) /\ e.path \notin D2
         \/ ~Puts(e) /\ ~Takes(e) /\ (e.path \in D2 <=> e.path \in D)
  PROVE  ViewLags(Append(Q, e), K, D2)
<1> DEFINE R == Append(Q, e)
           n == Len(Q)
<1>1. /\ n \in Nat /\ DOMAIN Q = 1 .. n /\ DOMAIN R = 1 .. n + 1 /\ Len(R) = n + 1
      /\ (\A k \in 1 .. n : R[k] = Q[k]) /\ R[n + 1] = e
  BY EventMore
<1> SUFFICES ASSUME NEW p \in Paths
             PROVE  /\ (\A k \in DOMAIN R : ~Touches(R[k], p)) => (p \in K <=> p \in D2)
                    /\ \A k \in DOMAIN R :
                         Touches(R[k], p) /\ (\A j \in k + 1 .. Len(R) : ~Touches(R[j], p))
                           => (Puts(R[k]) <=> p \in D2)
  BY DEF ViewLags
<1> HIDE DEF R, n
<1>2. CASE Touches(e, p)
  <2>1. p = e.path /\ (Puts(e) <=> p \in D2)
    BY <1>2 DEF Touches
  <2>2. ~(\A k \in DOMAIN R : ~Touches(R[k], p))
    BY <1>1, <1>2
  <2>3. ASSUME NEW k \in DOMAIN R, \A j \in k + 1 .. Len(R) : ~Touches(R[j], p)
        PROVE  k = n + 1
    BY <1>1, <1>2, <2>3
  <2> QED BY <1>1, <2>1, <2>2, <2>3
<1>3. CASE ~Touches(e, p)
  <2>1. p \in D2 <=> p \in D
    BY <1>3 DEF Touches
  <2>2. ASSUME \A k \in DOMAIN R : ~Touches(R[k], p)
        PROVE  p \in K <=> p \in D2
    <3>1. \A k \in DOMAIN Q : ~Touches(Q[k], p)
      <4> SUFFICES ASSUME NEW k \in DOMAIN Q PROVE ~Touches(Q[k], p)
        OBVIOUS
      <4>1. k \in DOMAIN R /\ R[k] = Q[k]
        BY <1>1
      <4> QED BY <2>2, <4>1
    <3> QED BY <2>1, <3>1 DEF ViewLags
  <2>3. ASSUME NEW k \in DOMAIN R, Touches(R[k], p),
               \A j \in k + 1 .. Len(R) : ~Touches(R[j], p)
        PROVE  Puts(R[k]) <=> p \in D2
    <3>1. k \in 1 .. n /\ R[k] = Q[k]
      BY <1>1, <1>3, <2>3
    <3>2. \A j \in k + 1 .. n : ~Touches(Q[j], p)
      <4> SUFFICES ASSUME NEW j \in k + 1 .. n PROVE ~Touches(Q[j], p)
        OBVIOUS
      <4>1. j \in k + 1 .. Len(R) /\ j \in 1 .. n
        BY <1>1, <3>1
      <4> QED BY <1>1, <2>3, <4>1
    <3> QED BY <1>1, <2>1, <2>3, <3>1, <3>2 DEF ViewLags, n
  <2> QED BY <2>2, <2>3
<1> QED BY <1>2, <1>3

LEMMA EventMorePlaced ==
  ASSUME NEW Q \in Seq(NatEvents), NEW e \in NatEvents, NEW T, NEW T2, Placed(Q, T),
         \A p \in DOMAIN T : \/ p \in DOMAIN T2 /\ T2[p].ino = T[p].ino
                             \/ Takes(e) /\ e.path = p /\ e.ino = T[p].ino,
         Takes(e) \/ (e.path \in DOMAIN T2 /\ T2[e.path].ino = e.ino)
  PROVE  Placed(Append(Q, e), T2)
<1> DEFINE R == Append(Q, e)
           n == Len(Q)
<1>1. /\ n \in Nat /\ DOMAIN Q = 1 .. n /\ DOMAIN R = 1 .. n + 1 /\ Len(R) = n + 1
      /\ (\A k \in 1 .. n : R[k] = Q[k]) /\ R[n + 1] = e
  BY EventMore
<1> SUFFICES ASSUME NEW k \in DOMAIN R
             PROVE  \/ Takes(R[k])
                    \/ R[k].path \in DOMAIN T2 /\ T2[R[k].path].ino = R[k].ino
                    \/ \E m \in k + 1 .. Len(R) : Takes(R[m]) /\ Alike(R[m], R[k])
  BY DEF Placed
<1> HIDE DEF R
<1>2. CASE k = n + 1
  BY <1>1, <1>2
<1>3. CASE k \in 1 .. n
  <2>1. R[k] = Q[k]
    BY <1>1, <1>3
  <2>2. CASE Takes(Q[k])
    BY <2>1, <2>2
  <2>3. CASE Q[k].path \in DOMAIN T /\ T[Q[k].path].ino = Q[k].ino
    <3>1. CASE Takes(e) /\ e.path = Q[k].path /\ e.ino = T[Q[k].path].ino
      <4>1. n + 1 \in k + 1 .. Len(R) /\ Alike(R[n + 1], R[k])
        BY <1>1, <1>3, <2>1, <2>3, <3>1 DEF Alike
      <4> QED BY <1>1, <3>1, <4>1
    <3> QED BY <2>1, <2>3, <3>1
  <2>4. CASE \E m \in k + 1 .. n : Takes(Q[m]) /\ Alike(Q[m], Q[k])
    <3>1. PICK m \in k + 1 .. n : Takes(Q[m]) /\ Alike(Q[m], Q[k])
      BY <2>4
    <3>2. m \in k + 1 .. Len(R) /\ R[m] = Q[m]
      BY <1>1, <1>3, <3>1
    <3> QED BY <2>1, <3>1, <3>2
  <2> QED BY <1>1, <1>3, <2>2, <2>3, <2>4 DEF Placed
<1> QED BY <1>1, <1>2, <1>3

LEMMA EventMoreContinued ==
  ASSUME NEW Q \in Seq(NatEvents), NEW e \in NatEvents, NEW T, Placed(Q, T), Continued(Q), OneOne(T),
         \/ e.path \in DOMAIN T /\ T[e.path].ino = e.ino
         \/ \A p \in DOMAIN T : T[p].ino # e.ino
  PROVE  Continued(Append(Q, e))
<1> DEFINE R == Append(Q, e)
           n == Len(Q)
<1>1. /\ n \in Nat /\ DOMAIN Q = 1 .. n /\ DOMAIN R = 1 .. n + 1 /\ Len(R) = n + 1
      /\ (\A k \in 1 .. n : R[k] = Q[k]) /\ R[n + 1] = e
  BY EventMore
<1> SUFFICES ASSUME NEW j \in DOMAIN R, NEW k \in DOMAIN R, j < k, R[j].ino = R[k].ino, ~Takes(R[j])
             PROVE  R[k].path = R[j].path
                    \/ \E m \in j + 1 .. k - 1 : Takes(R[m]) /\ Alike(R[m], R[j])
  BY DEF Continued
<1> HIDE DEF R
<1>2. j \in 1 .. n /\ R[j] = Q[j]
  BY <1>1
<1>3. CASE k = n + 1
  <2>1. CASE Q[j].path \in DOMAIN T /\ T[Q[j].path].ino = Q[j].ino
    <3>1. e.path \in DOMAIN T /\ T[e.path].ino = e.ino
      BY <1>1, <1>2, <1>3, <2>1
    <3>2. e.path = Q[j].path
      BY <1>1, <1>2, <1>3, <2>1, <3>1 DEF OneOne
    <3> QED BY <1>1, <1>2, <1>3, <3>2
  <2>2. CASE \E m \in j + 1 .. n : Takes(Q[m]) /\ Alike(Q[m], Q[j])
    <3>1. PICK m \in j + 1 .. n : Takes(Q[m]) /\ Alike(Q[m], Q[j])
      BY <2>2
    <3>2. m \in j + 1 .. k - 1 /\ R[m] = Q[m]
      BY <1>1, <1>2, <1>3, <3>1
    <3> QED BY <1>2, <3>1, <3>2
  <2> QED BY <1>1, <1>2, <2>1, <2>2 DEF Placed
<1>4. CASE k \in 1 .. n
  <2>1. R[k] = Q[k]
    BY <1>1, <1>4
  <2>2. CASE \E m \in j + 1 .. k - 1 : Takes(Q[m]) /\ Alike(Q[m], Q[j])
    <3>1. PICK m \in j + 1 .. k - 1 : Takes(Q[m]) /\ Alike(Q[m], Q[j])
      BY <2>2
    <3>2. R[m] = Q[m]
      BY <1>1, <1>2, <1>4, <3>1
    <3> QED BY <1>2, <3>1, <3>2
  <2> QED BY <1>1, <1>2, <1>4, <2>1, <2>2 DEF Continued
<1> QED BY <1>1, <1>3, <1>4

LEMMA FreedMore ==
  ASSUME NEW Q \in Seq(NatEvents), NEW e \in NatEvents, NEW V, NEW n \in 1 .. Len(Q) + 1, NEW i
  PROVE  Freed(Append(Q, e), V, n, i) <=> Freed(Q, V, n, i)
<1> DEFINE R == Append(Q, e)
<1>1. Len(Q) \in Nat /\ \A k \in 1 .. Len(Q) : R[k] = Q[k]
  BY EventMore
<1>2. \A k \in 1 .. n - 1 : R[k] = Q[k]
  BY <1>1
<1> HIDE DEF R
<1>3. \A j \in 1 .. n - 1 : j + 1 .. n - 1 \subseteq 1 .. n - 1
  OBVIOUS
<1>4. Freed(R, V, n, i) <=> Freed(Q, V, n, i)
  <2>1. (\E j \in 1 .. n - 1 : R[j].ino = i) <=> (\E j \in 1 .. n - 1 : Q[j].ino = i)
    BY <1>2
  <2>2. ASSUME NEW j \in 1 .. n - 1
        PROVE  (R[j].ino = i /\ Is(R[j], "removed") /\ \A m \in j + 1 .. n - 1 : R[m].ino # i)
               <=> (Q[j].ino = i /\ Is(Q[j], "removed") /\ \A m \in j + 1 .. n - 1 : Q[m].ino # i)
    BY <1>2, <1>3
  <2> QED BY <2>1, <2>2 DEF Freed
<1> QED BY <1>4 DEF R

LEMMA EventMoreAnew ==
  ASSUME NEW Q \in Seq(NatEvents), NEW e \in NatEvents, NEW V, NEW U, NEW U2, CreatedAnew(Q, V, U),
         Is(e, "created") => e.ino \in Inodes \ U,
         \A i \in Inodes \ U2 : \/ i \notin U /\ i # e.ino
                                \/ i = e.ino /\ Is(e, "removed")
  PROVE  CreatedAnew(Append(Q, e), V, U2)
<1> DEFINE R == Append(Q, e)
           n == Len(Q)
<1>1. /\ n \in Nat /\ DOMAIN Q = 1 .. n /\ DOMAIN R = 1 .. n + 1 /\ Len(R) = n + 1
      /\ (\A k \in 1 .. n : R[k] = Q[k]) /\ R[n + 1] = e
  BY EventMore
<1>2. \A k \in 1 .. n + 1 : \A i : Freed(R, V, k, i) <=> Freed(Q, V, k, i)
  BY FreedMore
<1> HIDE DEF R
<1>3. ASSUME NEW k \in DOMAIN R, Is(R[k], "created") PROVE Freed(R, V, k, R[k].ino)
  <2>1. CASE k = n + 1
    BY <1>1, <1>2, <1>3, <2>1 DEF CreatedAnew, n
  <2>2. CASE k \in 1 .. n
    BY <1>1, <1>2, <1>3, <2>2 DEF CreatedAnew
  <2> QED BY <1>1, <2>1, <2>2
<1>4. ASSUME NEW i \in Inodes \ U2 PROVE Freed(R, V, Len(R) + 1, i)
  <2> DEFINE N == Len(R) + 1
  <2>0. N = n + 2 /\ N - 1 = n + 1 /\ N \in Nat
    BY <1>1
  <2> HIDE DEF N, n
  <2>1. CASE i = e.ino /\ Is(e, "removed")
    <3>1. n + 1 \in 1 .. N - 1 /\ R[n + 1].ino = i /\ Is(R[n + 1], "removed")
      BY <1>1, <2>0, <2>1
    <3>2. \A m \in n + 2 .. N - 1 : R[m].ino # i
      BY <1>1, <2>0
    <3>3. (n + 1) + 1 = n + 2
      BY <1>1
    <3> QED BY <3>1, <3>2, <3>3 DEF Freed, N
  <2>2. CASE i \notin U /\ i # e.ino
    <3>1. Freed(Q, V, n + 1, i)
      BY <2>2 DEF CreatedAnew, n
    <3>2. Freed(R, V, n + 1, i)
      BY <1>1, <1>2, <3>1
    <3>3. (n + 1) - 1 = n
      BY <1>1
    <3>4. CASE \E j \in 1 .. n : R[j].ino = i
      <4>1. PICK j \in 1 .. n : R[j].ino = i /\ Is(R[j], "removed") /\ \A m \in j + 1 .. n : R[m].ino # i
        BY <3>2, <3>3, <3>4 DEF Freed
      <4>2. j \in 1 .. N - 1
        BY <1>1, <2>0
      <4>3. \A m \in j + 1 .. N - 1 : R[m].ino # i
        <5> SUFFICES ASSUME NEW m \in j + 1 .. N - 1 PROVE R[m].ino # i
          OBVIOUS
        <5>1. m = n + 1 \/ m \in j + 1 .. n
          BY <1>1, <2>0
        <5> QED BY <1>1, <2>2, <4>1, <5>1
      <4> QED BY <4>1, <4>2, <4>3 DEF Freed, N
    <3>5. CASE \A j \in 1 .. n : R[j].ino # i
      <4>1. i \notin V
        BY <3>2, <3>3, <3>5 DEF Freed
      <4>2. \A j \in 1 .. N - 1 : R[j].ino # i
        <5> SUFFICES ASSUME NEW j \in 1 .. N - 1 PROVE R[j].ino # i
          OBVIOUS
        <5>1. j = n + 1 \/ j \in 1 .. n
          BY <1>1, <2>0
        <5> QED BY <1>1, <2>2, <3>5, <5>1
      <4> QED BY <4>1, <4>2 DEF Freed, N
    <3> QED BY <3>4, <3>5
  <2> QED BY <1>4, <2>1, <2>2
<1> QED BY <1>3, <1>4 DEF CreatedAnew, R

LEMMA EventMoreHalves ==
  ASSUME NEW Q \in Seq(NatEvents), NEW e \in NatEvents, Halves(Q),
         ~Is(e, "renamed"), ~Is(e, "renamedTo")
  PROVE  Halves(Append(Q, e))
<1> DEFINE R == Append(Q, e)
           n == Len(Q)
<1>1. /\ n \in Nat /\ DOMAIN Q = 1 .. n /\ DOMAIN R = 1 .. n + 1 /\ Len(R) = n + 1
      /\ (\A k \in 1 .. n : R[k] = Q[k]) /\ R[n + 1] = e
  BY EventMore
<1> SUFFICES ASSUME NEW k \in DOMAIN R
             PROVE  /\ Is(R[k], "renamed") => /\ k < Len(R) /\ Is(R[k + 1], "renamedTo")
                                              /\ R[k + 1].ino = R[k].ino
                    /\ Is(R[k], "renamedTo") /\ k > 1 => Is(R[k - 1], "renamed")
  BY DEF Halves
<1> HIDE DEF R
<1>2. CASE k = n + 1
  BY <1>1, <1>2
<1>3. CASE k \in 1 .. n
  <2>1. R[k] = Q[k] /\ (k > 1 => R[k - 1] = Q[k - 1]) /\ (k < n => R[k + 1] = Q[k + 1])
    BY <1>1, <1>3
  <2> QED BY <1>1, <1>3, <2>1 DEF Halves
<1> QED BY <1>1, <1>2, <1>3

LEMMA EventsMoreHalves ==
  ASSUME NEW Q \in Seq(NatEvents), NEW a \in NatEvents, NEW b \in NatEvents, Halves(Q),
         Is(a, "renamed"), ~Is(a, "renamedTo"), ~Is(b, "renamed"), Is(b, "renamedTo"), b.ino = a.ino
  PROVE  Halves(Append(Append(Q, a), b))
<1> DEFINE R == Append(Append(Q, a), b)
           n == Len(Q)
<1>1. /\ n \in Nat /\ DOMAIN Q = 1 .. n /\ DOMAIN R = 1 .. n + 2 /\ Len(R) = n + 2
      /\ (\A k \in 1 .. n : R[k] = Q[k]) /\ R[n + 1] = a /\ R[n + 2] = b
  <2> DEFINE P == Append(Q, a)
  <2>1. /\ P \in Seq(NatEvents) /\ n \in Nat /\ DOMAIN Q = 1 .. n /\ Len(P) = n + 1
        /\ (\A k \in 1 .. n : P[k] = Q[k]) /\ P[n + 1] = a
    BY EventMore
  <2> HIDE DEF P
  <2>2. /\ DOMAIN Append(P, b) = 1 .. Len(P) + 1 /\ Len(Append(P, b)) = Len(P) + 1
        /\ (\A k \in 1 .. Len(P) : Append(P, b)[k] = P[k]) /\ Append(P, b)[Len(P) + 1] = b
    BY <2>1, EventMore
  <2>3. \A k \in 1 .. n : k \in 1 .. n + 1
    BY <2>1
  <2> QED BY <2>1, <2>2, <2>3 DEF P
<1> SUFFICES ASSUME NEW k \in DOMAIN R
             PROVE  /\ Is(R[k], "renamed") => /\ k < Len(R) /\ Is(R[k + 1], "renamedTo")
                                              /\ R[k + 1].ino = R[k].ino
                    /\ Is(R[k], "renamedTo") /\ k > 1 => Is(R[k - 1], "renamed")
  BY DEF Halves
<1> HIDE DEF R
<1>2. CASE k = n + 1
  BY <1>1, <1>2
<1>3. CASE k = n + 2
  BY <1>1, <1>3
<1>4. CASE k \in 1 .. n
  <2>1. R[k] = Q[k] /\ (k > 1 => R[k - 1] = Q[k - 1]) /\ (k < n => R[k + 1] = Q[k + 1])
    BY <1>1, <1>4
  <2> QED BY <1>1, <1>4, <2>1 DEF Halves
<1> QED BY <1>1, <1>2, <1>3, <1>4

-----------------------------------------------------------------------------
(* The first event is handled.                                                  *)

LEMMA EventDone ==
  ASSUME NEW Q \in Seq(NatEvents), Q # <<>>
  PROVE  /\ Tail(Q) \in Seq(NatEvents)
         /\ Len(Q) \in Nat /\ Len(Q) >= 1
         /\ DOMAIN Q = 1 .. Len(Q)
         /\ DOMAIN Tail(Q) = 1 .. Len(Q) - 1
         /\ Len(Tail(Q)) = Len(Q) - 1
         /\ Head(Q) = Q[1] /\ Q[1] \in NatEvents
         /\ \A k \in 1 .. Len(Q) - 1 : Tail(Q)[k] = Q[k + 1]
<1>1. Len(Q) \in Nat /\ Len(Q) >= 1 /\ DOMAIN Q = 1 .. Len(Q) /\ Head(Q) = Q[1]
  BY EmptySeq
<1>2. 1 \in 1 .. Len(Q)
  BY <1>1
<1>3. Q[1] \in NatEvents
  BY <1>2, ElementOfSeq
<1>4. /\ Tail(Q) \in Seq(NatEvents) /\ Len(Tail(Q)) = Len(Q) - 1
      /\ \A k \in 1 .. Len(Tail(Q)) : Tail(Q)[k] = Q[k + 1]
  BY HeadTailProperties
<1>5. DOMAIN Tail(Q) = 1 .. Len(Tail(Q))
  BY <1>4, LenProperties
<1> QED BY <1>1, <1>3, <1>4, <1>5

LEMMA EventDoneLags ==
  ASSUME NEW Q \in Seq(NatEvents), Q # <<>>, NEW K, NEW K2, NEW D, ViewLags(Q, K, D),
         \A p \in Paths : p # Q[1].path => (p \in K2 <=> p \in K),
         (\A k \in 2 .. Len(Q) : ~Touches(Q[k], Q[1].path)) => (Q[1].path \in K2 <=> Q[1].path \in D)
  PROVE  ViewLags(Tail(Q), K2, D)
<1> DEFINE R == Tail(Q)
           n == Len(Q)
<1>1. /\ n \in Nat /\ n >= 1 /\ DOMAIN Q = 1 .. n /\ DOMAIN R = 1 .. n - 1 /\ Len(R) = n - 1
      /\ (\A k \in 1 .. n - 1 : R[k] = Q[k + 1])
  BY EventDone
<1> SUFFICES ASSUME NEW p \in Paths
             PROVE  /\ (\A k \in DOMAIN R : ~Touches(R[k], p)) => (p \in K2 <=> p \in D)
                    /\ \A k \in DOMAIN R :
                         Touches(R[k], p) /\ (\A j \in k + 1 .. Len(R) : ~Touches(R[j], p))
                           => (Puts(R[k]) <=> p \in D)
  BY DEF ViewLags
<1> HIDE DEF R
<1>2. ASSUME \A k \in DOMAIN R : ~Touches(R[k], p)
      PROVE  p \in K2 <=> p \in D
  <2>1. \A k \in 2 .. n : ~Touches(Q[k], p)
    <3> SUFFICES ASSUME NEW k \in 2 .. n PROVE ~Touches(Q[k], p)
      OBVIOUS
    <3>1. k - 1 \in DOMAIN R /\ R[k - 1] = Q[(k - 1) + 1] /\ (k - 1) + 1 = k
      BY <1>1
    <3> QED BY <1>2, <3>1
  <2>2. CASE p = Q[1].path
    BY <2>1, <2>2
  <2>3. CASE p # Q[1].path
    <3>1. \A k \in 1 .. n : ~Touches(Q[k], p)
      <4> SUFFICES ASSUME NEW k \in 1 .. n PROVE ~Touches(Q[k], p)
        OBVIOUS
      <4>1. k = 1 \/ k \in 2 .. n
        BY <1>1
      <4> QED BY <2>1, <2>3, <4>1 DEF Touches
    <3> QED BY <1>1, <2>3, <3>1 DEF ViewLags
  <2> QED BY <2>2, <2>3
<1>3. ASSUME NEW k \in DOMAIN R, Touches(R[k], p), \A j \in k + 1 .. Len(R) : ~Touches(R[j], p)
      PROVE  Puts(R[k]) <=> p \in D
  <2>1. k \in 1 .. n - 1 /\ k + 1 \in DOMAIN Q /\ R[k] = Q[k + 1]
    BY <1>1
  <2>2. \A j \in (k + 1) + 1 .. n : ~Touches(Q[j], p)
    <3> SUFFICES ASSUME NEW j \in (k + 1) + 1 .. n PROVE ~Touches(Q[j], p)
      OBVIOUS
    <3>1. j - 1 \in k + 1 .. Len(R) /\ R[j - 1] = Q[(j - 1) + 1] /\ (j - 1) + 1 = j
      BY <1>1, <2>1
    <3> QED BY <1>3, <3>1
  <2> QED BY <1>3, <2>1, <2>2 DEF ViewLags
<1> QED BY <1>2, <1>3

LEMMA EventDoneHalves ==
  ASSUME NEW Q \in Seq(NatEvents), Q # <<>>, Halves(Q)
  PROVE  Halves(Tail(Q))
<1> DEFINE R == Tail(Q)
           n == Len(Q)
<1>1. /\ n \in Nat /\ n >= 1 /\ DOMAIN Q = 1 .. n /\ DOMAIN R = 1 .. n - 1 /\ Len(R) = n - 1
      /\ (\A k \in 1 .. n - 1 : R[k] = Q[k + 1])
  BY EventDone
<1> SUFFICES ASSUME NEW k \in DOMAIN R
             PROVE  /\ Is(R[k], "renamed") => /\ k < Len(R) /\ Is(R[k + 1], "renamedTo")
                                              /\ R[k + 1].ino = R[k].ino
                    /\ Is(R[k], "renamedTo") /\ k > 1 => Is(R[k - 1], "renamed")
  BY DEF Halves
<1> HIDE DEF R
<1>2. k + 1 \in DOMAIN Q /\ R[k] = Q[k + 1] /\ (k + 1) - 1 = k
  BY <1>1
<1>3. ASSUME Is(R[k], "renamed")
      PROVE  k < Len(R) /\ Is(R[k + 1], "renamedTo") /\ R[k + 1].ino = R[k].ino
  <2>1. k + 1 < n /\ Is(Q[(k + 1) + 1], "renamedTo") /\ Q[(k + 1) + 1].ino = Q[k + 1].ino
    BY <1>1, <1>2, <1>3 DEF Halves
  <2>2. R[k + 1] = Q[(k + 1) + 1]
    BY <1>1, <2>1
  <2> QED BY <1>1, <1>2, <2>1, <2>2
<1>4. ASSUME Is(R[k], "renamedTo"), k > 1
      PROVE  Is(R[k - 1], "renamed")
  <2>1. Is(Q[(k + 1) - 1], "renamed")
    BY <1>1, <1>2, <1>4 DEF Halves
  <2>2. R[k - 1] = Q[(k - 1) + 1] /\ (k - 1) + 1 = k
    BY <1>1, <1>4
  <2> QED BY <1>2, <2>1, <2>2
<1> QED BY <1>3, <1>4

LEMMA EventDonePlaced ==
  ASSUME NEW Q \in Seq(NatEvents), Q # <<>>, NEW T, Placed(Q, T)
  PROVE  Placed(Tail(Q), T)
<1> DEFINE R == Tail(Q)
           n == Len(Q)
<1>1. /\ n \in Nat /\ n >= 1 /\ DOMAIN Q = 1 .. n /\ DOMAIN R = 1 .. n - 1 /\ Len(R) = n - 1
      /\ (\A k \in 1 .. n - 1 : R[k] = Q[k + 1])
  BY EventDone
<1> SUFFICES ASSUME NEW k \in DOMAIN R
             PROVE  \/ Takes(R[k])
                    \/ R[k].path \in DOMAIN T /\ T[R[k].path].ino = R[k].ino
                    \/ \E m \in k + 1 .. Len(R) : Takes(R[m]) /\ Alike(R[m], R[k])
  BY DEF Placed
<1> HIDE DEF R
<1>2. k + 1 \in DOMAIN Q /\ R[k] = Q[k + 1]
  BY <1>1
<1>3. CASE \E m \in (k + 1) + 1 .. n : Takes(Q[m]) /\ Alike(Q[m], Q[k + 1])
  <2>1. PICK m \in (k + 1) + 1 .. n : Takes(Q[m]) /\ Alike(Q[m], Q[k + 1])
    BY <1>3
  <2>2. m - 1 \in k + 1 .. Len(R) /\ R[m - 1] = Q[(m - 1) + 1] /\ (m - 1) + 1 = m
    BY <1>1, <2>1
  <2> QED BY <1>2, <2>1, <2>2
<1> QED BY <1>1, <1>2, <1>3 DEF Placed

LEMMA EventDoneContinued ==
  ASSUME NEW Q \in Seq(NatEvents), Q # <<>>, Continued(Q)
  PROVE  Continued(Tail(Q))
<1> DEFINE R == Tail(Q)
           n == Len(Q)
<1>1. /\ n \in Nat /\ n >= 1 /\ DOMAIN Q = 1 .. n /\ DOMAIN R = 1 .. n - 1 /\ Len(R) = n - 1
      /\ (\A k \in 1 .. n - 1 : R[k] = Q[k + 1])
  BY EventDone
<1> SUFFICES ASSUME NEW j \in DOMAIN R, NEW k \in DOMAIN R, j < k, R[j].ino = R[k].ino, ~Takes(R[j])
             PROVE  R[k].path = R[j].path
                    \/ \E m \in j + 1 .. k - 1 : Takes(R[m]) /\ Alike(R[m], R[j])
  BY DEF Continued
<1> HIDE DEF R
<1>2. j + 1 \in DOMAIN Q /\ R[j] = Q[j + 1] /\ k + 1 \in DOMAIN Q /\ R[k] = Q[k + 1] /\ j + 1 < k + 1
  BY <1>1
<1>3. CASE \E m \in (j + 1) + 1 .. (k + 1) - 1 : Takes(Q[m]) /\ Alike(Q[m], Q[j + 1])
  <2>1. PICK m \in (j + 1) + 1 .. (k + 1) - 1 : Takes(Q[m]) /\ Alike(Q[m], Q[j + 1])
    BY <1>3
  <2>2. m - 1 \in j + 1 .. k - 1 /\ R[m - 1] = Q[(m - 1) + 1] /\ (m - 1) + 1 = m
    BY <1>1, <2>1
  <2> QED BY <1>2, <2>1, <2>2
<1> QED BY <1>2, <1>3 DEF Continued

LEMMA FreedDone ==
  ASSUME NEW Q \in Seq(NatEvents), Q # <<>>, NEW V, NEW V2, NEW n \in 1 .. Len(Q), NEW i,
         Freed(Q, V, n + 1, i), V2 \subseteq V \cup {Q[1].ino}, Is(Q[1], "removed") => Q[1].ino \notin V2
  PROVE  Freed(Tail(Q), V2, n, i)
<1> DEFINE R == Tail(Q)
<1>1. /\ Len(Q) \in Nat /\ Len(Q) >= 1 /\ n \in Nat
      /\ (\A k \in 1 .. n - 1 : R[k] = Q[k + 1]) /\ (n + 1) - 1 = n
  BY EventDone
<1> HIDE DEF R
<1>2. CASE \E j \in 1 .. n - 1 : R[j].ino = i
  <2>1. PICK j0 \in 1 .. n - 1 : R[j0].ino = i
    BY <1>2
  <2>2. j0 + 1 \in 2 .. n /\ Q[j0 + 1].ino = i
    BY <1>1, <2>1
  <2>3. PICK j \in 1 .. n : Q[j].ino = i /\ Is(Q[j], "removed") /\ \A m \in j + 1 .. n : Q[m].ino # i
    BY <1>1, <2>2 DEF Freed
  <2>4. j # 1
    BY <1>1, <2>2, <2>3
  <2>5. j - 1 \in 1 .. n - 1 /\ R[j - 1] = Q[(j - 1) + 1] /\ (j - 1) + 1 = j
    BY <1>1, <2>3, <2>4
  <2>6. \A m \in (j - 1) + 1 .. n - 1 : R[m].ino # i
    <3> SUFFICES ASSUME NEW m \in (j - 1) + 1 .. n - 1 PROVE R[m].ino # i
      OBVIOUS
    <3>1. m + 1 \in j + 1 .. n /\ R[m] = Q[m + 1]
      BY <1>1, <2>3, <2>4
    <3> QED BY <2>3, <3>1
  <2> QED BY <1>2, <2>3, <2>5, <2>6 DEF Freed, R
<1>3. CASE \A j \in 1 .. n - 1 : R[j].ino # i
  <2>1. \A j \in 2 .. n : Q[j].ino # i
    <3> SUFFICES ASSUME NEW j \in 2 .. n PROVE Q[j].ino # i
      OBVIOUS
    <3>1. j - 1 \in 1 .. n - 1 /\ R[j - 1] = Q[(j - 1) + 1] /\ (j - 1) + 1 = j
      BY <1>1
    <3> QED BY <1>3, <3>1
  <2>2. i \notin V2
    <3>1. CASE Q[1].ino = i
      <4>1. 1 \in 1 .. n
        BY <1>1
      <4>2. PICK j \in 1 .. n : Q[j].ino = i /\ Is(Q[j], "removed")
        BY <1>1, <3>1, <4>1 DEF Freed
      <4>3. j = 1
        BY <1>1, <2>1, <4>2
      <4> QED BY <3>1, <4>2, <4>3
    <3>2. CASE Q[1].ino # i
      <4>1. \A j \in 1 .. n : Q[j].ino # i
        <5> SUFFICES ASSUME NEW j \in 1 .. n PROVE Q[j].ino # i
          OBVIOUS
        <5>1. j = 1 \/ j \in 2 .. n
          BY <1>1
        <5> QED BY <2>1, <3>2, <5>1
      <4>2. i \notin V
        BY <1>1, <4>1 DEF Freed
      <4> QED BY <3>2, <4>2
    <3> QED BY <3>1, <3>2
  <2> QED BY <1>3, <2>2 DEF Freed, R
<1> QED BY <1>2, <1>3

LEMMA EventDoneAnew ==
  ASSUME NEW Q \in Seq(NatEvents), Q # <<>>, NEW V, NEW V2, NEW U, CreatedAnew(Q, V, U),
         V2 \subseteq V \cup {Q[1].ino}, Is(Q[1], "removed") => Q[1].ino \notin V2
  PROVE  CreatedAnew(Tail(Q), V2, U)
<1> DEFINE R == Tail(Q)
           n == Len(Q)
<1>1. /\ n \in Nat /\ n >= 1 /\ DOMAIN Q = 1 .. n /\ DOMAIN R = 1 .. n - 1 /\ Len(R) = n - 1
      /\ (\A k \in 1 .. n - 1 : R[k] = Q[k + 1])
  BY EventDone
<1>2. \A k \in 1 .. n : \A i : Freed(Q, V, k + 1, i) => Freed(R, V2, k, i)
  BY FreedDone
<1> HIDE DEF R
<1>3. ASSUME NEW k \in DOMAIN R, Is(R[k], "created") PROVE Freed(R, V2, k, R[k].ino)
  <2>1. k \in 1 .. n /\ k + 1 \in DOMAIN Q /\ R[k] = Q[k + 1]
    BY <1>1
  <2>2. Freed(Q, V, k + 1, Q[k + 1].ino)
    BY <1>3, <2>1 DEF CreatedAnew
  <2> QED BY <1>2, <2>1, <2>2
<1>4. ASSUME NEW i \in Inodes \ U PROVE Freed(R, V2, Len(R) + 1, i)
  <2>1. Freed(Q, V, n + 1, i)
    BY DEF CreatedAnew
  <2>2. n \in 1 .. n /\ Len(R) + 1 = n
    BY <1>1
  <2> QED BY <1>2, <2>1, <2>2
<1> QED BY <1>3, <1>4 DEF CreatedAnew, R

-----------------------------------------------------------------------------
(* The native events of a change.                                               *)

InosKnown == \A p \in DOMAIN tree : tree[p].ino \in Inodes \cup {"top"}

LEMMA NoMore ==
  ASSUME NEW s \in Seq(NatEvents)
  PROVE  s \o <<>> = s /\ <<>> \o s = s
BY ConcatEmptySeq

LEMMA EvTyped ==
  ASSUME NEW p \in Paths, NEW i \in Inodes \cup {"top"}, NEW f \in NatFlags
  PROVE  /\ Ev(p, i, f) \in NatEvents /\ Ev(p, i, f).path = p /\ Ev(p, i, f).ino = i
         /\ Ev(p, i, f).flags = {f}
         /\ \A g : Is(Ev(p, i, f), g) <=> g = f
BY DEF Ev, NatEvents, Is

LEMMA NoneYet == <<>> \in Seq(NatEvents)
OBVIOUS

LEMMA OneEvent ==
  ASSUME NEW a \in NatEvents
  PROVE  <<a>> \in Seq(NatEvents)
OBVIOUS

LEMMA TwoEvents ==
  ASSUME NEW a \in NatEvents, NEW b \in NatEvents
  PROVE  <<a, b>> \in Seq(NatEvents)
OBVIOUS

LEMMA ThreeEvents ==
  ASSUME NEW a \in NatEvents, NEW b \in NatEvents, NEW c \in NatEvents
  PROVE  <<a>> \o <<b, c>> = <<a, b, c>>
<1> DEFINE s == <<a>> \o <<b, c>>
           t == <<a, b, c>>
<1>1. <<a>> \in Seq(NatEvents) /\ <<b, c>> \in Seq(NatEvents) /\ t \in Seq(NatEvents)
  OBVIOUS
<1>2. Len(<<a>>) = 1 /\ Len(<<b, c>>) = 2 /\ Len(t) = 3 /\ <<a>>[1] = a /\ <<b, c>>[1] = b
      /\ <<b, c>>[2] = c /\ t[1] = a /\ t[2] = b /\ t[3] = c
  OBVIOUS
<1>3. s \in Seq(NatEvents) /\ Len(s) = 3 /\ s[1] = a /\ s[2] = b /\ s[3] = c
  BY <1>1, <1>2, ConcatProperties
<1> HIDE DEF s, t
<1>4. \A i \in 1 .. Len(s) : s[i] = t[i]
  BY <1>2, <1>3
<1>5. s = t
  BY <1>1, <1>2, <1>3, <1>4, SeqEqual
<1> QED BY <1>5 DEF s, t

LEMMA PlaceIs ==
  ASSUME NEW x, OneOne(x), NEW p \in DOMAIN x
  PROVE  PlaceOf(x, x[p].ino) = p
BY DEF PlaceOf, OneOne

LEMMA OneIs ==
  ASSUME NEW i
  PROVE  One({i}) = i
BY DEF One

\* what is unchanged has no event
LEMMA StaysPut ==
  ASSUME NEW t, NEW u, OneOne(t), OneOne(u), NEW p \in DOMAIN t, p \in DOMAIN u, u[p] = t[p]
  PROVE  t[p].ino \notin Shifted(t, u) /\ t[p].ino \notin Touched(t, u)
<1>1. PlaceOf(t, t[p].ino) = p /\ PlaceOf(u, t[p].ino) = p
  BY PlaceIs
<1> QED BY <1>1 DEF Shifted, Touched

LEMMA TreeOneOne ==
  ASSUME TreeSound
  PROVE  OneOne(tree)
BY DEF TreeSound, OneOne

LEMMA CreateEvents ==
  ASSUME TreeSound, InosKnown, NEW p \in Paths, Create(p)
  PROVE  \E i \in Inodes \ Used :
           /\ p # Top /\ p \notin DOMAIN tree /\ DOMAIN tree' = DOMAIN tree \cup {p}
           /\ tree'[p].ino = i /\ \A q \in DOMAIN tree : tree'[q] = tree[q]
           /\ ChangeEvents(tree, tree') = <<Ev(p, i, "created")>>
<1>1. PICK i \in Inodes \ Used : tree' = Set(tree, p, [ino |-> i, mtime |-> edits])
  BY DEF Create, Edited
<1>2. p # Top /\ p \notin DOMAIN tree
  BY DEF Create, Exists
<1>3. DOMAIN tree' = DOMAIN tree \cup {p} /\ tree'[p].ino = i /\ \A q \in DOMAIN tree : tree'[q] = tree[q]
  BY <1>1, <1>2 DEF Set
<1>4. OneOne(tree) /\ OneOne(tree')
  <2>1. TreeSound'
    BY CreateSound
  <2>2. OneOne(tree')
    BY <2>1 DEF TreeSound, OneOne
  <2> QED BY <2>2, TreeOneOne
<1>5. InosOf(tree) \ InosOf(tree') = {} /\ InosOf(tree') \ InosOf(tree) = {i}
  BY <1>3 DEF InosOf, Used
<1>6. Shifted(tree, tree') = {} /\ Touched(tree, tree') = {}
  <2>1. ASSUME NEW j \in InosOf(tree) PROVE j \notin Shifted(tree, tree') /\ j \notin Touched(tree, tree')
    <3>1. PICK q \in DOMAIN tree : j = tree[q].ino
      BY DEF InosOf
    <3> QED BY <1>3, <1>4, <3>1, StaysPut
  <2> QED BY <2>1 DEF Shifted, Touched
<1>7. PlaceOf(tree', i) = p
  BY <1>3, <1>4, PlaceIs
<1> DEFINE a == Ev(p, i, "created")
<1>8. <<a>> \in Seq(NatEvents)
  <2>1. a \in NatEvents
    BY EvTyped DEF NatFlags
  <2> HIDE DEF a
  <2> QED BY <2>1
<1>9. ChangeEvents(tree, tree') = <<>> \o <<>> \o <<a>> \o <<>>
  BY <1>5, <1>6, <1>7, ChangeParts, OneIs
<1> HIDE DEF a
<1>10. ChangeEvents(tree, tree') = <<a>>
  BY <1>8, <1>9, NoMore, NoneYet
<1> QED BY <1>2, <1>3, <1>10 DEF a

LEMMA ModifyEvents ==
  ASSUME TreeSound, InosKnown, NEW p \in Paths, Modify(p)
  PROVE  /\ p \in Files /\ p \in DOMAIN tree /\ DOMAIN tree' = DOMAIN tree
         /\ \A q \in DOMAIN tree : tree'[q].ino = tree[q].ino
         /\ ChangeEvents(tree, tree') \in {<<>>, <<Ev(p, tree[p].ino, "modified")>>}
<1>1. tree' = [tree EXCEPT ![p].mtime = edits + 1] /\ p \in Files /\ p \in DOMAIN tree
  BY DEF Modify, Edited, Exists
<1>2. DOMAIN tree' = DOMAIN tree /\ (\A q \in DOMAIN tree : tree'[q].ino = tree[q].ino)
      /\ \A q \in DOMAIN tree \ {p} : tree'[q] = tree[q]
  BY <1>1
<1>3. OneOne(tree) /\ OneOne(tree')
  BY <1>2, TreeOneOne DEF OneOne
<1>4. InosOf(tree) \ InosOf(tree') = {} /\ InosOf(tree') \ InosOf(tree) = {}
  BY <1>2 DEF InosOf
<1> DEFINE i == tree[p].ino
<1>5. PlaceOf(tree, i) = p /\ PlaceOf(tree', i) = p
  BY <1>1, <1>2, <1>3, PlaceIs
<1>6. Shifted(tree, tree') = {} /\ Touched(tree, tree') \subseteq {i}
  <2>1. ASSUME NEW j \in InosOf(tree), j # i
        PROVE  j \notin Shifted(tree, tree') /\ j \notin Touched(tree, tree')
    <3>1. PICK q \in DOMAIN tree : j = tree[q].ino
      BY DEF InosOf
    <3> QED BY <1>2, <1>3, <2>1, <3>1, StaysPut
  <2>2. i \notin Shifted(tree, tree')
    BY <1>5 DEF Shifted
  <2> QED BY <2>1, <2>2 DEF Shifted, Touched
<1> DEFINE a == Ev(p, i, "modified")
<1>7. <<a>> \in Seq(NatEvents)
  <2>1. a \in NatEvents
    BY <1>1, EvTyped DEF NatFlags, InosKnown
  <2> HIDE DEF a
  <2> QED BY <2>1
<1>8. ChangeEvents(tree, tree') \in {<<>> \o <<>> \o <<>> \o <<>>, <<>> \o <<>> \o <<>> \o <<a>>}
  <2>1. CASE Touched(tree, tree') = {}
    BY <1>4, <1>6, <2>1, ChangeParts
  <2>2. CASE Touched(tree, tree') = {i}
    BY <1>4, <1>5, <1>6, <2>2, ChangeParts, OneIs
  <2> QED BY <1>6, <2>1, <2>2
<1> HIDE DEF a
<1>9. ChangeEvents(tree, tree') \in {<<>>, <<a>>}
  BY <1>7, <1>8, NoMore, NoneYet
<1> QED BY <1>1, <1>2, <1>9 DEF a

LEMMA DeleteEvents ==
  ASSUME TreeSound, InosKnown, NEW p \in Paths, Delete(p)
  PROVE  /\ p \in DOMAIN tree /\ DOMAIN tree' = DOMAIN tree \ {p}
         /\ \A q \in DOMAIN tree' : tree'[q] = tree[q]
         /\ ChangeEvents(tree, tree') = <<Ev(p, tree[p].ino, "removed")>>
<1>1. tree' = Drop(tree, {p}) /\ p \in DOMAIN tree
  BY DEF Delete, Edited, Exists
<1>2. DOMAIN tree' = DOMAIN tree \ {p} /\ \A q \in DOMAIN tree' : tree'[q] = tree[q]
  BY <1>1 DEF Drop
<1>3. OneOne(tree) /\ OneOne(tree')
  BY <1>2, TreeOneOne DEF OneOne
<1> DEFINE i == tree[p].ino
<1>4. InosOf(tree) \ InosOf(tree') = {i} /\ InosOf(tree') \ InosOf(tree) = {}
  <2>1. ASSUME NEW r \in DOMAIN tree, r # p PROVE tree[r].ino \in InosOf(tree')
    <3>1. r \in DOMAIN tree' /\ tree'[r] = tree[r]
      BY <1>2, <2>1
    <3> QED BY <3>1 DEF InosOf
  <2>2. ASSUME NEW r \in DOMAIN tree' PROVE tree'[r].ino # i
    BY <1>1, <1>2, <1>3, <2>2 DEF OneOne
  <2>3. i \in InosOf(tree) /\ i \notin InosOf(tree')
    BY <1>1, <2>2 DEF InosOf
  <2>4. InosOf(tree') \subseteq InosOf(tree)
    BY <1>2 DEF InosOf
  <2>5. InosOf(tree) \ InosOf(tree') \subseteq {i}
    BY <2>1 DEF InosOf
  <2> QED BY <2>3, <2>4, <2>5
<1>5. PlaceOf(tree, i) = p
  BY <1>1, <1>3, PlaceIs
<1>6. Shifted(tree, tree') = {} /\ Touched(tree, tree') = {}
  <2>1. ASSUME NEW j \in InosOf(tree')
        PROVE  j \notin Shifted(tree, tree') /\ j \notin Touched(tree, tree')
    <3>1. PICK q \in DOMAIN tree' : j = tree'[q].ino
      BY DEF InosOf
    <3> QED BY <1>2, <1>3, <3>1, StaysPut
  <2> QED BY <2>1 DEF Shifted, Touched
<1> DEFINE a == Ev(p, i, "removed")
<1>7. <<a>> \in Seq(NatEvents)
  <2>1. a \in NatEvents
    BY <1>1, EvTyped DEF NatFlags, InosKnown
  <2> HIDE DEF a
  <2> QED BY <2>1
<1>8. ChangeEvents(tree, tree') = <<a>> \o <<>> \o <<>> \o <<>>
  BY <1>4, <1>5, <1>6, ChangeParts, OneIs
<1> HIDE DEF a
<1>9. ChangeEvents(tree, tree') = <<a>>
  BY <1>7, <1>8, NoMore, NoneYet
<1> QED BY <1>1, <1>2, <1>9 DEF a

LEMMA MoveEvents ==
  ASSUME TreeSound, InosKnown, NEW p, NEW q, Move(p, q)
  PROVE  /\ p \in Files /\ q \in Files /\ p # q /\ p \in DOMAIN tree
         /\ DOMAIN tree' = (DOMAIN tree \ {p}) \cup {q} /\ tree'[q].ino = tree[p].ino
         /\ \A r \in DOMAIN tree \ {p, q} : tree'[r] = tree[r]
         /\ LET m == MoveOf(p, q, tree[p].ino)
            IN  ChangeEvents(tree, tree') =
                  IF q \in DOMAIN tree THEN <<Ev(q, tree[q].ino, "removed")>> \o m ELSE m
<1>1. /\ p \in Files /\ q \in Files /\ p # q /\ p \in DOMAIN tree /\ DirOf(q) \in DOMAIN tree
      /\ tree' = Set(Drop(tree, {p}), q, tree[p])
  BY DEF Move, Edited, Exists
<1>2. p # Top /\ q # Top /\ p \in Paths /\ q \in Paths
  BY <1>1, Kinds DEF Paths
<1>3. /\ DOMAIN tree' = (DOMAIN tree \ {p}) \cup {q} /\ tree'[q] = tree[p]
      /\ \A r \in DOMAIN tree \ {p, q} : tree'[r] = tree[r]
  BY <1>1 DEF Set, Drop
<1>4. OneOne(tree) /\ OneOne(tree')
  BY <1>1, <1>3, TreeOneOne DEF OneOne
<1> DEFINE i == tree[p].ino
           gone == InosOf(tree) \ InosOf(tree')
           m == MoveOf(p, q, i)
<1>5. InosOf(tree') \ InosOf(tree) = {}
  BY <1>1, <1>3 DEF InosOf
<1>6. gone = IF q \in DOMAIN tree THEN {tree[q].ino} ELSE {}
  <2>1. ASSUME NEW r \in DOMAIN tree, r # q PROVE tree[r].ino \in InosOf(tree')
    <3>1. CASE r = p
      BY <1>3, <3>1 DEF InosOf
    <3>2. CASE r # p
      <4>1. r \in DOMAIN tree' /\ tree'[r] = tree[r]
        BY <1>3, <2>1, <3>2
      <4> QED BY <4>1 DEF InosOf
    <3> QED BY <3>1, <3>2
  <2>2. ASSUME q \in DOMAIN tree, NEW r \in DOMAIN tree' PROVE tree'[r].ino # tree[q].ino
    BY <1>1, <1>3, <1>4, <2>2 DEF OneOne
  <2>3. q \in DOMAIN tree => tree[q].ino \in InosOf(tree) \ InosOf(tree')
    BY <2>2 DEF InosOf
  <2>4. gone \subseteq IF q \in DOMAIN tree THEN {tree[q].ino} ELSE {}
    BY <2>1 DEF InosOf
  <2> QED BY <2>3, <2>4
<1>7. PlaceOf(tree, i) = p /\ PlaceOf(tree', i) = q
  BY <1>1, <1>3, <1>4, PlaceIs
<1>8. i \in InosOf(tree) \cap InosOf(tree')
  BY <1>1, <1>3 DEF InosOf
<1>9. ~Along(tree, tree', i)
  <2>1. DirOf(p) \in DOMAIN tree /\ DirOf(q) \in DOMAIN tree
    BY <1>1, <1>2 DEF TreeSound
  <2>2. DirOf(q) \notin {p, q}
    BY <1>1, <1>2, Parents, Kinds
  <2>3. tree'[DirOf(q)] = tree[DirOf(q)]
    BY <1>3, <2>1, <2>2
  <2>4. tree'[DirOf(q)].ino = tree[DirOf(p)].ino => DirOf(q) = DirOf(p)
    BY <1>4, <2>1, <2>3 DEF OneOne
  <2> QED BY <1>7, <2>4 DEF Along
<1>10. Shifted(tree, tree') = {i} /\ Touched(tree, tree') = {}
  <2>1. ASSUME NEW j \in InosOf(tree) \cap InosOf(tree'), j # i
        PROVE  j \notin Shifted(tree, tree') /\ j \notin Touched(tree, tree')
    <3>1. PICK r \in DOMAIN tree' : j = tree'[r].ino
      BY DEF InosOf
    <3>2. r # q
      BY <1>3, <2>1, <3>1
    <3>3. r \in DOMAIN tree /\ tree'[r] = tree[r]
      BY <1>3, <3>2
    <3> QED BY <1>4, <3>1, <3>3, StaysPut
  <2>2. i \in Shifted(tree, tree') /\ i \notin Touched(tree, tree')
    BY <1>1, <1>3, <1>7, <1>8, <1>9 DEF Shifted, Touched
  <2> QED BY <2>1, <2>2 DEF Shifted, Touched
<1>11. m \in Seq(NatEvents)
  <2>1. i \in Inodes \cup {"top"}
    BY <1>1 DEF InosKnown
  <2> HIDE DEF i
  <2>2. /\ Ev(p, i, "removed") \in NatEvents /\ Ev(q, i, "created") \in NatEvents
        /\ Ev(p, i, "renamed") \in NatEvents /\ Ev(q, i, "renamedTo") \in NatEvents
    BY <1>2, <2>1, EvTyped DEF NatFlags
  <2>3. /\ <<Ev(p, i, "removed"), Ev(q, i, "created")>> \in Seq(NatEvents)
        /\ <<Ev(p, i, "renamed"), Ev(q, i, "renamedTo")>> \in Seq(NatEvents)
    BY <2>2, TwoEvents
  <2> QED BY <2>3 DEF MoveOf
<1>12. CASE q \in DOMAIN tree
  <2> DEFINE j == tree[q].ino
             a == Ev(q, j, "removed")
  <2>1. <<a>> \in Seq(NatEvents)
    <3>1. a \in NatEvents
      BY <1>2, <1>12, EvTyped DEF NatFlags, InosKnown
    <3> QED BY <3>1, OneEvent
  <2>2. gone = {j} /\ PlaceOf(tree, j) = q
    BY <1>4, <1>6, <1>12, PlaceIs
  <2>3. ChangeEvents(tree, tree') = <<a>> \o m \o <<>> \o <<>>
    BY <1>5, <1>7, <1>10, <2>2, ChangeParts, OneIs
  <2>4. <<a>> \o m \in Seq(NatEvents)
    BY <1>11, <2>1, ConcatProperties
  <2>5. ChangeEvents(tree, tree') = <<a>> \o m
    <3> HIDE DEF a, m
    <3> QED BY <2>3, <2>4, NoMore
  <2> QED BY <1>1, <1>3, <1>12, <2>5
<1>13. CASE q \notin DOMAIN tree
  <2>1. gone = {}
    BY <1>6, <1>13
  <2>2. ChangeEvents(tree, tree') = <<>> \o m \o <<>> \o <<>>
    BY <1>5, <1>7, <1>10, <2>1, ChangeParts, OneIs
  <2>3. ChangeEvents(tree, tree') = m
    <3> HIDE DEF m
    <3> QED BY <1>11, <2>2, NoMore
  <2> QED BY <1>1, <1>3, <1>13, <2>3
<1> QED BY <1>12, <1>13

\* what is below a renamed directory has no event: a handler walks it
LEMMA MoveDirShape ==
  ASSUME TreeSound, NEW p, NEW q, MoveDir(p, q)
  PROVE  \E d, e \in DirNames :
           /\ d # e /\ p = <<e>> /\ q = <<d>> /\ p \in DOMAIN tree /\ q \notin DOMAIN tree
           /\ Top \in DOMAIN tree' /\ Top \in DOMAIN tree /\ tree'[Top] = tree[Top]
           /\ \A x : /\ <<x>> \in DOMAIN tree' <=> x # e /\ (x = d \/ <<x>> \in DOMAIN tree)
                     /\ <<x>> \in DOMAIN tree' =>
                          tree'[<<x>>] = tree[<<IF x = d THEN e ELSE x>>]
           /\ \A x, y : /\ <<x, y>> \in DOMAIN tree' <=>
                             x # e /\ <<IF x = d THEN e ELSE x, y>> \in DOMAIN tree
                        /\ <<x, y>> \in DOMAIN tree' =>
                             tree'[<<x, y>>] = tree[<<IF x = d THEN e ELSE x, y>>]
<1>1. p \in Subs /\ q \in Subs /\ p \in DOMAIN tree /\ q \notin DOMAIN tree
  BY DEF MoveDir, Exists
<1>2. PICK d \in DirNames : q = <<d>>
  BY <1>1 DEF Subs
<1>3. PICK e \in DirNames : p = <<e>>
  BY <1>1 DEF Subs
<1>4. e # d /\ q[1] = d /\ p[1] = e
  BY <1>1, <1>2, <1>3
<1> DEFINE from(r) == IF Len(r) > 0 /\ r[1] = q[1] THEN p \o Tail(r) ELSE r
           there == {r \in Paths : from(r) \in DOMAIN tree /\ ~(Len(r) > 0 /\ r[1] = p[1])}
           name(x) == IF x = d THEN e ELSE x
<1>5. tree' = [r \in there |-> tree[from(r)]]
  BY DEF MoveDir, Edited
<1>6. from(<<>>) = <<>> /\ ~(Len(<<>>) > 0)
  OBVIOUS
<1>7. ASSUME NEW x PROVE from(<<x>>) = <<name(x)>> /\ Len(<<x>>) > 0 /\ <<x>>[1] = x
  <2>1. Len(<<x>>) > 0 /\ <<x>>[1] = x /\ Tail(<<x>>) = <<>>
    OBVIOUS
  <2>2. p \o <<>> = <<e>>
    BY <1>3
  <2>3. CASE x = d
    <3>1. from(<<x>>) = p \o Tail(<<x>>)
      BY <1>4, <2>1, <2>3
    <3> QED BY <2>1, <2>2, <2>3, <3>1
  <2>4. CASE x # d
    BY <1>4, <2>1, <2>4
  <2> QED BY <2>3, <2>4
<1>8. ASSUME NEW x, NEW y PROVE from(<<x, y>>) = <<name(x), y>> /\ Len(<<x, y>>) > 0 /\ <<x, y>>[1] = x
  <2>1. Len(<<x, y>>) > 0 /\ <<x, y>>[1] = x /\ Tail(<<x, y>>) = <<y>>
    OBVIOUS
  <2>2. p \o <<y>> = <<e, y>>
    BY <1>3, Concat1
  <2>3. CASE x = d
    <3>1. from(<<x, y>>) = p \o Tail(<<x, y>>)
      BY <1>4, <2>1, <2>3
    <3> QED BY <2>1, <2>2, <2>3, <3>1
  <2>4. CASE x # d
    BY <1>4, <2>1, <2>4
  <2> QED BY <2>3, <2>4
<1>9. \A r : r \in there <=> r \in Paths /\ from(r) \in DOMAIN tree /\ ~(Len(r) > 0 /\ r[1] = e)
  BY <1>4
<1>10. DOMAIN tree \subseteq Paths
  BY DEF TreeSound
<1>11. Top \in DOMAIN tree
  <2>1. p # Top /\ DirOf(p) = Top
    BY <1>3, ShortPath DEF Top
  <2> QED BY <1>1, <2>1 DEF TreeSound
<1> HIDE DEF from, there
<1>12. DOMAIN tree' = there /\ \A r \in there : tree'[r] = tree[from(r)]
  BY <1>5
<1>13. Top \in there /\ tree'[Top] = tree[Top]
  BY <1>6, <1>9, <1>10, <1>11, <1>12 DEF Top
<1>14. ASSUME NEW x
       PROVE  /\ <<x>> \in DOMAIN tree' <=> x # e /\ (x = d \/ <<x>> \in DOMAIN tree)
              /\ <<x>> \in DOMAIN tree' => tree'[<<x>>] = tree[<<name(x)>>]
  <2>1. x = d => <<x>> \in Paths
    BY <1>1, <1>2 DEF Paths
  <2> QED BY <1>1, <1>3, <1>7, <1>9, <1>10, <1>12, <2>1
<1>15. ASSUME NEW x, NEW y
       PROVE  /\ <<x, y>> \in DOMAIN tree' <=> x # e /\ <<name(x), y>> \in DOMAIN tree
              /\ <<x, y>> \in DOMAIN tree' => tree'[<<x, y>>] = tree[<<name(x), y>>]
  <2>1. ASSUME x = d, <<e, y>> \in DOMAIN tree PROVE <<x, y>> \in Paths
    <3>1. <<e, y>> \in Paths /\ <<e, y>> # <<>> /\ \A z : <<e, y>> # <<z>>
      BY <1>10, <2>1
    <3>2. PICK d1 \in DirNames, n \in DeepNames : <<e, y>> = <<d1, n>>
      BY <3>1, PathShapes
    <3>3. y \in DeepNames
      BY <3>2
    <3> QED BY <2>1, <3>3 DEF Paths, Files, Deep
  <2>2. x # d /\ <<name(x), y>> \in DOMAIN tree => <<x, y>> \in Paths
    BY <1>10
  <2> HIDE DEF name
  <2>3. <<x, y>> \in there <=> <<x, y>> \in Paths /\ <<name(x), y>> \in DOMAIN tree /\ x # e
    <3> DEFINE r == <<x, y>>
    <3>1. from(r) = <<name(x), y>> /\ Len(r) > 0 /\ r[1] = x
      BY <1>8
    <3> HIDE DEF r
    <3>2. r \in there <=> r \in Paths /\ <<name(x), y>> \in DOMAIN tree /\ x # e
      BY <1>9, <3>1
    <3> QED BY <3>2 DEF r
  <2>4. <<name(x), y>> \in DOMAIN tree => <<x, y>> \in Paths
    BY <2>1, <2>2 DEF name
  <2> QED BY <1>8, <1>12, <2>3, <2>4
<1> HIDE DEF name
<1> QED BY <1>1, <1>2, <1>3, <1>4, <1>11, <1>12, <1>13, <1>14, <1>15 DEF name

LEMMA MoveDirEvents ==
  ASSUME TreeSound, InosKnown, NEW p, NEW q, MoveDir(p, q)
  PROVE  /\ p \in Subs /\ q \in Subs /\ p \in DOMAIN tree /\ Used' = Used
         /\ ChangeEvents(tree, tree') =
              <<Ev(p, tree[p].ino, "renamed"), Ev(q, tree[p].ino, "renamedTo")>>
         /\ LET kids == Children(q) \cap DOMAIN tree'
            IN  DOMAIN tree' = (((DOMAIN tree \ {p}) \cup {q}) \ {p \o <<Last(k)>> : k \in kids}) \cup kids
<1>1. PICK d \in DirNames, e \in DirNames :
           /\ d # e /\ p = <<e>> /\ q = <<d>> /\ p \in DOMAIN tree /\ q \notin DOMAIN tree
           /\ Top \in DOMAIN tree' /\ Top \in DOMAIN tree /\ tree'[Top] = tree[Top]
           /\ \A x : /\ <<x>> \in DOMAIN tree' <=> x # e /\ (x = d \/ <<x>> \in DOMAIN tree)
                     /\ <<x>> \in DOMAIN tree' =>
                          tree'[<<x>>] = tree[<<IF x = d THEN e ELSE x>>]
           /\ \A x, y : /\ <<x, y>> \in DOMAIN tree' <=>
                             x # e /\ <<IF x = d THEN e ELSE x, y>> \in DOMAIN tree
                        /\ <<x, y>> \in DOMAIN tree' =>
                             tree'[<<x, y>>] = tree[<<IF x = d THEN e ELSE x, y>>]
  BY MoveDirShape
<1>2. p \in Subs /\ q \in Subs
  BY DEF MoveDir
<1>3. TreeSound' /\ TreeSound
  BY MoveDirSound
<1>4. OneOne(tree) /\ OneOne(tree')
  BY <1>3 DEF TreeSound, OneOne
<1>5. /\ \A r \in DOMAIN tree : r = Top \/ (\E x : r = <<x>>) \/ (\E x, y : r = <<x, y>>)
      /\ \A r \in DOMAIN tree' : r = Top \/ (\E x : r = <<x>>) \/ (\E x, y : r = <<x, y>>)
  <2>1. \A r \in Paths : r = Top \/ (\E x : r = <<x>>) \/ (\E x, y : r = <<x, y>>)
    BY PathShapes DEF Top
  <2> QED BY <1>3, <2>1 DEF TreeSound
<1>6. \A x, y : <<x, y>> \in DOMAIN tree => <<x>> \in DOMAIN tree
  <2> SUFFICES ASSUME NEW x, NEW y, <<x, y>> \in DOMAIN tree PROVE <<x>> \in DOMAIN tree
    OBVIOUS
  <2>1. <<x, y>> # Top
    BY DEF Top
  <2> QED BY <2>1, LongPath DEF TreeSound
<1>7. \A y : <<d, y>> \notin DOMAIN tree
  BY <1>1, <1>6
<1> DEFINE i == tree[p].ino
\* every place of the old tree and the one it has now
<1>8. ASSUME NEW r \in DOMAIN tree
      PROVE  \/ r \in DOMAIN tree' /\ tree'[r] = tree[r] /\ r # p
             \/ r = p /\ q \in DOMAIN tree' /\ tree'[q] = tree[p]
             \/ \E y : r = <<e, y>> /\ <<d, y>> \in DOMAIN tree' /\ tree'[<<d, y>>] = tree[r]
  <2>1. CASE r = Top
    <3>1. Top # p
      BY <1>1 DEF Top
    <3> QED BY <1>1, <2>1, <3>1
  <2>2. ASSUME NEW x, r = <<x>>
        PROVE  \/ r = p /\ q \in DOMAIN tree' /\ tree'[q] = tree[p]
               \/ r \in DOMAIN tree' /\ tree'[r] = tree[r] /\ r # p
    <3>1. CASE x = e
      <4>1. r = p
        BY <1>1, <2>2, <3>1
      <4> QED BY <1>1, <4>1
    <3>2. CASE x # e
      <4>1. x # d /\ <<x>> # <<e>>
        BY <1>1, <2>2, <3>2
      <4> QED BY <1>1, <2>2, <3>2, <4>1
    <3> QED BY <3>1, <3>2
  <2>3. ASSUME NEW x, NEW y, r = <<x, y>>
        PROVE  \/ r \in DOMAIN tree' /\ tree'[r] = tree[r] /\ r # p
               \/ r = <<e, y>> /\ <<d, y>> \in DOMAIN tree' /\ tree'[<<d, y>>] = tree[r]
    <3>1. CASE x = e
      BY <1>1, <2>3, <3>1
    <3>2. CASE x # e
      <4>1. x # d /\ <<x, y>> # <<e>>
        BY <1>7, <2>3
      <4> QED BY <1>1, <2>3, <3>2, <4>1
    <3> QED BY <3>1, <3>2
  <2>4. r = Top \/ (\E x : r = <<x>>) \/ (\E x, y : r = <<x, y>>)
    BY <1>5
  <2>5. ASSUME NEW x, NEW y, r = <<x, y>>
        PROVE  \/ r \in DOMAIN tree' /\ tree'[r] = tree[r] /\ r # p
               \/ \E z : r = <<e, z>> /\ <<d, z>> \in DOMAIN tree' /\ tree'[<<d, z>>] = tree[r]
    BY Zenon, <2>3, <2>5
  <2> QED BY Zenon, <2>1, <2>2, <2>4, <2>5
<1>9. ASSUME NEW r \in DOMAIN tree'
      PROVE  \E s \in DOMAIN tree : tree'[r] = tree[s]
  <2> DEFINE name(x) == IF x = d THEN e ELSE x
  <2>1. ASSUME NEW x, r = <<x>> PROVE \E s \in DOMAIN tree : tree'[r] = tree[s]
    <3>1. <<name(x)>> \in DOMAIN tree
      BY <1>1, <2>1
    <3> QED BY <1>1, <2>1, <3>1
  <2>2. ASSUME NEW x, NEW y, r = <<x, y>> PROVE \E s \in DOMAIN tree : tree'[r] = tree[s]
    <3>1. <<name(x), y>> \in DOMAIN tree /\ tree'[r] = tree[<<name(x), y>>]
      BY <1>1, <2>2
    <3> QED BY <3>1
  <2> QED BY <1>1, <1>5, <2>1, <2>2
<1>10. InosOf(tree) = InosOf(tree')
  <2>1. InosOf(tree') \subseteq InosOf(tree)
    BY <1>9 DEF InosOf
  <2>2. ASSUME NEW r \in DOMAIN tree PROVE tree[r].ino \in InosOf(tree')
    <3>1. PICK s \in DOMAIN tree' : tree'[s] = tree[r]
      BY <1>8
    <3> QED BY <3>1 DEF InosOf
  <2> QED BY <2>1, <2>2 DEF InosOf
<1>11. Used' = Used
  BY <1>10 DEF Used, InosOf
<1>12. Touched(tree, tree') = {}
  <2> SUFFICES ASSUME NEW j \in InosOf(tree) PROVE j \notin Touched(tree, tree')
    BY DEF Touched
  <2>1. PICK r \in DOMAIN tree : j = tree[r].ino
    BY DEF InosOf
  <2>2. PICK s \in DOMAIN tree' : tree'[s] = tree[r]
    BY <1>8
  <2>3. PlaceOf(tree, j) = r /\ PlaceOf(tree', j) = s
    BY <1>4, <2>1, <2>2, PlaceIs
  <2> QED BY <2>2, <2>3 DEF Touched
<1>13. q \in DOMAIN tree' /\ tree'[q] = tree[p]
  BY <1>1
<1>14. Shifted(tree, tree') = {i}
  <2>1. PlaceOf(tree, i) = p /\ PlaceOf(tree', i) = q
    BY <1>1, <1>4, <1>13, PlaceIs
  <2>2. i \in Shifted(tree, tree')
    <3>1. DirOf(p) = Top /\ DirOf(q) = Top /\ p # q
      BY <1>1, ShortPath
    <3>2. i \in InosOf(tree) \cap InosOf(tree')
      BY <1>1, <1>10 DEF InosOf
    <3> QED BY <2>1, <3>1, <3>2 DEF Shifted, Along
  <2>3. ASSUME NEW j \in InosOf(tree), j # i PROVE j \notin Shifted(tree, tree')
    <3>1. PICK r \in DOMAIN tree : j = tree[r].ino
      BY DEF InosOf
    <3>2. CASE r \in DOMAIN tree' /\ tree'[r] = tree[r]
      BY <1>4, <3>1, <3>2, StaysPut
    <3>3. ASSUME NEW y, r = <<e, y>>, <<d, y>> \in DOMAIN tree', tree'[<<d, y>>] = tree[r]
          PROVE  j \notin Shifted(tree, tree')
      <4>1. PlaceOf(tree, j) = r /\ PlaceOf(tree', j) = <<d, y>>
        BY <1>4, <3>1, <3>3, PlaceIs
      <4>2. DirOf(r) = p /\ DirOf(<<d, y>>) = q
        BY <1>1, <3>3, LongPath
      <4>3. p # q
        BY <1>1
      <4>4. Along(tree, tree', j)
        BY <1>13, <4>1, <4>2, <4>3 DEF Along
      <4> QED BY <4>4 DEF Shifted
    <3> QED BY <1>8, <2>3, <3>1, <3>2, <3>3
  <2> QED BY <2>2, <2>3 DEF Shifted
<1>15. ChangeEvents(tree, tree') = <<Ev(p, i, "renamed"), Ev(q, i, "renamedTo")>>
  <2> DEFINE m == MoveOf(p, q, i)
  <2>1. PlaceOf(tree, i) = p /\ PlaceOf(tree', i) = q
    BY <1>1, <1>4, <1>13, PlaceIs
  <2>2. InosOf(tree) \ InosOf(tree') = {} /\ InosOf(tree') \ InosOf(tree) = {}
    BY <1>10
  <2>3. ChangeEvents(tree, tree') = <<>> \o m \o <<>> \o <<>>
    BY <1>12, <1>14, <2>1, <2>2, ChangeParts, OneIs
  <2>4. DirOf(p) = DirOf(q)
    BY <1>1, ShortPath
  <2>5. m = <<Ev(p, i, "renamed"), Ev(q, i, "renamedTo")>>
    BY <2>4 DEF MoveOf
  <2>6. m \in Seq(NatEvents)
    <3>1. i \in Inodes \cup {"top"} /\ p \in Paths /\ q \in Paths
      BY <1>1, <1>2 DEF InosKnown, Paths
    <3>2. Ev(p, i, "renamed") \in NatEvents /\ Ev(q, i, "renamedTo") \in NatEvents
      <4> HIDE DEF i
      <4> QED BY <3>1, EvTyped DEF NatFlags
    <3> QED BY <2>5, <3>2, TwoEvents
  <2>7. ChangeEvents(tree, tree') = m
    <3> HIDE DEF m
    <3> QED BY <2>3, <2>6, NoMore
  <2> QED BY <2>5, <2>7
<1> DEFINE kids == Children(q) \cap DOMAIN tree'
           old == {p \o <<Last(k)>> : k \in kids}
<1>16. \A k : k \in kids <=> \E y : k = <<d, y>> /\ <<e, y>> \in DOMAIN tree
  <2>1. ASSUME NEW k \in kids PROVE \E y : k = <<d, y>> /\ <<e, y>> \in DOMAIN tree
    <3>1. DirOf(k) = q /\ k \in DOMAIN tree' /\ k \in Subs \cup Files
      BY DEF Children
    <3>2. k # Top /\ \A x : k # <<x>>
      <4>1. q # Top
        BY <1>1 DEF Top
      <4>2. \A x : DirOf(<<x>>) = Top
        BY ShortPath
      <4>3. k # Top
        BY <3>1, Kinds DEF Subs, Top
      <4> QED BY <3>1, <4>1, <4>2, <4>3
    <3>3. PICK x, y : k = <<x, y>>
      BY <1>5, <3>1, <3>2
    <3>4. <<x>> = <<d>>
      BY <1>1, <3>1, <3>3, LongPath
    <3>5. x = d
      BY <3>4
    <3> QED BY <1>1, <3>1, <3>3, <3>5
  <2>2. ASSUME NEW y, <<e, y>> \in DOMAIN tree PROVE <<d, y>> \in kids
    <3>1. <<d, y>> \in DOMAIN tree'
      BY <1>1, <2>2
    <3>2. <<d, y>> # Top /\ DirOf(<<d, y>>) = q
      BY <1>1, LongPath DEF Top
    <3>3. <<d, y>> \in Subs \cup Files
      BY <1>3, <3>1, <3>2 DEF TreeSound, Paths
    <3> QED BY <3>1, <3>2, <3>3 DEF Children
  <2> QED BY <2>1, <2>2
<1>17. \A r : r \in old <=> \E y : r = <<e, y>> /\ <<e, y>> \in DOMAIN tree
  <2>1. \A y : p \o <<Last(<<d, y>>)>> = <<e, y>>
    <3> SUFFICES ASSUME NEW y PROVE p \o <<Last(<<d, y>>)>> = <<e, y>>
      OBVIOUS
    <3>1. Last(<<d, y>>) = y
      BY DEF Last
    <3> QED BY <1>1, <3>1, Concat1
  <2> HIDE DEF kids
  <2>2. ASSUME NEW r \in old PROVE \E y : r = <<e, y>> /\ <<e, y>> \in DOMAIN tree
    <3>1. PICK k \in kids : r = p \o <<Last(k)>>
      OBVIOUS
    <3> QED BY <1>16, <2>1, <3>1
  <2>3. ASSUME NEW y, <<e, y>> \in DOMAIN tree PROVE <<e, y>> \in old
    <3>1. <<d, y>> \in kids
      BY <1>16, <2>3
    <3>2. p \o <<Last(<<d, y>>)>> \in old
      BY <3>1
    <3> QED BY <2>1, <3>2
  <2> QED BY <2>2, <2>3
<1> HIDE DEF kids, old
<1>18. DOMAIN tree' = (((DOMAIN tree \ {p}) \cup {q}) \ old) \cup kids
  <2>1. ASSUME NEW r \in DOMAIN tree' PROVE r \in (((DOMAIN tree \ {p}) \cup {q}) \ old) \cup kids
    <3>1. CASE r = Top
      <4>1. Top # p /\ \A y : Top # <<e, y>>
        BY <1>1 DEF Top
      <4> QED BY <1>1, <1>17, <3>1, <4>1
    <3>2. ASSUME NEW x, r = <<x>> PROVE r \in ((DOMAIN tree \ {p}) \cup {q}) \ old
      <4>1. x # e /\ (x = d \/ <<x>> \in DOMAIN tree)
        BY <1>1, <3>2
      <4>2. <<x>> # <<e>> /\ \A y : <<x>> # <<e, y>>
        BY <4>1
      <4> QED BY <1>1, <1>17, <3>2, <4>1, <4>2
    <3>3. ASSUME NEW x, NEW y, r = <<x, y>> PROVE r \in ((DOMAIN tree \ {p}) \ old) \cup kids
      <4>1. x # e /\ <<IF x = d THEN e ELSE x, y>> \in DOMAIN tree
        BY <1>1, <3>3
      <4>2. CASE x = d
        BY <1>16, <3>3, <4>1, <4>2
      <4>3. CASE x # d
        <5>1. <<x, y>> # <<e>> /\ \A z : <<x, y>> # <<e, z>>
          BY <4>1
        <5> QED BY <1>1, <1>17, <3>3, <4>1, <4>3, <5>1
      <4> QED BY <4>2, <4>3
    <3>4. r = Top \/ (\E x : r = <<x>>) \/ (\E x, y : r = <<x, y>>)
      BY <1>5
    <3> QED BY Zenon, <3>1, <3>2, <3>3, <3>4
  <2>2. ASSUME NEW r, r \in (((DOMAIN tree \ {p}) \cup {q}) \ old) \cup kids PROVE r \in DOMAIN tree'
    <3>1. CASE r \in kids
      BY <3>1 DEF kids
    <3>2. CASE r = q
      BY <1>13, <3>2
    <3>3. CASE r \in DOMAIN tree /\ r # p /\ r \notin old
      <4>1. \A y : r # <<e, y>>
        BY <1>17, <3>3
      <4> QED BY Zenon, <1>8, <3>3, <4>1
    <3> QED BY <2>2, <3>1, <3>2, <3>3
  <2> QED BY <2>1, <2>2
<1> QED BY <1>1, <1>2, <1>11, <1>15, <1>18 DEF kids, old

-----------------------------------------------------------------------------
(* The unread events of macOS, unless two of them were merged.                  *)

LEMMA MergeIs ==
  ASSUME NEW old \in Seq(NatEvents), NEW e \in NatEvents
  PROVE  /\ Merge(old, e) \in Seq(NatEvents)
         /\ \/ Len(Merge(old, e)) = Len(old)
            \/ /\ Merge(old, e) = Append(old, e)
               /\ system = "macOS" => \A k \in DOMAIN old : ~Alike(old[k], e)
<1> DEFINE same == {k \in DOMAIN old : old[k].path = e.path /\ old[k].ino = e.ino}
           merged == [k \in DOMAIN old |-> IF k \in same THEN [old[k] EXCEPT !.flags = @ \cup e.flags]
                                        ELSE old[k]]
<1>1. CASE system = "macOS" /\ same # {}
  <2>1. Merge(old, e) = merged
    BY <1>1 DEF Merge
  <2>2. DOMAIN old = 1 .. Len(old) /\ Len(old) \in Nat
    OBVIOUS
  <2>3. ASSUME NEW k \in 1 .. Len(old) PROVE merged[k] \in NatEvents
    <3>1. old[k] \in NatEvents /\ merged[k] = IF k \in same THEN [old[k] EXCEPT !.flags = @ \cup e.flags]
                                           ELSE old[k]
      BY <2>2, <2>3, ElementOfSeq
    <3>2. e.flags \subseteq NatFlags /\ old[k].flags \subseteq NatFlags
      BY <3>1 DEF NatEvents
    <3> HIDE DEF same, merged
    <3>3. [old[k] EXCEPT !.flags = @ \cup e.flags] \in NatEvents
      BY <3>1, <3>2 DEF NatEvents
    <3> QED BY <3>1, <3>3
  <2>4. merged \in [1 .. Len(old) -> NatEvents]
    <3>1. merged = [k \in 1 .. Len(old) |-> merged[k]]
      BY <2>2
    <3> HIDE DEF merged
    <3> QED BY <2>3, <3>1
  <2> HIDE DEF merged
  <2>5. merged \in Seq(NatEvents)
    BY <2>2, <2>4, SeqDef
  <2>6. Len(merged) = Len(old)
    BY <2>2, <2>4, <2>5, LenProperties
  <2> QED BY <2>1, <2>5, <2>6
<1>2. CASE ~(system = "macOS" /\ same # {})
  <2>1. Merge(old, e) = Append(old, e)
    BY <1>2 DEF Merge
  <2>2. system = "macOS" => \A k \in DOMAIN old : ~Alike(old[k], e)
    BY <1>2 DEF Alike
  <2> QED BY <2>1, <2>2, EventMore
<1> HIDE DEF same, merged
<1> QED BY <1>1, <1>2

\* an event that was not merged
Unmerged(old, e, all) ==
  /\ all = Append(old, e)
  /\ system = "macOS" /\ AllDistinct(old) => AllDistinct(all)

LEMMA NotMerged ==
  ASSUME NEW old \in Seq(NatEvents), NEW e \in NatEvents
  PROVE  /\ Merge(old, e) \in Seq(NatEvents)
         /\ Len(old) \in Nat
         /\ Len(Merge(old, e)) \in Nat
         /\ Len(Merge(old, e)) <= Len(old) + 1
         /\ Len(Merge(old, e)) = Len(old) + 1 => Unmerged(old, e, Merge(old, e))
<1>1. Len(old) \in Nat /\ Len(Append(old, e)) = Len(old) + 1
  BY EventMore
<1>2. ASSUME Len(Merge(old, e)) = Len(old) + 1
      PROVE  Unmerged(old, e, Merge(old, e))
  <2>1. /\ Merge(old, e) = Append(old, e)
        /\ system = "macOS" => \A k \in DOMAIN old : ~Alike(old[k], e)
    <3> DEFINE l == Len(Merge(old, e))
               one == Merge(old, e) = Append(old, e)
               apart == system = "macOS" => \A k \in DOMAIN old : ~Alike(old[k], e)
    <3>1. l = Len(old) \/ (one /\ apart)
      BY MergeIs
    <3>2. l = Len(old) + 1
      BY <1>2
    <3> HIDE DEF l, one, apart
    <3>3. one /\ apart
      BY <1>1, <3>1, <3>2
    <3> QED BY <3>3 DEF one, apart
  <2>2. ASSUME AllDistinct(old), system = "macOS"
        PROVE  AllDistinct(Append(old, e))
    <3> DEFINE R == Append(old, e)
               n == Len(old)
    <3>1. /\ n \in Nat /\ DOMAIN old = 1 .. n /\ DOMAIN R = 1 .. n + 1
          /\ (\A k \in 1 .. n : R[k] = old[k]) /\ R[n + 1] = e
      BY EventMore
    <3> HIDE DEF R, n
    <3>2. \A k \in 1 .. n : ~Alike(R[k], R[n + 1]) /\ ~Alike(R[n + 1], R[k])
      BY <2>1, <2>2, <3>1 DEF Alike
    <3>3. \A j, k \in 1 .. n : Alike(R[j], R[k]) => j = k
      BY <2>2, <3>1 DEF AllDistinct
    <3>4. \A k \in 1 .. n + 1 : k \in 1 .. n \/ k = n + 1
      BY <3>1
    <3> QED BY <3>1, <3>2, <3>3, <3>4 DEF AllDistinct, R
  <2> QED BY <2>1, <2>2 DEF Unmerged
<1> QED BY <1>1, <1>2, MergeIs, LenProperties

LEMMA NoneFolded ==
  ASSUME NEW old
  PROVE  MergedAll(old, <<>>) = old
<1>1. DOMAIN <<>> = {}
  OBVIOUS
<1> QED BY <1>1, MergedStepwise

LEMMA OneFolded ==
  ASSUME NEW old \in Seq(NatEvents), NEW a \in NatEvents,
         ~(Len(MergedAll(old, <<a>>)) < Len(old) + 1)
  PROVE  Unmerged(old, a, MergedAll(old, <<a>>))
<1>1. DOMAIN <<a>> = {1} /\ <<a>>[1] = a
  OBVIOUS
<1>2. MergedAll(old, <<a>>) = Merge(old, a)
  BY <1>1, MergedStepwise
<1> QED BY <1>2, NotMerged

LEMMA TwoFolded ==
  ASSUME NEW old \in Seq(NatEvents), NEW a \in NatEvents, NEW b \in NatEvents,
         ~(Len(MergedAll(old, <<a, b>>)) < Len(old) + 2)
  PROVE  \E m \in Seq(NatEvents) : Unmerged(old, a, m) /\ Unmerged(m, b, MergedAll(old, <<a, b>>))
<1>1. DOMAIN <<a, b>> = {1, 2} /\ <<a, b>>[1] = a /\ <<a, b>>[2] = b
  OBVIOUS
<1> DEFINE m == Merge(old, a)
<1>2. MergedAll(old, <<a, b>>) = Merge(m, b)
  BY <1>1, MergedStepwise
<1>3. /\ m \in Seq(NatEvents) /\ Len(old) \in Nat /\ Len(m) \in Nat /\ Len(m) <= Len(old) + 1
      /\ Len(m) = Len(old) + 1 => Unmerged(old, a, m)
  BY NotMerged
<1> HIDE DEF m
<1>4. /\ Len(Merge(m, b)) \in Nat /\ Len(Merge(m, b)) <= Len(m) + 1
      /\ Len(Merge(m, b)) = Len(m) + 1 => Unmerged(m, b, Merge(m, b))
  BY <1>3, NotMerged
<1>5. Len(m) = Len(old) + 1 /\ Len(Merge(m, b)) = Len(m) + 1
  BY <1>2, <1>3, <1>4
<1> QED BY <1>2, <1>3, <1>4, <1>5

LEMMA ThreeFolded ==
  ASSUME NEW old \in Seq(NatEvents), NEW a \in NatEvents, NEW b \in NatEvents, NEW c \in NatEvents,
         ~(Len(MergedAll(old, <<a, b, c>>)) < Len(old) + 3)
  PROVE  \E m, n \in Seq(NatEvents) :
           Unmerged(old, a, m) /\ Unmerged(m, b, n) /\ Unmerged(n, c, MergedAll(old, <<a, b, c>>))
<1>1. DOMAIN <<a, b, c>> = {1, 2, 3} /\ <<a, b, c>>[1] = a /\ <<a, b, c>>[2] = b /\ <<a, b, c>>[3] = c
  OBVIOUS
<1> DEFINE m == Merge(old, a)
           n == Merge(m, b)
<1>2. MergedAll(old, <<a, b, c>>) = Merge(n, c)
  BY <1>1, MergedStepwise
<1>3. /\ m \in Seq(NatEvents) /\ Len(old) \in Nat /\ Len(m) \in Nat /\ Len(m) <= Len(old) + 1
      /\ Len(m) = Len(old) + 1 => Unmerged(old, a, m)
  BY NotMerged
<1> HIDE DEF m
<1>4. /\ n \in Seq(NatEvents) /\ Len(n) \in Nat /\ Len(n) <= Len(m) + 1
      /\ Len(n) = Len(m) + 1 => Unmerged(m, b, n)
  BY <1>3, NotMerged
<1> HIDE DEF n
<1>5. /\ Len(Merge(n, c)) \in Nat /\ Len(Merge(n, c)) <= Len(n) + 1
      /\ Len(Merge(n, c)) = Len(n) + 1 => Unmerged(n, c, Merge(n, c))
  BY <1>4, NotMerged
<1>6. Len(m) = Len(old) + 1 /\ Len(n) = Len(m) + 1 /\ Len(Merge(n, c)) = Len(n) + 1
  BY <1>2, <1>3, <1>4, <1>5
<1> QED BY <1>2, <1>3, <1>4, <1>5, <1>6

-----------------------------------------------------------------------------
(* One change of a file more, or one event of a file handled.                   *)

\* unread events of files only, which lead from the paths K to the tree T
FileEvents(Q, K, T) ==
  /\ \A k \in DOMAIN Q : Q[k].path \in Files
  /\ ViewLags(Q, K, DOMAIN T) /\ Halves(Q) /\ Placed(Q, T) /\ Continued(Q)

OneFlag(Q) == \A k \in DOMAIN Q : \E f \in NatFlags : Q[k].flags = {f}

LEMMA FlagIs ==
  ASSUME NEW e \in NatEvents, NEW f \in NatFlags, e.flags = {f}
  PROVE  /\ \A g : Is(e, g) <=> g = f
         /\ Puts(e) <=> f \in {"created", "renamedTo"}
         /\ Takes(e) <=> f \in {"removed", "renamed"}
BY DEF Is, Puts, Takes, NatFlags

LEMMA PathsMore ==
  ASSUME NEW Q \in Seq(NatEvents), NEW e \in NatEvents
  PROVE  /\ e.path \in Files /\ (\A k \in DOMAIN Q : Q[k].path \in Files) =>
              \A k \in DOMAIN Append(Q, e) : Append(Q, e)[k].path \in Files
         /\ OneFlag(Q) /\ (\E f \in NatFlags : e.flags = {f}) => OneFlag(Append(Q, e))
<1> DEFINE R == Append(Q, e)
           n == Len(Q)
<1>1. /\ n \in Nat /\ DOMAIN Q = 1 .. n /\ DOMAIN R = 1 .. n + 1 /\ Len(R) = n + 1
      /\ (\A k \in 1 .. n : R[k] = Q[k]) /\ R[n + 1] = e
  BY EventMore
<1> HIDE DEF R, n
<1>2. \A k \in 1 .. n + 1 : k \in 1 .. n \/ k = n + 1
  BY <1>1
<1>3. e.path \in Files /\ (\A k \in DOMAIN Q : Q[k].path \in Files) => \A k \in DOMAIN R : R[k].path \in Files
  BY <1>1, <1>2
<1>4. OneFlag(Q) /\ (\E f \in NatFlags : e.flags = {f}) => OneFlag(R)
  BY <1>1, <1>2 DEF OneFlag
<1> QED BY <1>3, <1>4 DEF R

LEMMA AddCreated ==
  ASSUME NEW Q \in Seq(NatEvents), NEW K, NEW V, NEW T, NEW T2, NEW x \in Paths, NEW i \in Inodes,
         NEW e \in NatEvents, e.path = x, e.ino = i, e.flags = {"created"},
         OneOne(T), x \notin DOMAIN T, i \notin InosOf(T), DOMAIN T2 = DOMAIN T \cup {x},
         T2[x].ino = i, \A y \in DOMAIN T : T2[y].ino = T[y].ino
  PROVE  /\ CreatedAnew(Q, V, InosOf(T)) => CreatedAnew(Append(Q, e), V, InosOf(T2))
         /\ FileEvents(Q, K, T) /\ x \in Files => FileEvents(Append(Q, e), K, T2)
<1>1. (\A g : Is(e, g) <=> g = "created") /\ Puts(e) /\ ~Takes(e)
  BY FlagIs DEF NatFlags
<1>2. InosOf(T2) = InosOf(T) \cup {i}
  BY DEF InosOf
<1>3. ASSUME CreatedAnew(Q, V, InosOf(T)) PROVE CreatedAnew(Append(Q, e), V, InosOf(T2))
  BY <1>1, <1>2, <1>3, EventMoreAnew
<1>4. ASSUME FileEvents(Q, K, T), x \in Files PROVE FileEvents(Append(Q, e), K, T2)
  <2>1. ViewLags(Append(Q, e), K, DOMAIN T2)
    BY <1>1, <1>4, EventMoreLags DEF FileEvents
  <2>2. Placed(Append(Q, e), T2)
    BY <1>1, <1>4, EventMorePlaced DEF FileEvents
  <2>3. Continued(Append(Q, e))
    <3>1. \A p \in DOMAIN T : T[p].ino # e.ino
      BY DEF InosOf
    <3> QED BY <1>4, <3>1, EventMoreContinued DEF FileEvents
  <2>4. Halves(Append(Q, e))
    BY <1>1, <1>4, EventMoreHalves DEF FileEvents
  <2> QED BY <1>4, <2>1, <2>2, <2>3, <2>4, PathsMore DEF FileEvents
<1> QED BY <1>3, <1>4

LEMMA AddRemoved ==
  ASSUME NEW Q \in Seq(NatEvents), NEW K, NEW V, NEW T, NEW T2, NEW x \in DOMAIN T,
         NEW e \in NatEvents, e.path = x, e.ino = T[x].ino, e.flags = {"removed"},
         OneOne(T), DOMAIN T2 = DOMAIN T \ {x}, \A y \in DOMAIN T2 : T2[y].ino = T[y].ino
  PROVE  /\ CreatedAnew(Q, V, InosOf(T)) => CreatedAnew(Append(Q, e), V, InosOf(T2))
         /\ FileEvents(Q, K, T) /\ x \in Files => FileEvents(Append(Q, e), K, T2)
<1>1. (\A g : Is(e, g) <=> g = "removed") /\ ~Puts(e) /\ Takes(e)
  BY FlagIs DEF NatFlags
<1>2. ASSUME NEW y \in DOMAIN T, y # x PROVE T[y].ino \in InosOf(T2)
  <2>1. y \in DOMAIN T2 /\ T2[y].ino = T[y].ino
    BY <1>2
  <2> QED BY <2>1 DEF InosOf
<1>3. ASSUME CreatedAnew(Q, V, InosOf(T)) PROVE CreatedAnew(Append(Q, e), V, InosOf(T2))
  <2>1. ASSUME NEW i \in Inodes \ InosOf(T2) PROVE (i \notin InosOf(T) /\ i # e.ino) \/ i = e.ino
    BY <1>2 DEF InosOf
  <2> QED BY <1>1, <1>3, <2>1, EventMoreAnew
<1>4. ASSUME FileEvents(Q, K, T), x \in Files PROVE FileEvents(Append(Q, e), K, T2)
  <2>1. ViewLags(Append(Q, e), K, DOMAIN T2)
    BY <1>1, <1>4, EventMoreLags DEF FileEvents
  <2>2. Placed(Append(Q, e), T2)
    BY <1>1, <1>4, EventMorePlaced DEF FileEvents
  <2>3. Continued(Append(Q, e))
    BY <1>4, EventMoreContinued DEF FileEvents
  <2>4. Halves(Append(Q, e))
    BY <1>1, <1>4, EventMoreHalves DEF FileEvents
  <2> QED BY <1>4, <2>1, <2>2, <2>3, <2>4, PathsMore DEF FileEvents
<1> QED BY <1>3, <1>4

LEMMA AddModified ==
  ASSUME NEW Q \in Seq(NatEvents), NEW K, NEW V, NEW T, NEW T2, NEW x \in DOMAIN T,
         NEW e \in NatEvents, e.path = x, e.ino = T[x].ino, e.flags = {"modified"},
         OneOne(T), DOMAIN T2 = DOMAIN T, \A y \in DOMAIN T2 : T2[y].ino = T[y].ino
  PROVE  /\ CreatedAnew(Q, V, InosOf(T)) => CreatedAnew(Append(Q, e), V, InosOf(T2))
         /\ FileEvents(Q, K, T) /\ x \in Files => FileEvents(Append(Q, e), K, T2)
<1>1. (\A g : Is(e, g) <=> g = "modified") /\ ~Puts(e) /\ ~Takes(e)
  BY FlagIs DEF NatFlags
<1>2. InosOf(T2) = InosOf(T) /\ e.ino \in InosOf(T)
  BY DEF InosOf
<1>3. ASSUME CreatedAnew(Q, V, InosOf(T)) PROVE CreatedAnew(Append(Q, e), V, InosOf(T2))
  BY <1>1, <1>2, <1>3, EventMoreAnew
<1>4. ASSUME FileEvents(Q, K, T), x \in Files PROVE FileEvents(Append(Q, e), K, T2)
  <2>1. ViewLags(Append(Q, e), K, DOMAIN T2)
    BY <1>1, <1>4, EventMoreLags DEF FileEvents
  <2>2. Placed(Append(Q, e), T2)
    BY <1>1, <1>4, EventMorePlaced DEF FileEvents
  <2>3. Continued(Append(Q, e))
    BY <1>4, EventMoreContinued DEF FileEvents
  <2>4. Halves(Append(Q, e))
    BY <1>1, <1>4, EventMoreHalves DEF FileEvents
  <2> QED BY <1>4, <2>1, <2>2, <2>3, <2>4, PathsMore DEF FileEvents
<1> QED BY <1>3, <1>4

LEMMA AddMoved ==
  ASSUME NEW Q \in Seq(NatEvents), NEW K, NEW V, NEW T, NEW T2, NEW p \in DOMAIN T, NEW q \in Paths,
         NEW a \in NatEvents, a.path = p, a.ino = T[p].ino, a.flags = {"renamed"},
         NEW b \in NatEvents, b.path = q, b.ino = T[p].ino, b.flags = {"renamedTo"},
         OneOne(T), InosOf(T2) = InosOf(T)
  PROVE  /\ CreatedAnew(Q, V, InosOf(T)) => CreatedAnew(Append(Append(Q, a), b), V, InosOf(T2))
         /\ /\ FileEvents(Q, K, T) /\ p \in Files /\ q \in Files
            /\ q \notin DOMAIN T /\ DOMAIN T2 = (DOMAIN T \ {p}) \cup {q} /\ T2[q].ino = T[p].ino
            /\ \A y \in DOMAIN T \ {p} : T2[y].ino = T[y].ino
            => FileEvents(Append(Append(Q, a), b), K, T2)
<1>1. (\A g : Is(a, g) <=> g = "renamed") /\ ~Puts(a) /\ Takes(a)
  BY FlagIs DEF NatFlags
<1>2. (\A g : Is(b, g) <=> g = "renamedTo") /\ Puts(b) /\ ~Takes(b)
  BY FlagIs DEF NatFlags
<1> DEFINE R == Append(Q, a)
<1>3. R \in Seq(NatEvents)
  BY EventMore
<1>4. ASSUME CreatedAnew(Q, V, InosOf(T)) PROVE CreatedAnew(Append(R, b), V, InosOf(T2))
  <2>1. a.ino \in InosOf(T) /\ b.ino \in InosOf(T)
    BY DEF InosOf
  <2>2. CreatedAnew(R, V, InosOf(T))
    BY <1>1, <1>4, <2>1, EventMoreAnew
  <2> HIDE DEF R
  <2> QED BY <1>2, <1>3, <2>1, <2>2, EventMoreAnew
<1>5. ASSUME FileEvents(Q, K, T), p \in Files, q \in Files,
             q \notin DOMAIN T, DOMAIN T2 = (DOMAIN T \ {p}) \cup {q}, T2[q].ino = T[p].ino,
             \A y \in DOMAIN T \ {p} : T2[y].ino = T[y].ino
      PROVE  FileEvents(Append(R, b), K, T2)
  <2> DEFINE T1 == [y \in DOMAIN T \ {p} |-> T[y]]
  <2>1. DOMAIN T1 = DOMAIN T \ {p} /\ \A y \in DOMAIN T1 : T1[y] = T[y]
    OBVIOUS
  <2> HIDE DEF T1
  <2>2. OneOne(T1) /\ \A y \in DOMAIN T1 : T1[y].ino # b.ino
    BY <2>1 DEF OneOne
  <2>3. ViewLags(R, K, DOMAIN T1) /\ Placed(R, T1) /\ Continued(R)
    <3>1. ViewLags(R, K, DOMAIN T1)
      BY <1>1, <1>5, <2>1, EventMoreLags DEF FileEvents
    <3>2. Placed(R, T1)
      BY <1>1, <1>5, <2>1, EventMorePlaced DEF FileEvents
    <3>3. Continued(R)
      BY <1>5, EventMoreContinued DEF FileEvents
    <3> QED BY <3>1, <3>2, <3>3
  <2>4. Halves(Append(R, b))
    BY <1>1, <1>2, <1>5, EventsMoreHalves DEF FileEvents
  <2>5. (\A k \in DOMAIN R : R[k].path \in Files)
    BY <1>5, PathsMore DEF FileEvents
  <2> HIDE DEF R
  <2>6. ViewLags(Append(R, b), K, DOMAIN T2)
    BY <1>2, <1>3, <1>5, <2>1, <2>3, EventMoreLags
  <2>7. Placed(Append(R, b), T2)
    <3>1. \A y \in DOMAIN T1 : y \in DOMAIN T2 /\ T2[y].ino = T1[y].ino
      BY <1>5, <2>1
    <3> QED BY <1>2, <1>3, <1>5, <2>3, <3>1, EventMorePlaced
  <2>8. Continued(Append(R, b))
    BY <1>3, <2>2, <2>3, EventMoreContinued
  <2> QED BY <1>3, <1>5, <2>4, <2>5, <2>6, <2>7, <2>8, PathsMore DEF FileEvents
<1> QED BY <1>4, <1>5

-----------------------------------------------------------------------------
(* FSEvents and Windows: what is unread leads from what is told to the tree.    *)

\* Windows: the second half of a rename is next, the first is in renamedSrc
HalfRead == system = "Windows" /\ received # <<>> /\ Is(Head(received), "renamedTo")

Reading == IF HalfRead THEN <<Ev(renamedSrc, Head(received).ino, "renamed")>> \o received ELSE received

Unread == Reading \o native

\* nothing but events of files
FilePhase ==
  /\ FileEvents(Unread, toldPaths, tree)
  /\ system = "macOS" => AllDistinct(received) /\ AllDistinct(native)

\* nothing but the events of one change of a directory
DirPhase ==
  \/ /\ Len(Unread) = 1 /\ Unread[1].path \in {Top} \cup Subs
     /\ \/ Is(Unread[1], "created") /\ DOMAIN tree = toldPaths \cup {Unread[1].path}
        \/ Is(Unread[1], "removed") /\ DOMAIN tree = toldPaths \ {Unread[1].path}
  \/ /\ Len(Unread) = 2 /\ Is(Unread[1], "renamed") /\ Is(Unread[2], "renamedTo")
     /\ Unread[1].path \in Subs /\ Unread[2].path \in Subs /\ Unread[2].ino = Unread[1].ino
     /\ DOMAIN tree = MovedTo(toldPaths, Unread[1].path, Unread[2].path)
     /\ received = <<>> \/ native = <<>>

NatTyped ==
  /\ TreeSound /\ InosKnown /\ toldPaths \subseteq Paths
  /\ received \in Seq(NatEvents) /\ native \in Seq(NatEvents)
  /\ HalfRead => renamedSrc \in Paths
  /\ system = "Windows" /\ native # <<>> => ~Is(Head(native), "renamedTo")
  /\ OneFlag(Unread) /\ CreatedAnew(Unread, fsView, InosOf(tree))
  /\ system = "Windows" => fsView = {}

NatSound == NatTyped /\ (FilePhase \/ DirPhase)

\* the three flags are the conditions of NativeFollows
NatInv == dirRaced \/ splitRename \/ blended \/ NatSound

-----------------------------------------------------------------------------
LEMMA HeadIn ==
  ASSUME NEW s \in Seq(NatEvents), s # <<>>
  PROVE  Head(s) \in NatEvents /\ Head(s) = s[1] /\ Head(s).ino \in Inodes \cup {"top"}
<1>1. Head(s) \in NatEvents /\ Head(s) = s[1]
  BY EventDone
<1> QED BY <1>1 DEF NatEvents

LEMMA FrontTyped ==
  ASSUME NatTyped
  PROVE  Reading \in Seq(NatEvents) /\ Unread \in Seq(NatEvents)
<1>1. Reading \in Seq(NatEvents)
  <2>1. CASE HalfRead
    <3> DEFINE a == Ev(renamedSrc, Head(received).ino, "renamed")
    <3>1. a \in NatEvents
      <4>1. renamedSrc \in Paths /\ Head(received).ino \in Inodes \cup {"top"} /\ "renamed" \in NatFlags
        BY <2>1, HeadIn DEF NatTyped, HalfRead, NatFlags
      <4> QED BY <4>1, EvTyped
    <3> HIDE DEF a
    <3>2. <<a>> \o received \in Seq(NatEvents)
      BY <3>1, OneEvent, ConcatProperties DEF NatTyped
    <3> QED BY <2>1, <3>2 DEF Reading, a
  <2>2. CASE ~HalfRead
    BY <2>2 DEF Reading, NatTyped
  <2> QED BY <2>1, <2>2
<1> QED BY <1>1, ConcatProperties DEF Unread, NatTyped

LEMMA AppendJoin ==
  ASSUME NEW s \in Seq(NatEvents), NEW t \in Seq(NatEvents), NEW e \in NatEvents
  PROVE  s \o Append(t, e) = Append(s \o t, e)
<1>1. <<e>> \in Seq(NatEvents) /\ s \o t \in Seq(NatEvents)
  BY OneEvent, ConcatProperties
<1>2. Append(t, e) = t \o <<e>> /\ Append(s \o t, e) = (s \o t) \o <<e>>
  BY <1>1, AppendIsConcat
<1> QED BY <1>1, <1>2, ConcatAssociative

\* N and one event more, M, behind S
Joined(S, N, e, M) ==
  /\ M \in Seq(NatEvents) /\ S \o N \in Seq(NatEvents) /\ S \o M = Append(S \o N, e)
  /\ OneFlag(S \o N) => OneFlag(S \o M)
  /\ M # <<>> /\ (N = <<>> => Head(M) = e) /\ (N # <<>> => Head(M) = Head(N))
  /\ system = "macOS" /\ AllDistinct(N) => AllDistinct(M)

LEMMA UnreadGrows ==
  ASSUME NEW S \in Seq(NatEvents), NEW N \in Seq(NatEvents), NEW e \in NatEvents,
         \E f \in NatFlags : e.flags = {f}, NEW M, Unmerged(N, e, M)
  PROVE  Joined(S, N, e, M)
<1>1. M = Append(N, e)
  BY DEF Unmerged
<1>2. M \in Seq(NatEvents) /\ M # <<>> /\ Head(M) = IF N = <<>> THEN e ELSE Head(N)
  BY <1>1, AppendProperties, HeadTailAppend
<1>3. S \o N \in Seq(NatEvents)
  BY ConcatProperties
<1>4. S \o M = Append(S \o N, e)
  BY <1>1, AppendJoin
<1>5. OneFlag(S \o N) => OneFlag(S \o M)
  BY <1>3, <1>4, PathsMore
<1> QED BY <1>2, <1>3, <1>4, <1>5 DEF Unmerged, Joined

\* what an edit leaves alone
LEMMA Untouched ==
  ASSUME NatTyped, UNCHANGED <<system, received, renamedSrc, fsView, toldPaths>>
  PROVE  /\ Reading' = Reading /\ (HalfRead' <=> HalfRead) /\ Unread' = Reading \o native'
         /\ Reading \in Seq(NatEvents) /\ native \in Seq(NatEvents)
         /\ toldPaths' \subseteq Paths /\ received' \in Seq(NatEvents)
         /\ HalfRead' => renamedSrc' \in Paths
<1>1. (HalfRead' <=> HalfRead) /\ Reading' = Reading
  BY DEF HalfRead, Reading
<1> QED BY <1>1, FrontTyped DEF NatTyped, Unread

LEMMA EditKnown ==
  ASSUME TreeSound, InosKnown, Edit
  PROVE  TreeSound' /\ InosKnown'
<1>1. ASSUME NEW p \in Paths, Create(p) PROVE TreeSound' /\ InosKnown'
  <2>1. PICK i \in Inodes \ Used : tree' = Set(tree, p, [ino |-> i, mtime |-> edits])
    BY <1>1 DEF Create, Edited
  <2>2. \A r \in DOMAIN tree' : (r \in DOMAIN tree /\ tree'[r] = tree[r]) \/ tree'[r].ino = i
    BY <2>1 DEF Set
  <2> QED BY <1>1, <2>2, CreateSound DEF InosKnown
<1>2. ASSUME NEW p \in Paths, Modify(p) PROVE TreeSound' /\ InosKnown'
  <2>1. DOMAIN tree' = DOMAIN tree /\ \A q \in DOMAIN tree : tree'[q].ino = tree[q].ino
    BY <1>2, ModifyEvents
  <2>2. TreeSound'
    BY <1>2, ModifySound DEF Modify, Edited
  <2> QED BY <2>1, <2>2 DEF InosKnown
<1>3. ASSUME NEW p \in Paths, Delete(p) PROVE TreeSound' /\ InosKnown'
  <2>1. DOMAIN tree' = DOMAIN tree \ {p} /\ \A q \in DOMAIN tree' : tree'[q] = tree[q]
    BY <1>3, DeleteEvents
  <2> QED BY <1>3, <2>1, DeleteSound DEF InosKnown
<1>4. ASSUME NEW p, NEW q, Move(p, q) PROVE TreeSound' /\ InosKnown'
  <2>1. /\ p \in DOMAIN tree
        /\ DOMAIN tree' = (DOMAIN tree \ {p}) \cup {q} /\ tree'[q].ino = tree[p].ino
        /\ \A r \in DOMAIN tree \ {p, q} : tree'[r] = tree[r]
    BY <1>4, MoveEvents
  <2>2. \A r \in DOMAIN tree' : r = q \/ (r \in DOMAIN tree \ {p, q})
    BY <2>1
  <2> QED BY <1>4, <2>1, <2>2, MoveSound DEF InosKnown
<1>5. ASSUME NEW p, NEW q, MoveDir(p, q) PROVE TreeSound' /\ InosKnown'
  <2>1. Used' = Used
    BY <1>5, MoveDirEvents
  <2>2. ASSUME NEW r \in DOMAIN tree' PROVE tree'[r].ino \in Inodes \cup {"top"}
    <3>1. tree'[r].ino \in Used
      BY <2>1 DEF Used
    <3> QED BY <3>1 DEF Used, InosKnown
  <2> QED BY <1>5, <2>2, MoveDirSound DEF InosKnown
<1> QED BY <1>1, <1>2, <1>3, <1>4, <1>5 DEF Edit, Paths

\* nothing unread: what is told is the tree
LEMMA NothingUnread ==
  ASSUME NatSound, Unread = <<>>
  PROVE  toldPaths = DOMAIN tree
<1>1. Len(Unread) = 0 /\ DOMAIN Unread = {}
  BY EmptySeq
<1>2. FileEvents(Unread, toldPaths, tree)
  BY <1>1 DEF NatSound, DirPhase, FilePhase
<1>3. \A p \in Paths : p \in toldPaths <=> p \in DOMAIN tree
  BY <1>1, <1>2 DEF FileEvents, ViewLags
<1>4. toldPaths \subseteq Paths /\ DOMAIN tree \subseteq Paths
  BY DEF NatSound, NatTyped, TreeSound
<1> QED BY <1>3, <1>4

LEMMA EmptyFollows ==
  ASSUME NEW K, NEW T, K = DOMAIN T
  PROVE  FileEvents(<<>>, K, T)
<1>1. DOMAIN <<>> = {}
  OBVIOUS
<1> QED BY <1>1 DEF FileEvents, ViewLags, Halves, Placed, Continued

\* events of a directory are handled before the tree changes again
LEMMA DirsFirst ==
  ASSUME NatSound, NEW evs \in Seq(NatEvents),
         ~(Open # <<>> /\ \E k \in DOMAIN (Open \o evs) : IsDir((Open \o evs)[k].path))
  PROVE  /\ FileEvents(Unread, toldPaths, tree)
         /\ system = "macOS" => AllDistinct(received) /\ AllDistinct(native)
         /\ Unread = <<>> \/ \A k \in DOMAIN evs : ~IsDir(evs[k].path)
<1>1. received \in Seq(NatEvents) /\ native \in Seq(NatEvents)
  BY DEF NatSound, NatTyped
<1>2. /\ Open \in Seq(NatEvents) /\ Open \o evs \in Seq(NatEvents)
      /\ Len(Open) = Len(native) + Len(received)
      /\ \A i \in 1 .. Len(Open) : Open[i] = IF i <= Len(native) THEN native[i] ELSE received[i - Len(native)]
  <2>1. Open \in Seq(NatEvents)
    BY <1>1, ConcatProperties DEF Open
  <2>2. /\ Len(Open) = Len(native) + Len(received)
        /\ \A i \in 1 .. Len(native) + Len(received) :
             Open[i] = IF i <= Len(native) THEN native[i] ELSE received[i - Len(native)]
    BY <1>1, ConcatProperties DEF Open
  <2> QED BY <2>1, <2>2, ConcatProperties
<1>3. /\ Len(Open) \in Nat /\ Len(evs) \in Nat /\ Len(native) \in Nat /\ Len(received) \in Nat
      /\ DOMAIN (Open \o evs) = 1 .. Len(Open) + Len(evs) /\ DOMAIN evs = 1 .. Len(evs)
      /\ \A i \in 1 .. Len(Open) + Len(evs) : (Open \o evs)[i] =
           IF i <= Len(Open) THEN Open[i] ELSE evs[i - Len(Open)]
  <2>1. Len(Open) \in Nat /\ Len(evs) \in Nat /\ Len(native) \in Nat /\ Len(received) \in Nat
    BY <1>1, <1>2, LenProperties
  <2>2. DOMAIN evs = 1 .. Len(evs) /\ DOMAIN (Open \o evs) = 1 .. Len(Open \o evs)
    BY <1>2, LenProperties
  <2>3. /\ Len(Open \o evs) = Len(Open) + Len(evs)
        /\ \A i \in 1 .. Len(Open) + Len(evs) : (Open \o evs)[i] =
             IF i <= Len(Open) THEN Open[i] ELSE evs[i - Len(Open)]
    <3>1. Open \in Seq(NatEvents)
      BY <1>2
    <3> QED BY <3>1, ConcatProperties
  <2> QED BY <2>1, <2>2, <2>3
<1>4. ASSUME Open # <<>> PROVE /\ \A i \in 1 .. Len(native) : ~IsDir(native[i].path)
                               /\ \A i \in 1 .. Len(received) : ~IsDir(received[i].path)
                               /\ \A i \in 1 .. Len(evs) : ~IsDir(evs[i].path)
  <2>0. \A i \in 1 .. Len(Open) + Len(evs) : ~IsDir((Open \o evs)[i].path)
    BY <1>3, <1>4
  <2>1. ASSUME NEW i \in 1 .. Len(native) PROVE ~IsDir(native[i].path)
    <3>1. i \in 1 .. Len(Open) /\ i \in 1 .. Len(Open) + Len(evs)
      BY <1>2, <1>3
    <3>2. (Open \o evs)[i] = native[i]
      BY <1>2, <1>3, <3>1
    <3> QED BY <2>0, <3>1, <3>2
  <2>2. ASSUME NEW i \in 1 .. Len(received) PROVE ~IsDir(received[i].path)
    <3> DEFINE j == i + Len(native)
    <3>1. j \in 1 .. Len(Open) /\ j \in 1 .. Len(Open) + Len(evs) /\ ~(j <= Len(native))
          /\ j - Len(native) = i /\ j <= Len(Open)
      BY <1>2, <1>3
    <3> HIDE DEF j
    <3>2. (Open \o evs)[j] = received[i]
      BY <1>2, <1>3, <3>1
    <3> QED BY <2>0, <3>1, <3>2
  <2>3. ASSUME NEW i \in 1 .. Len(evs) PROVE ~IsDir(evs[i].path)
    <3> DEFINE j == i + Len(Open)
    <3>1. j \in 1 .. Len(Open) + Len(evs) /\ ~(j <= Len(Open)) /\ j - Len(Open) = i
      BY <1>3
    <3> HIDE DEF j
    <3>2. (Open \o evs)[j] = evs[i]
      BY <1>3, <3>1
    <3> QED BY <2>0, <3>1, <3>2
  <2> QED BY <2>1, <2>2, <2>3
<1>5. Unread = <<>> \/ Open # <<>>
  <2>1. ASSUME Open = <<>> PROVE Unread = <<>>
    <3>1. native = <<>> /\ received = <<>>
      BY <1>1, <2>1, ConcatEqualIffEmpty DEF Open
    <3>2. Reading = <<>>
      BY <3>1 DEF Reading, HalfRead
    <3> QED BY <3>1, <3>2, NoMore, NoneYet DEF Unread
  <2> QED BY <2>1
<1>6. CASE FilePhase
  BY <1>3, <1>4, <1>5, <1>6 DEF FilePhase
<1>7. CASE DirPhase
  <2>1. /\ Reading \in Seq(NatEvents) /\ Len(Reading) \in Nat /\ Len(Unread) = Len(Reading) + Len(native)
        /\ \A i \in 1 .. Len(Reading) + Len(native) : Unread[i] = IF i <= Len(Reading) THEN Reading[i] ELSE native[i - Len(Reading)]
    <3>1. Reading \in Seq(NatEvents)
      BY FrontTyped DEF NatSound
    <3> QED BY <1>1, <3>1, ConcatProperties, LenProperties DEF Unread
  <2> DEFINE n == Len(Unread)
  <2>2. n \in {1, 2} /\ IsDir(Unread[n].path)
    BY <1>7 DEF DirPhase, IsDir
  <2>3. Open # <<>>
    <3>1. Len(<<>>) = 0
      OBVIOUS
    <3>2. n # 0
      <4>1. n = 1 \/ n = 2
        BY <2>2
      <4> HIDE DEF n
      <4> QED BY <4>1
    <3>3. Unread # <<>>
      BY <3>1, <3>2
    <3> QED BY <1>5, <3>3
  <2>4. ASSUME HalfRead PROVE /\ Len(Reading) = Len(received) + 1
                              /\ \A i \in 2 .. Len(Reading) : Reading[i] = received[i - 1]
                              /\ Len(received) >= 1
    <3> DEFINE a == Ev(renamedSrc, Head(received).ino, "renamed")
    <3>1. a \in NatEvents /\ <<a>> \in Seq(NatEvents) /\ Len(<<a>>) = 1
      <4>1. renamedSrc \in Paths /\ Head(received).ino \in Inodes \cup {"top"} /\ "renamed" \in NatFlags
        BY <2>4, HeadIn DEF NatSound, NatTyped, HalfRead, NatFlags
      <4>2. a \in NatEvents
        BY <4>1, EvTyped
      <4> HIDE DEF a
      <4> QED BY <4>2, OneEvent
    <3>2. Reading = <<a>> \o received
      BY <2>4 DEF Reading
    <3> HIDE DEF a
    <3>3. Len(received) >= 1
      BY <1>1, <2>4, EmptySeq DEF HalfRead
    <3>4. /\ Len(Reading) = 1 + Len(received)
          /\ \A i \in 1 .. 1 + Len(received) : Reading[i] = IF i <= 1 THEN <<a>>[i] ELSE received[i - 1]
      BY <1>1, <3>1, <3>2, ConcatProperties
    <3> QED BY <1>3, <3>3, <3>4
  <2>5. \/ \E i \in 1 .. Len(native) : Unread[n] = native[i]
        \/ \E i \in 1 .. Len(received) : Unread[n] = received[i]
    <3>1. n \in 1 .. Len(Reading) + Len(native)
      BY <1>3, <2>1, <2>2
    <3>2. CASE n <= Len(Reading)
      <4>1. Unread[n] = Reading[n] /\ n \in 1 .. Len(Reading)
        BY <1>3, <2>1, <2>2, <3>1, <3>2
      <4>2. CASE HalfRead
        <5>1. n = Len(Reading)
          BY <1>3, <2>1, <3>1, <3>2
        <5>2. n \in 2 .. Len(Reading) /\ n - 1 \in 1 .. Len(received)
          BY <1>3, <2>4, <4>2, <5>1
        <5> QED BY <2>4, <4>1, <4>2, <5>2
      <4>3. CASE ~HalfRead
        BY <4>1, <4>3 DEF Reading
      <4> QED BY <4>2, <4>3
    <3>3. CASE ~(n <= Len(Reading))
      <4>1. n - Len(Reading) \in 1 .. Len(native) /\ Unread[n] = native[n - Len(Reading)]
        BY <1>3, <2>1, <2>2, <3>1, <3>3
      <4> QED BY <4>1
    <3> QED BY <3>2, <3>3
  <2> QED BY <1>4, <2>2, <2>3, <2>5
<1> QED BY <1>6, <1>7 DEF NatSound

-----------------------------------------------------------------------------
(* The tree changes.                                                            *)

\* a change whose events evs are appended: no merge, and no directory beside what is unread
Grows(evs) ==
  /\ NatSound /\ FileEvents(Unread, toldPaths, tree)
  /\ system = "macOS" => AllDistinct(received) /\ AllDistinct(native)
  /\ Edit /\ UNCHANGED <<system, received, renamedSrc, fsView, toldPaths>>
  /\ native' = MergedAll(native, evs) /\ ~(Len(native') < Len(native) + Len(evs))
  /\ Unread = <<>> \/ \A k \in DOMAIN evs : ~IsDir(evs[k].path)

\* what is unread now, and the first of the events that wait
GrownTo(Q) ==
  /\ native' \in Seq(NatEvents) /\ Unread' = Q /\ Q \in Seq(NatEvents) /\ OneFlag(Q)
  /\ system = "Windows" => ~Is(Head(native'), "renamedTo")
  /\ system = "macOS" => AllDistinct(native')

LEMMA GrowsFacts ==
  ASSUME NEW evs, Grows(evs)
  PROVE  /\ Unread' = Reading \o native' /\ Reading \in Seq(NatEvents) /\ native \in Seq(NatEvents)
         /\ Unread = Reading \o native /\ Unread \in Seq(NatEvents) /\ OneFlag(Unread)
         /\ system = "macOS" => AllDistinct(native)
         /\ system = "Windows" /\ native # <<>> => ~Is(Head(native), "renamedTo")
         /\ CreatedAnew(Unread, fsView, InosOf(tree)) /\ OneOne(tree)
<1>1. NatTyped /\ UNCHANGED <<system, received, renamedSrc, fsView, toldPaths>>
  BY DEF Grows, NatSound
<1>2. Unread' = Reading \o native'
  BY <1>1, Untouched
<1>3. Reading \in Seq(NatEvents) /\ Unread \in Seq(NatEvents)
  BY <1>1, FrontTyped
<1> QED BY <1>1, <1>2, <1>3, TreeOneOne DEF Grows, Unread, NatTyped

LEMMA OneGrows ==
  ASSUME NEW e \in NatEvents, NEW f \in NatFlags, e.flags = {f}, f # "renamedTo", Grows(<<e>>)
  PROVE  GrownTo(Append(Unread, e))
<1>0. /\ Reading \in Seq(NatEvents) /\ native \in Seq(NatEvents) /\ Unread = Reading \o native
      /\ Unread \in Seq(NatEvents) /\ OneFlag(Reading \o native) /\ Unread' = Reading \o native'
      /\ system = "macOS" => AllDistinct(native)
      /\ system = "Windows" /\ native # <<>> => ~Is(Head(native), "renamedTo")
  <2> DEFINE evs == <<e>>
  <2>1. Grows(evs)
    OBVIOUS
  <2> HIDE DEF evs
  <2> QED BY <2>1, GrowsFacts
<1>1. ~Is(e, "renamedTo")
  BY FlagIs
<1>2. Len(<<e>>) = 1
  OBVIOUS
<1>3. native' = MergedAll(native, <<e>>) /\ ~(Len(native') < Len(native) + 1)
  BY <1>0, <1>2 DEF Grows
<1>4. Unmerged(native, e, native')
  BY <1>0, <1>3, OneFolded
<1>5. /\ native' \in Seq(NatEvents) /\ Reading \o native' = Append(Reading \o native, e)
      /\ OneFlag(Reading \o native')
      /\ Head(native') = IF native = <<>> THEN e ELSE Head(native)
      /\ system = "macOS" => AllDistinct(native')
  <2>1. Joined(Reading, native, e, native')
    BY <1>0, <1>4, UnreadGrows
  <2> QED BY <2>1, <1>0, <1>4 DEF Joined
<1>6. Append(Unread, e) \in Seq(NatEvents)
  BY <1>0, EventMore
<1>7. system = "Windows" => ~Is(Head(native'), "renamedTo")
  BY <1>0, <1>1, <1>5
<1> QED BY <1>0, <1>5, <1>6, <1>7 DEF GrownTo

LEMMA TwoGrow ==
  ASSUME NEW a \in NatEvents, NEW f \in NatFlags, a.flags = {f}, f # "renamedTo",
         NEW b \in NatEvents, NEW g \in NatFlags, b.flags = {g}, Grows(<<a, b>>)
  PROVE  GrownTo(Append(Append(Unread, a), b))
<1>0. /\ Reading \in Seq(NatEvents) /\ native \in Seq(NatEvents) /\ Unread = Reading \o native
      /\ Unread \in Seq(NatEvents) /\ OneFlag(Reading \o native) /\ Unread' = Reading \o native'
      /\ system = "macOS" => AllDistinct(native)
      /\ system = "Windows" /\ native # <<>> => ~Is(Head(native), "renamedTo")
  <2> DEFINE evs == <<a, b>>
  <2>1. Grows(evs)
    OBVIOUS
  <2> HIDE DEF evs
  <2> QED BY <2>1, GrowsFacts
<1>1. ~Is(a, "renamedTo")
  BY FlagIs
<1>2. Len(<<a, b>>) = 2
  OBVIOUS
<1>3. native' = MergedAll(native, <<a, b>>) /\ ~(Len(native') < Len(native) + 2)
  BY <1>0, <1>2 DEF Grows
<1>4. PICK m \in Seq(NatEvents) : Unmerged(native, a, m) /\ Unmerged(m, b, native')
  BY <1>0, <1>3, TwoFolded
<1>5. /\ Reading \o m = Append(Unread, a) /\ OneFlag(Reading \o m) /\ m # <<>>
      /\ Head(m) = IF native = <<>> THEN a ELSE Head(native)
      /\ system = "macOS" => AllDistinct(m)
  <2>1. Joined(Reading, native, a, m)
    BY <1>0, <1>4, UnreadGrows
  <2> QED BY <2>1, <1>0, <1>4 DEF Joined
<1>6. /\ native' \in Seq(NatEvents) /\ Reading \o native' = Append(Reading \o m, b)
      /\ OneFlag(Reading \o native') /\ Head(native') = Head(m)
      /\ system = "macOS" => AllDistinct(native')
  <2>1. Joined(Reading, m, b, native')
    BY <1>0, <1>4, <1>5, UnreadGrows
  <2> QED BY <2>1, <1>0, <1>4, <1>5 DEF Joined
<1>7. Append(Append(Unread, a), b) \in Seq(NatEvents)
  BY <1>0, EventMore
<1>8. system = "Windows" => ~Is(Head(native'), "renamedTo")
  BY <1>0, <1>1, <1>5, <1>6
<1> QED BY <1>0, <1>5, <1>6, <1>7, <1>8 DEF GrownTo

LEMMA ThreeGrow ==
  ASSUME NEW a \in NatEvents, NEW f \in NatFlags, a.flags = {f}, f # "renamedTo",
         NEW b \in NatEvents, NEW g \in NatFlags, b.flags = {g},
         NEW c \in NatEvents, NEW h \in NatFlags, c.flags = {h}, Grows(<<a, b, c>>)
  PROVE  GrownTo(Append(Append(Append(Unread, a), b), c))
<1>0. /\ Reading \in Seq(NatEvents) /\ native \in Seq(NatEvents) /\ Unread = Reading \o native
      /\ Unread \in Seq(NatEvents) /\ OneFlag(Reading \o native) /\ Unread' = Reading \o native'
      /\ system = "macOS" => AllDistinct(native)
      /\ system = "Windows" /\ native # <<>> => ~Is(Head(native), "renamedTo")
  <2> DEFINE evs == <<a, b, c>>
  <2>1. Grows(evs)
    OBVIOUS
  <2> HIDE DEF evs
  <2> QED BY <2>1, GrowsFacts
<1>1. ~Is(a, "renamedTo")
  BY FlagIs
<1>2. Len(<<a, b, c>>) = 3
  OBVIOUS
<1>3. native' = MergedAll(native, <<a, b, c>>) /\ ~(Len(native') < Len(native) + 3)
  BY <1>0, <1>2 DEF Grows
<1>4. PICK m \in Seq(NatEvents), n \in Seq(NatEvents) :
        Unmerged(native, a, m) /\ Unmerged(m, b, n) /\ Unmerged(n, c, native')
  BY <1>0, <1>3, ThreeFolded
<1>5. /\ Reading \o m = Append(Unread, a) /\ OneFlag(Reading \o m) /\ m # <<>>
      /\ Head(m) = IF native = <<>> THEN a ELSE Head(native)
      /\ system = "macOS" => AllDistinct(m)
  <2>1. Joined(Reading, native, a, m)
    BY <1>0, <1>4, UnreadGrows
  <2> QED BY <2>1, <1>0, <1>4 DEF Joined
<1>6. /\ Reading \o n = Append(Reading \o m, b) /\ OneFlag(Reading \o n) /\ n # <<>>
      /\ Head(n) = Head(m)
      /\ system = "macOS" => AllDistinct(n)
  <2>1. Joined(Reading, m, b, n)
    BY <1>0, <1>4, <1>5, UnreadGrows
  <2> QED BY <2>1, <1>0, <1>4, <1>5 DEF Joined
<1>7. /\ native' \in Seq(NatEvents) /\ Reading \o native' = Append(Reading \o n, c)
      /\ OneFlag(Reading \o native') /\ Head(native') = Head(n)
      /\ system = "macOS" => AllDistinct(native')
  <2>1. Joined(Reading, n, c, native')
    BY <1>0, <1>4, <1>6, UnreadGrows
  <2> QED BY <2>1, <1>0, <1>4, <1>6 DEF Joined
<1>8. Append(Append(Append(Unread, a), b), c) \in Seq(NatEvents)
  BY <1>0, EventMore
<1>9. system = "Windows" => ~Is(Head(native'), "renamedTo")
  BY <1>0, <1>1, <1>5, <1>6, <1>7
<1> QED BY <1>0, <1>5, <1>6, <1>7, <1>8, <1>9 DEF GrownTo

LEMMA GrownTyped ==
  ASSUME NEW evs, Grows(evs), NEW Q, GrownTo(Q), CreatedAnew(Q, fsView, InosOf(tree'))
  PROVE  /\ NatTyped'
         /\ FileEvents(Q, toldPaths, tree') => FilePhase'
<1>1. TreeSound' /\ InosKnown'
  BY EditKnown DEF Grows, NatSound, NatTyped
<1>2. /\ (HalfRead' <=> HalfRead) /\ toldPaths' \subseteq Paths /\ received' \in Seq(NatEvents)
      /\ HalfRead' => renamedSrc' \in Paths
  BY Untouched DEF Grows, NatSound
<1>3. /\ native' \in Seq(NatEvents) /\ Unread' = Q /\ OneFlag(Unread')
      /\ system' = "Windows" /\ native' # <<>> => ~Is(Head(native'), "renamedTo")
      /\ CreatedAnew(Unread', fsView', InosOf(tree'))
  BY DEF Grows, GrownTo
<1>6. system' = "Windows" => fsView' = {}
  BY DEF Grows, NatSound, NatTyped
<1>4. NatTyped'
  BY <1>1, <1>2, <1>3, <1>6 DEF NatTyped
<1>5. ASSUME FileEvents(Q, toldPaths, tree') PROVE FilePhase'
  <2>1. FileEvents(Unread', toldPaths', tree')
    BY <1>3, <1>5 DEF Grows
  <2>2. system' = "macOS" => AllDistinct(received') /\ AllDistinct(native')
    BY DEF Grows, GrownTo
  <2> QED BY <2>1, <2>2 DEF FilePhase
<1> QED BY <1>4, <1>5

LEMMA KindOf == \A p \in Paths : p \in Files \/ IsDir(p)
BY DEF Paths, IsDir

LEMMA CreateUnread ==
  ASSUME NEW p \in Paths, Create(p), Grows(ChangeEvents(tree, tree'))
  PROVE  NatSound'
<1>1. PICK i \in Inodes \ Used :
           /\ p # Top /\ p \notin DOMAIN tree /\ DOMAIN tree' = DOMAIN tree \cup {p}
           /\ tree'[p].ino = i /\ \A q \in DOMAIN tree : tree'[q] = tree[q]
           /\ ChangeEvents(tree, tree') = <<Ev(p, i, "created")>>
  BY CreateEvents DEF Grows, NatSound, NatTyped
<1> DEFINE e == Ev(p, i, "created")
<1>2. e \in NatEvents /\ e.path = p /\ e.ino = i /\ e.flags = {"created"} /\ Is(e, "created")
  BY EvTyped DEF NatFlags
<1>3. i \notin InosOf(tree)
  BY DEF Used, InosOf
<1>4. Grows(<<e>>)
  BY <1>1
<1> HIDE DEF e
<1>5. GrownTo(Append(Unread, e))
  BY <1>2, <1>4, OneGrows DEF NatFlags
<1>6. /\ CreatedAnew(Append(Unread, e), fsView, InosOf(tree'))
      /\ p \in Files => FileEvents(Append(Unread, e), toldPaths, tree')
  <2>1. /\ CreatedAnew(Unread, fsView, InosOf(tree)) => CreatedAnew(Append(Unread, e), fsView, InosOf(tree'))
        /\ FileEvents(Unread, toldPaths, tree) /\ p \in Files => FileEvents(Append(Unread, e), toldPaths, tree')
    BY <1>1, <1>2, <1>3, <1>4, GrowsFacts, AddCreated
  <2> QED BY <1>4, <2>1, GrowsFacts DEF Grows
<1>7. NatTyped' /\ (p \in Files => FilePhase')
  BY <1>4, <1>5, <1>6, GrownTyped
<1>8. CASE IsDir(p)
  <2>1. Unread = <<>>
    <3>1. 1 \in DOMAIN <<e>> /\ <<e>>[1] = e
      OBVIOUS
    <3> QED BY <1>2, <1>4, <1>8, <3>1 DEF Grows
  <2>2. toldPaths = DOMAIN tree
    BY <1>4, <2>1, NothingUnread DEF Grows
  <2>3. Unread' = Append(<<>>, e)
    BY <1>5, <2>1 DEF GrownTo
  <2>4. Len(Unread') = 1 /\ Unread'[1] = e
    <3>1. Append(<<>>, e) = <<e>>
      OBVIOUS
    <3> QED BY <2>3, <3>1
  <2>5. toldPaths' = toldPaths
    BY <1>4 DEF Grows
  <2>6. DirPhase'
    BY <1>1, <1>2, <1>8, <2>2, <2>4, <2>5 DEF DirPhase, IsDir
  <2> QED BY <1>7, <2>6 DEF NatSound
<1> QED BY <1>7, <1>8, KindOf DEF NatSound

LEMMA DeleteUnread ==
  ASSUME NEW p \in Paths, Delete(p), Grows(ChangeEvents(tree, tree'))
  PROVE  NatSound'
<1>1. /\ p \in DOMAIN tree /\ DOMAIN tree' = DOMAIN tree \ {p}
      /\ \A q \in DOMAIN tree' : tree'[q] = tree[q]
      /\ ChangeEvents(tree, tree') = <<Ev(p, tree[p].ino, "removed")>>
  BY DeleteEvents DEF Grows, NatSound, NatTyped
<1> DEFINE i == tree[p].ino
           e == Ev(p, i, "removed")
<1>2. e \in NatEvents /\ e.path = p /\ e.ino = i /\ e.flags = {"removed"} /\ Is(e, "removed")
  <2>1. i \in Inodes \cup {"top"}
    BY <1>1 DEF Grows, NatSound, NatTyped, InosKnown
  <2> HIDE DEF i
  <2> QED BY <2>1, EvTyped DEF NatFlags
<1>4. Grows(<<e>>)
  BY <1>1
<1> HIDE DEF e
<1>5. GrownTo(Append(Unread, e))
  BY <1>2, <1>4, OneGrows DEF NatFlags
<1>6. /\ CreatedAnew(Append(Unread, e), fsView, InosOf(tree'))
      /\ p \in Files => FileEvents(Append(Unread, e), toldPaths, tree')
  <2>1. /\ CreatedAnew(Unread, fsView, InosOf(tree)) => CreatedAnew(Append(Unread, e), fsView, InosOf(tree'))
        /\ FileEvents(Unread, toldPaths, tree) /\ p \in Files => FileEvents(Append(Unread, e), toldPaths, tree')
    BY <1>1, <1>2, <1>4, GrowsFacts, AddRemoved
  <2> QED BY <1>4, <2>1, GrowsFacts DEF Grows
<1>7. NatTyped' /\ (p \in Files => FilePhase')
  BY <1>4, <1>5, <1>6, GrownTyped
<1>8. CASE IsDir(p)
  <2>1. Unread = <<>>
    <3>1. 1 \in DOMAIN <<e>> /\ <<e>>[1] = e
      OBVIOUS
    <3> QED BY <1>2, <1>4, <1>8, <3>1 DEF Grows
  <2>2. toldPaths = DOMAIN tree
    BY <1>4, <2>1, NothingUnread DEF Grows
  <2>3. Unread' = Append(<<>>, e)
    BY <1>5, <2>1 DEF GrownTo
  <2>4. Len(Unread') = 1 /\ Unread'[1] = e
    <3>1. Append(<<>>, e) = <<e>>
      OBVIOUS
    <3> QED BY <2>3, <3>1
  <2>5. toldPaths' = toldPaths
    BY <1>4 DEF Grows
  <2>6. DirPhase'
    BY <1>1, <1>2, <1>8, <2>2, <2>4, <2>5 DEF DirPhase, IsDir
  <2> QED BY <1>7, <2>6 DEF NatSound
<1> QED BY <1>7, <1>8, KindOf DEF NatSound

LEMMA SameInos ==
  ASSUME NEW Q, NEW K, NEW T, NEW T2, DOMAIN T2 = DOMAIN T, \A y \in DOMAIN T : T2[y].ino = T[y].ino
  PROVE  /\ InosOf(T2) = InosOf(T)
         /\ FileEvents(Q, K, T) => FileEvents(Q, K, T2)
<1>1. InosOf(T2) = InosOf(T)
  BY DEF InosOf
<1>2. Placed(Q, T) => Placed(Q, T2)
  BY DEF Placed
<1> QED BY <1>1, <1>2 DEF FileEvents

LEMMA ModifyUnread ==
  ASSUME NEW p \in Paths, Modify(p), Grows(ChangeEvents(tree, tree'))
  PROVE  NatSound'
<1>1. /\ p \in Files /\ p \in DOMAIN tree /\ DOMAIN tree' = DOMAIN tree
      /\ \A q \in DOMAIN tree : tree'[q].ino = tree[q].ino
      /\ ChangeEvents(tree, tree') \in {<<>>, <<Ev(p, tree[p].ino, "modified")>>}
  BY ModifyEvents DEF Grows, NatSound, NatTyped
<1> DEFINE i == tree[p].ino
           e == Ev(p, i, "modified")
<1>2. e \in NatEvents /\ e.path = p /\ e.ino = i /\ e.flags = {"modified"}
  <2>1. i \in Inodes \cup {"top"}
    BY <1>1 DEF Grows, NatSound, NatTyped, InosKnown
  <2> HIDE DEF i
  <2> QED BY <2>1, EvTyped DEF NatFlags
<1>3. CASE ChangeEvents(tree, tree') = <<>>
  <2>1. Grows(<<>>)
    BY <1>3
  <2>2. native' = native
    BY <2>1, NoneFolded DEF Grows
  <2>3. Unread' = Unread
    BY <2>1, <2>2, GrowsFacts
  <2>4. FileEvents(Unread, toldPaths, tree') /\ CreatedAnew(Unread, fsView, InosOf(tree'))
    <3>1. FileEvents(Unread, toldPaths, tree) /\ CreatedAnew(Unread, fsView, InosOf(tree))
      BY <2>1, GrowsFacts DEF Grows
    <3>2. InosOf(tree') = InosOf(tree) /\ FileEvents(Unread, toldPaths, tree')
      BY <1>1, <3>1, SameInos
    <3> QED BY <3>1, <3>2
  <2>5. TreeSound' /\ InosKnown'
    BY <2>1, EditKnown DEF Grows, NatSound, NatTyped
  <2>6. UNCHANGED <<system, received, renamedSrc, fsView, toldPaths>> /\ NatTyped
    BY <2>1 DEF Grows, NatSound
  <2>7. HalfRead' <=> HalfRead
    BY <2>6, Untouched
  <2>8. NatTyped'
    BY <2>2, <2>3, <2>4, <2>5, <2>6, <2>7 DEF NatTyped
  <2>9. FilePhase'
    <3>1. FileEvents(Unread', toldPaths', tree')
      BY <2>3, <2>4, <2>6
    <3> QED BY <2>1, <2>2, <2>6, <3>1 DEF FilePhase, Grows
  <2> QED BY <2>8, <2>9 DEF NatSound
<1>4. CASE ChangeEvents(tree, tree') = <<e>>
  <2>1. Grows(<<e>>)
    BY <1>4
  <2> HIDE DEF e
  <2>2. GrownTo(Append(Unread, e))
    BY <1>2, <2>1, OneGrows DEF NatFlags
  <2>3. /\ CreatedAnew(Append(Unread, e), fsView, InosOf(tree'))
        /\ FileEvents(Append(Unread, e), toldPaths, tree')
    <3>1. /\ CreatedAnew(Unread, fsView, InosOf(tree)) => CreatedAnew(Append(Unread, e), fsView, InosOf(tree'))
          /\ FileEvents(Unread, toldPaths, tree) => FileEvents(Append(Unread, e), toldPaths, tree')
      BY <1>1, <1>2, <2>1, GrowsFacts, AddModified
    <3> QED BY <2>1, <3>1, GrowsFacts DEF Grows
  <2> QED BY <2>1, <2>2, <2>3, GrownTyped DEF NatSound
<1> QED BY <1>1, <1>3, <1>4

\* a file moves to a path that is free: on Windows, into another directory, as two events
LEMMA MovedAway ==
  ASSUME NEW Q \in Seq(NatEvents), NEW K, NEW V, NEW T, NEW T2, NEW p \in DOMAIN T, NEW q \in Paths,
         NEW a \in NatEvents, a.path = p, a.ino = T[p].ino,
         NEW b \in NatEvents, b.path = q, b.ino = T[p].ino,
         \/ a.flags = {"renamed"} /\ b.flags = {"renamedTo"}
         \/ a.flags = {"removed"} /\ b.flags = {"created"},
         OneOne(T), T[p].ino \in Inodes, p \in Files, q \in Files, q \notin DOMAIN T,
         DOMAIN T2 = (DOMAIN T \ {p}) \cup {q}, T2[q].ino = T[p].ino,
         \A y \in DOMAIN T \ {p} : T2[y].ino = T[y].ino,
         CreatedAnew(Q, V, InosOf(T)), FileEvents(Q, K, T)
  PROVE  /\ CreatedAnew(Append(Append(Q, a), b), V, InosOf(T2))
         /\ FileEvents(Append(Append(Q, a), b), K, T2)
<1>1. CASE a.flags = {"renamed"} /\ b.flags = {"renamedTo"}
  <2>1. InosOf(T2) = InosOf(T)
    <3>1. ASSUME NEW y \in DOMAIN T PROVE T[y].ino \in InosOf(T2)
      <4>1. \E z \in DOMAIN T2 : T2[z].ino = T[y].ino
        OBVIOUS
      <4> QED BY <4>1 DEF InosOf
    <3>2. ASSUME NEW y \in DOMAIN T2 PROVE T2[y].ino \in InosOf(T)
      <4>1. \E z \in DOMAIN T : T2[y].ino = T[z].ino
        OBVIOUS
      <4> QED BY <4>1 DEF InosOf
    <3> QED BY <3>1, <3>2 DEF InosOf
  <2> QED BY <1>1, <2>1, AddMoved
<1>2. CASE a.flags = {"removed"} /\ b.flags = {"created"}
  <2> DEFINE T1 == [y \in DOMAIN T \ {p} |-> T[y]]
             R == Append(Q, a)
  <2>1. DOMAIN T1 = DOMAIN T \ {p} /\ \A y \in DOMAIN T1 : T1[y] = T[y]
    OBVIOUS
  <2> HIDE DEF T1
  <2>2. OneOne(T1) /\ T[p].ino \notin InosOf(T1)
    BY <2>1 DEF OneOne, InosOf
  <2>3. CreatedAnew(R, V, InosOf(T1)) /\ FileEvents(R, K, T1)
    BY <1>2, <2>1, AddRemoved
  <2>4. R \in Seq(NatEvents)
    BY EventMore
  <2> HIDE DEF R
  <2>5. q \notin DOMAIN T1 /\ DOMAIN T2 = DOMAIN T1 \cup {q} /\ \A y \in DOMAIN T1 : T2[y].ino = T1[y].ino
    BY <2>1
  <2>6. /\ CreatedAnew(R, V, InosOf(T1)) => CreatedAnew(Append(R, b), V, InosOf(T2))
        /\ FileEvents(R, K, T1) /\ q \in Files => FileEvents(Append(R, b), K, T2)
    <3> DEFINE i == T[p].ino
    <3>1. i \in Inodes /\ b.ino = i /\ T2[q].ino = i /\ i \notin InosOf(T1)
      BY <2>2
    <3> HIDE DEF i
    <3> QED BY <1>2, <2>2, <2>4, <2>5, <3>1, AddCreated
  <2> QED BY <2>3, <2>6 DEF R
<1> QED BY <1>1, <1>2

LEMMA MoveUnread ==
  ASSUME NEW p, NEW q, Move(p, q), Grows(ChangeEvents(tree, tree'))
  PROVE  NatSound'
<1> DEFINE i == tree[p].ino
           m == MoveOf(p, q, i)
<1>1. /\ p \in Files /\ q \in Files /\ p # q /\ p \in DOMAIN tree
      /\ DOMAIN tree' = (DOMAIN tree \ {p}) \cup {q} /\ tree'[q].ino = tree[p].ino
      /\ \A r \in DOMAIN tree \ {p, q} : tree'[r] = tree[r]
      /\ ChangeEvents(tree, tree') =
           IF q \in DOMAIN tree THEN <<Ev(q, tree[q].ino, "removed")>> \o m ELSE m
  BY MoveEvents DEF Grows, NatSound, NatTyped
<1>2. TreeSound /\ InosKnown /\ FileEvents(Unread, toldPaths, tree)
  BY DEF Grows, NatSound, NatTyped
<1>3. p \in Paths /\ q \in Paths /\ p # Top /\ i \in Inodes
  <2>1. p \in Paths /\ q \in Paths /\ p # Top
    BY <1>1, Kinds DEF Paths
  <2> QED BY <1>1, <1>2, <2>1 DEF TreeSound, InosKnown
<1> HIDE DEF i
<1>4. PICK a \in NatEvents, b \in NatEvents, f \in NatFlags, g \in NatFlags :
           /\ m = <<a, b>> /\ a.path = p /\ a.ino = i /\ b.path = q /\ b.ino = i
           /\ a.flags = {f} /\ b.flags = {g} /\ <<f, g>> \in {<<"renamed", "renamedTo">>, <<"removed", "created">>}
  <2>1. {"renamed", "renamedTo", "removed", "created"} \subseteq NatFlags
    BY DEF NatFlags
  <2>2. CASE system = "Windows" /\ DirOf(p) # DirOf(q)
    <3>1. m = <<Ev(p, i, "removed"), Ev(q, i, "created")>>
      BY <2>2 DEF MoveOf
    <3> QED BY <1>3, <2>1, <3>1, EvTyped
  <2>3. CASE ~(system = "Windows" /\ DirOf(p) # DirOf(q))
    <3>1. m = <<Ev(p, i, "renamed"), Ev(q, i, "renamedTo")>>
      BY <2>3 DEF MoveOf
    <3> QED BY <1>3, <2>1, <3>1, EvTyped
  <2> QED BY <2>2, <2>3
<1>5. /\ f # "renamedTo"
      /\ \/ a.flags = {"renamed"} /\ b.flags = {"renamedTo"}
         \/ a.flags = {"removed"} /\ b.flags = {"created"}
  BY <1>4
<1> HIDE DEF m
<1> DEFINE T1 == [y \in DOMAIN tree \ {q} |-> tree[y]]
<1>6. DOMAIN T1 = DOMAIN tree \ {q} /\ \A y \in DOMAIN T1 : T1[y] = tree[y]
  OBVIOUS
<1> HIDE DEF T1
<1>7. OneOne(tree) /\ OneOne(T1)
  <2>1. OneOne(tree)
    BY <1>2, TreeOneOne
  <2> QED BY <1>6, <2>1 DEF OneOne
<1>8. CreatedAnew(Unread, fsView, InosOf(tree)) /\ Unread \in Seq(NatEvents)
  <2> DEFINE evs == ChangeEvents(tree, tree')
  <2>1. Grows(evs)
    OBVIOUS
  <2> HIDE DEF evs
  <2> QED BY <2>1, GrowsFacts
<1>9. ASSUME NEW Q \in Seq(NatEvents), CreatedAnew(Q, fsView, InosOf(T1)), FileEvents(Q, toldPaths, T1)
      PROVE  /\ CreatedAnew(Append(Append(Q, a), b), fsView, InosOf(tree'))
             /\ FileEvents(Append(Append(Q, a), b), toldPaths, tree')
  <2>1. /\ p \in DOMAIN T1 /\ T1[p].ino = i /\ q \notin DOMAIN T1
        /\ DOMAIN tree' = (DOMAIN T1 \ {p}) \cup {q} /\ tree'[q].ino = i
        /\ \A y \in DOMAIN T1 \ {p} : tree'[y].ino = T1[y].ino
    BY <1>1, <1>6 DEF i
  <2>2. a.ino = T1[p].ino /\ b.ino = T1[p].ino /\ T1[p].ino \in Inodes /\ tree'[q].ino = T1[p].ino
    BY <1>3, <1>4, <2>1
  <2> QED BY <1>1, <1>3, <1>4, <1>5, <1>7, <1>9, <2>1, <2>2, MovedAway
<1>10. CASE q \in DOMAIN tree
  <2> DEFINE c == Ev(q, tree[q].ino, "removed")
  <2>1. c \in NatEvents /\ c.path = q /\ c.ino = tree[q].ino /\ c.flags = {"removed"}
    BY <1>2, <1>3, <1>10, EvTyped DEF InosKnown, NatFlags
  <2>2. ChangeEvents(tree, tree') = <<c>> \o <<a, b>>
    BY <1>1, <1>4, <1>10
  <2> HIDE DEF c
  <2>3. Grows(<<c, a, b>>)
    BY <2>1, <2>2, ThreeEvents
  <2>4. GrownTo(Append(Append(Append(Unread, c), a), b))
    <3>1. "removed" \in NatFlags /\ "removed" # "renamedTo"
      BY DEF NatFlags
    <3> QED BY <1>4, <2>1, <2>3, <3>1, ThreeGrow
  <2>5. CreatedAnew(Append(Unread, c), fsView, InosOf(T1)) /\ FileEvents(Append(Unread, c), toldPaths, T1)
    <3>1. \A y \in DOMAIN T1 : T1[y].ino = tree[y].ino
      BY <1>6
    <3> QED BY <1>1, <1>2, <1>6, <1>7, <1>8, <1>10, <2>1, <3>1, AddRemoved
  <2>6. Append(Unread, c) \in Seq(NatEvents)
    BY <1>8, <2>1, EventMore
  <2> DEFINE Q == Append(Append(Append(Unread, c), a), b)
  <2>7. CreatedAnew(Q, fsView, InosOf(tree')) /\ FileEvents(Q, toldPaths, tree')
    BY <1>9, <2>5, <2>6
  <2> HIDE DEF Q
  <2> QED BY <2>3, <2>4, <2>7, GrownTyped DEF Q, NatSound
<1>11. CASE q \notin DOMAIN tree
  <2>1. Grows(<<a, b>>)
    BY <1>1, <1>4, <1>11
  <2>2. GrownTo(Append(Append(Unread, a), b))
    BY <1>4, <1>5, <2>1, TwoGrow
  <2>3. CreatedAnew(Unread, fsView, InosOf(T1)) /\ FileEvents(Unread, toldPaths, T1)
    <3>1. DOMAIN T1 = DOMAIN tree /\ \A y \in DOMAIN tree : T1[y].ino = tree[y].ino
      BY <1>6, <1>11
    <3>2. InosOf(T1) = InosOf(tree) /\ FileEvents(Unread, toldPaths, T1)
      BY <1>2, <3>1, SameInos
    <3> QED BY <1>8, <3>2
  <2> DEFINE Q == Append(Append(Unread, a), b)
  <2>4. CreatedAnew(Q, fsView, InosOf(tree')) /\ FileEvents(Q, toldPaths, tree')
    BY <1>8, <1>9, <2>3
  <2> HIDE DEF Q
  <2> QED BY <2>1, <2>2, <2>4, GrownTyped DEF Q, NatSound
<1> QED BY <1>10, <1>11

LEMMA MoveDirUnread ==
  ASSUME NEW p, NEW q, MoveDir(p, q), Grows(ChangeEvents(tree, tree'))
  PROVE  NatSound'
<1> DEFINE i == tree[p].ino
           a == Ev(p, i, "renamed")
           b == Ev(q, i, "renamedTo")
           kids == Children(q) \cap DOMAIN tree'
<1>1. /\ p \in Subs /\ q \in Subs /\ p \in DOMAIN tree /\ Used' = Used
      /\ ChangeEvents(tree, tree') = <<a, b>>
      /\ DOMAIN tree' = (((DOMAIN tree \ {p}) \cup {q}) \ {p \o <<Last(k)>> : k \in kids}) \cup kids
  BY MoveDirEvents DEF Grows, NatSound, NatTyped
<1>2. p \in Paths /\ q \in Paths /\ i \in Inodes \cup {"top"} /\ OneOne(tree)
  BY <1>1, TreeOneOne DEF Paths, Grows, NatSound, NatTyped, InosKnown
<1>3. Grows(<<a, b>>)
  BY <1>1
<1>4. /\ a \in NatEvents /\ a.path = p /\ a.ino = tree[p].ino /\ a.flags = {"renamed"} /\ Is(a, "renamed")
      /\ b \in NatEvents /\ b.path = q /\ b.ino = tree[p].ino /\ b.flags = {"renamedTo"} /\ Is(b, "renamedTo")
  <2>1. i = tree[p].ino
    OBVIOUS
  <2>2. \A f \in {"renamed", "renamedTo"} : f \in NatFlags
    BY DEF NatFlags
  <2> HIDE DEF i
  <2> QED BY <1>2, <2>1, <2>2, EvTyped
<1> HIDE DEF i, a, b
<1>5. Unread = <<>> /\ received = <<>>
  <2>1. 1 \in DOMAIN <<a, b>> /\ <<a, b>>[1] = a
    OBVIOUS
  <2>2. Unread = <<>>
    BY <1>1, <1>3, <1>4, <2>1 DEF Grows, IsDir
  <2>3. Reading = <<>>
    <3> DEFINE evs == <<a, b>>
    <3>1. Grows(evs)
      BY <1>3
    <3> HIDE DEF evs
    <3>2. Reading \in Seq(NatEvents) /\ native \in Seq(NatEvents) /\ Unread = Reading \o native
      BY <3>1, GrowsFacts
    <3> DEFINE S == Reading
               N == native
    <3>3. S \in Seq(NatEvents) /\ N \in Seq(NatEvents) /\ S \o N = <<>>
      BY <2>2, <3>2
    <3> HIDE DEF S, N
    <3>4. S = <<>>
      BY <3>3, ConcatEqualIffEmpty
    <3> QED BY <3>4 DEF S
  <2>4. received \in Seq(NatEvents)
    BY <1>3 DEF Grows, NatSound, NatTyped
  <2>5. ~HalfRead
    <3>1. ASSUME HalfRead PROVE FALSE
      <4>1. <<Ev(renamedSrc, Head(received).ino, "renamed")>> \o received = <<>>
        BY <2>3, <3>1 DEF Reading
      <4>2. Ev(renamedSrc, Head(received).ino, "renamed") \in NatEvents
        <5>1. renamedSrc \in Paths /\ Head(received).ino \in Inodes \cup {"top"} /\ "renamed" \in NatFlags
          BY <1>3, <2>4, <3>1, HeadIn DEF Grows, NatSound, NatTyped, HalfRead, NatFlags
        <5> QED BY <5>1, EvTyped
      <4>3. <<Ev(renamedSrc, Head(received).ino, "renamed")>> \in Seq(NatEvents)
        BY <4>2, OneEvent
      <4>4. received = <<>>
        BY <2>4, <4>1, <4>3, ConcatEqualIffEmpty
      <4> QED BY <3>1, <4>4 DEF HalfRead
    <3> QED BY <3>1
  <2> QED BY <2>2, <2>3, <2>5 DEF Reading
<1>6. GrownTo(Append(Append(Unread, a), b))
  <2>1. "renamed" \in NatFlags /\ "renamedTo" \in NatFlags /\ "renamed" # "renamedTo"
    BY DEF NatFlags
  <2> QED BY <1>3, <1>4, <2>1, TwoGrow
<1>7. Unread' = <<a, b>>
  <2>1. Append(<<>>, a) = <<a>>
    OBVIOUS
  <2>2. Append(<<a>>, b) = <<a, b>>
    <3>1. <<a>> \in Seq(NatEvents) /\ <<a>> \o <<b>> = <<a, b>>
      BY <1>4, OneEvent, Concat1
    <3> QED BY <1>4, <3>1, AppendIsConcat
  <2> QED BY <1>5, <1>6, <2>1, <2>2 DEF GrownTo
<1>8. CreatedAnew(Append(Append(Unread, a), b), fsView, InosOf(tree'))
  <2>1. CreatedAnew(Unread, fsView, InosOf(tree)) /\ Unread \in Seq(NatEvents)
    <3> DEFINE evs == <<a, b>>
    <3>1. Grows(evs)
      BY <1>3
    <3> HIDE DEF evs
    <3> QED BY <3>1, GrowsFacts
  <2>2. InosOf(tree') = InosOf(tree)
    BY <1>1 DEF Used, InosOf
  <2> QED BY <1>1, <1>2, <1>4, <2>1, <2>2, AddMoved
<1>9. NatTyped'
  BY <1>3, <1>6, <1>8, GrownTyped
<1>10. toldPaths' = DOMAIN tree /\ received' = <<>>
  BY <1>3, <1>5, NothingUnread DEF Grows
<1>11. DOMAIN tree' = MovedTo(toldPaths, p, q)'
  <2>1. MovedTo(toldPaths, p, q)' = (((toldPaths' \ {p}) \cup {q}) \ {p \o <<Last(k)>> : k \in kids}) \cup kids
    BY DEF MovedTo, SubMoved
  <2> QED BY <1>1, <1>10, <2>1
<1>12. DirPhase'
  <2>1. Len(Unread') = 2 /\ Unread'[1] = a /\ Unread'[2] = b
    BY <1>7
  <2>2. MovedTo(toldPaths, p, q)' = MovedTo(toldPaths, Unread[1].path, Unread[2].path)'
    BY <1>4, <2>1 DEF MovedTo, SubMoved
  <2> QED BY <1>1, <1>4, <1>10, <1>11, <2>1, <2>2 DEF DirPhase
<1> QED BY <1>9, <1>12 DEF NatSound

LEMMA ChangesTyped ==
  ASSUME TreeSound, InosKnown, Edit
  PROVE  ChangeEvents(tree, tree') \in Seq(NatEvents)
<1>0. NatFlags = {"created", "removed", "renamed", "renamedTo", "modified"}
  BY DEF NatFlags
<1>1. ASSUME NEW p \in Paths, Create(p) PROVE ChangeEvents(tree, tree') \in Seq(NatEvents)
  <2>1. PICK i \in Inodes \ Used : ChangeEvents(tree, tree') = <<Ev(p, i, "created")>>
    BY <1>1, CreateEvents
  <2>2. Ev(p, i, "created") \in NatEvents
    BY <1>0, EvTyped
  <2> QED BY <2>1, <2>2, OneEvent
<1>2. ASSUME NEW p \in Paths, Modify(p) PROVE ChangeEvents(tree, tree') \in Seq(NatEvents)
  <2>1. p \in DOMAIN tree /\ ChangeEvents(tree, tree') \in {<<>>, <<Ev(p, tree[p].ino, "modified")>>}
    BY <1>2, ModifyEvents
  <2>2. Ev(p, tree[p].ino, "modified") \in NatEvents
    BY <1>0, <2>1, EvTyped DEF InosKnown
  <2> QED BY <2>1, <2>2, OneEvent, NoneYet
<1>3. ASSUME NEW p \in Paths, Delete(p) PROVE ChangeEvents(tree, tree') \in Seq(NatEvents)
  <2>1. p \in DOMAIN tree /\ ChangeEvents(tree, tree') = <<Ev(p, tree[p].ino, "removed")>>
    BY <1>3, DeleteEvents
  <2>2. Ev(p, tree[p].ino, "removed") \in NatEvents
    BY <1>0, <2>1, EvTyped DEF InosKnown
  <2> QED BY <2>1, <2>2, OneEvent
<1>4. ASSUME NEW p, NEW q, Move(p, q) PROVE ChangeEvents(tree, tree') \in Seq(NatEvents)
  <2> DEFINE i == tree[p].ino
             m == MoveOf(p, q, i)
  <2>1. /\ p \in Files /\ q \in Files /\ p \in DOMAIN tree
        /\ ChangeEvents(tree, tree') =
             IF q \in DOMAIN tree THEN <<Ev(q, tree[q].ino, "removed")>> \o m ELSE m
    BY <1>4, MoveEvents
  <2>2. p \in Paths /\ q \in Paths /\ i \in Inodes \cup {"top"}
    BY <2>1 DEF Paths, InosKnown
  <2> HIDE DEF i
  <2>3. m \in Seq(NatEvents)
    <3>1. /\ Ev(p, i, "removed") \in NatEvents /\ Ev(q, i, "created") \in NatEvents
          /\ Ev(p, i, "renamed") \in NatEvents /\ Ev(q, i, "renamedTo") \in NatEvents
      BY <1>0, <2>2, EvTyped
    <3>2. /\ <<Ev(p, i, "removed"), Ev(q, i, "created")>> \in Seq(NatEvents)
          /\ <<Ev(p, i, "renamed"), Ev(q, i, "renamedTo")>> \in Seq(NatEvents)
      BY <3>1, TwoEvents
    <3> QED BY <3>2 DEF MoveOf
  <2> HIDE DEF m
  <2>4. CASE q \in DOMAIN tree
    <3> DEFINE c == Ev(q, tree[q].ino, "removed")
    <3>1. c \in NatEvents
      BY <1>0, <2>2, <2>4, EvTyped DEF InosKnown
    <3>2. ChangeEvents(tree, tree') = <<c>> \o m
      BY <2>1, <2>4
    <3> HIDE DEF c
    <3> QED BY <2>3, <3>1, <3>2, OneEvent, ConcatProperties
  <2> QED BY <2>1, <2>3, <2>4
<1>5. ASSUME NEW p, NEW q, MoveDir(p, q) PROVE ChangeEvents(tree, tree') \in Seq(NatEvents)
  <2> DEFINE i == tree[p].ino
  <2>1. /\ p \in Subs /\ q \in Subs /\ p \in DOMAIN tree
        /\ ChangeEvents(tree, tree') = <<Ev(p, i, "renamed"), Ev(q, i, "renamedTo")>>
    BY <1>5, MoveDirEvents
  <2>2. p \in Paths /\ q \in Paths /\ i \in Inodes \cup {"top"}
    BY <2>1 DEF Paths, InosKnown
  <2> HIDE DEF i
  <2>3. Ev(p, i, "renamed") \in NatEvents /\ Ev(q, i, "renamedTo") \in NatEvents
    BY <1>0, <2>2, EvTyped
  <2> QED BY <2>1, <2>3, TwoEvents
<1> QED BY <1>1, <1>2, <1>3, <1>4, <1>5 DEF Edit

LEMMA EditFollows ==
  ASSUME NatInv, NatEdit, UNCHANGED system
  PROVE  NatInv'
<1> DEFINE evs == ChangeEvents(tree, tree')
<1>1. /\ Edit /\ UNCHANGED <<system, received, renamedSrc, fsView, toldPaths, splitRename>>
      /\ native' = MergedAll(native, evs)
      /\ blended' = (blended \/ Len(native') < Len(native) + Len(evs))
      /\ dirRaced' = (dirRaced \/ (Open # <<>> /\ \E k \in DOMAIN (Open \o evs) :
                                                  IsDir((Open \o evs)[k].path)))
  BY DEF NatEdit, MergedAll
<1> SUFFICES ASSUME ~dirRaced', ~splitRename', ~blended' PROVE NatSound'
  BY DEF NatInv
<1>2. /\ NatSound /\ ~(Len(native') < Len(native) + Len(evs))
      /\ ~(Open # <<>> /\ \E k \in DOMAIN (Open \o evs) : IsDir((Open \o evs)[k].path))
  BY <1>1 DEF NatInv
<1>3. evs \in Seq(NatEvents)
  BY <1>1, <1>2, ChangesTyped DEF NatSound, NatTyped
<1>4. Grows(ChangeEvents(tree, tree'))
  <2> HIDE DEF evs
  <2>1. /\ FileEvents(Unread, toldPaths, tree)
        /\ system = "macOS" => AllDistinct(received) /\ AllDistinct(native)
        /\ Unread = <<>> \/ \A k \in DOMAIN evs : ~IsDir(evs[k].path)
    BY <1>2, <1>3, DirsFirst
  <2>2. Grows(evs)
    BY <1>1, <1>2, <2>1 DEF Grows
  <2> QED BY <2>2 DEF evs
<1>5. Edit
  BY <1>1
<1> QED BY <1>4, <1>5, CreateUnread, ModifyUnread, DeleteUnread, MoveUnread, MoveDirUnread DEF Edit

-----------------------------------------------------------------------------
(* A callback or a read takes the first events.                                 *)

LEMMA PartOf ==
  ASSUME NEW s \in Seq(NatEvents), NEW n \in 1 .. Len(s)
  PROVE  LET a == SubSeq(s, 1, n)
             b == SubSeq(s, n + 1, Len(s))
         IN  /\ a \in Seq(NatEvents) /\ b \in Seq(NatEvents) /\ a \o b = s
             /\ a # <<>> /\ Head(a) = Head(s) /\ Len(a) = n /\ Len(b) = Len(s) - n
             /\ b # <<>> => n < Len(s) /\ Head(b) = s[n + 1]
             /\ AllDistinct(s) => AllDistinct(a) /\ AllDistinct(b)
<1> DEFINE a == SubSeq(s, 1, n)
           b == SubSeq(s, n + 1, Len(s))
<1>1. Len(s) \in Nat /\ n \in Nat /\ 1 <= n /\ n <= Len(s) /\ DOMAIN s = 1 .. Len(s) /\ s # <<>>
  BY EmptySeq, LenProperties
<1>2. /\ a \in Seq(NatEvents) /\ Len(a) = n /\ DOMAIN a = 1 .. n
      /\ \A k \in 1 .. n : a[k] = s[k]
  <2>1. \A k \in 1 .. n : k \in 1 .. Len(s) /\ s[k] \in NatEvents
    BY <1>1, ElementOfSeq
  <2>2. /\ a \in Seq(NatEvents) /\ Len(a) = IF 1 <= n THEN n - 1 + 1 ELSE 0
        /\ \A i \in 1 .. n - 1 + 1 : a[i] = s[1 + i - 1]
    BY <1>1, <2>1, SubSeqProperties
  <2>3. Len(a) = n /\ \A k \in 1 .. n : a[k] = s[k]
    BY <1>1, <2>2
  <2> QED BY <2>2, <2>3, LenProperties
<1>3. /\ b \in Seq(NatEvents) /\ Len(b) = Len(s) - n /\ DOMAIN b = 1 .. Len(s) - n
      /\ \A k \in 1 .. Len(s) - n : b[k] = s[n + k]
  <2>1. \A k \in n + 1 .. Len(s) : k \in 1 .. Len(s) /\ s[k] \in NatEvents
    BY <1>1, ElementOfSeq
  <2>2. /\ b \in Seq(NatEvents) /\ Len(b) = (IF n + 1 <= Len(s) THEN Len(s) - (n + 1) + 1 ELSE 0)
        /\ \A i \in 1 .. Len(s) - (n + 1) + 1 : b[i] = s[n + 1 + i - 1]
    BY <1>1, <2>1, SubSeqProperties
  <2> DEFINE L == Len(s)
             l == Len(b)
  <2>3. L \in Nat /\ n \in Nat /\ n <= L /\ l = (IF n + 1 <= L THEN L - (n + 1) + 1 ELSE 0)
    BY <1>1, <2>2
  <2> HIDE DEF L, l, b
  <2>4. l = L - n /\ L - (n + 1) + 1 = L - n
    BY <2>3
  <2>5. ASSUME NEW k \in 1 .. L - n PROVE b[k] = s[n + k]
    <3>1. k \in 1 .. L - (n + 1) + 1 /\ n + 1 + k - 1 = n + k
      BY <2>3, <2>4
    <3> QED BY <2>2, <3>1 DEF L
  <2> QED BY <2>2, <2>4, <2>5, LenProperties DEF L, l
<1> HIDE DEF a, b
<1>4. a \o b = s
  <2>1. a \o b \in Seq(NatEvents) /\ Len(a \o b) = Len(s)
        /\ \A i \in 1 .. Len(s) : (a \o b)[i] = IF i <= n THEN a[i] ELSE b[i - n]
    <3>1. /\ a \o b \in Seq(NatEvents) /\ Len(a \o b) = Len(a) + Len(b)
          /\ \A i \in 1 .. Len(a) + Len(b) : (a \o b)[i] = IF i <= Len(a) THEN a[i] ELSE b[i - Len(a)]
      BY <1>2, <1>3, ConcatProperties
    <3>2. Len(a) = n /\ Len(a) + Len(b) = Len(s)
      BY <1>1, <1>2, <1>3
    <3> QED BY <3>1, <3>2
  <2>2. \A i \in 1 .. Len(s) : (a \o b)[i] = s[i]
    <3> SUFFICES ASSUME NEW i \in 1 .. Len(s) PROVE (a \o b)[i] = s[i]
      OBVIOUS
    <3>1. CASE i <= n
      BY <1>1, <1>2, <2>1, <3>1
    <3>2. CASE ~(i <= n)
      <4>1. i - n \in 1 .. Len(s) - n /\ n + (i - n) = i
        BY <1>1, <3>2
      <4> QED BY <1>3, <2>1, <3>2, <4>1
    <3> QED BY <3>1, <3>2
  <2> QED BY <2>1, <2>2, SeqEqual
<1>5. a # <<>> /\ Head(a) = Head(s)
  <2>1. a # <<>>
    BY <1>1, <1>2, EmptySeq
  <2> QED BY <1>1, <1>2, <2>1, HeadTailProperties
<1>6. ASSUME b # <<>> PROVE n < Len(s) /\ Head(b) = s[n + 1]
  <2>1. Len(b) # 0
    BY <1>3, <1>6, EmptySeq
  <2>2. Head(b) = b[1]
    BY <1>3, <1>6, HeadTailProperties
  <2>3. n < Len(s) /\ 1 \in 1 .. Len(s) - n
    <3> DEFINE L == Len(s)
               l == Len(b)
    <3>1. L \in Nat /\ n \in Nat /\ n <= L /\ l = L - n /\ l # 0
      BY <1>1, <1>3, <2>1
    <3> HIDE DEF L, l
    <3>2. n < L /\ 1 \in 1 .. L - n
      BY <3>1
    <3> QED BY <3>2 DEF L
  <2> QED BY <1>3, <2>2, <2>3
<1>7. ASSUME AllDistinct(s) PROVE AllDistinct(a) /\ AllDistinct(b)
  <2>1. ASSUME NEW j \in DOMAIN a, NEW k \in DOMAIN a, Alike(a[j], a[k]) PROVE j = k
    <3>1. j \in DOMAIN s /\ k \in DOMAIN s /\ a[j] = s[j] /\ a[k] = s[k]
      BY <1>1, <1>2
    <3> QED BY <1>7, <2>1, <3>1 DEF AllDistinct
  <2>2. ASSUME NEW j \in DOMAIN b, NEW k \in DOMAIN b, Alike(b[j], b[k]) PROVE j = k
    <3>1. j \in Nat /\ k \in Nat /\ n + j \in DOMAIN s /\ n + k \in DOMAIN s /\ b[j] = s[n + j] /\ b[k] = s[n + k]
      BY <1>1, <1>3
    <3>2. n + j = n + k
      BY <1>7, <2>2, <3>1 DEF AllDistinct
    <3> QED BY <1>1, <3>1, <3>2
  <2> QED BY <2>1, <2>2 DEF AllDistinct
<1> QED BY <1>2, <1>3, <1>4, <1>5, <1>6, <1>7 DEF a, b

\* phases: what they say of the unread events
LEMMA SamePhase ==
  ASSUME FileEvents(Unread, toldPaths, tree), UNCHANGED <<tree, toldPaths>>, Unread' = Unread
  PROVE  FileEvents(Unread', toldPaths', tree')
OBVIOUS

LEMMA SameDirs ==
  ASSUME DirPhase, UNCHANGED <<tree, toldPaths>>, Unread' = Unread,
         Len(Unread) = 2 => received' = <<>> \/ native' = <<>>
  PROVE  DirPhase'
<1>1. MovedTo(toldPaths, Unread[1].path, Unread[2].path)' = MovedTo(toldPaths, Unread[1].path, Unread[2].path)
  BY DEF MovedTo, SubMoved
<1> DEFINE one(Q, K, T) ==
             /\ Len(Q) = 1 /\ Q[1].path \in {Top} \cup Subs
             /\ \/ Is(Q[1], "created") /\ DOMAIN T = K \cup {Q[1].path}
                \/ Is(Q[1], "removed") /\ DOMAIN T = K \ {Q[1].path}
           two(Q, M, T, r, s) ==
             /\ Len(Q) = 2 /\ Is(Q[1], "renamed") /\ Is(Q[2], "renamedTo")
             /\ Q[1].path \in Subs /\ Q[2].path \in Subs /\ Q[2].ino = Q[1].ino
             /\ DOMAIN T = M
             /\ r = <<>> \/ s = <<>>
           M == MovedTo(toldPaths, Unread[1].path, Unread[2].path)
<1>2. one(Unread, toldPaths, tree) \/ two(Unread, M, tree, received, native)
  BY DEF DirPhase
<1>3. one(Unread', toldPaths', tree') \/ two(Unread', M', tree', received', native')
  BY <1>1, <1>2
<1> QED BY <1>3 DEF DirPhase

LEMMA DeliverFollows ==
  ASSUME NatInv, Deliver, UNCHANGED system
  PROVE  NatInv'
<1>1. PICK n \in 1 .. Len(native) :
           /\ received' = SubSeq(native, 1, n) /\ native' = SubSeq(native, n + 1, Len(native))
           /\ splitRename' = (splitRename \/ (n < Len(native) /\ "renamedTo" \in native[n + 1].flags
                               /\ (system = "Windows" \/ IsDir(native[n + 1].path))))
  BY DEF Deliver
<1> SUFFICES ASSUME ~dirRaced', ~splitRename', ~blended' PROVE NatSound'
  BY DEF NatInv
<1>2. /\ NatSound /\ received = <<>> /\ native # <<>> /\ system \in {"macOS", "Windows"}
      /\ UNCHANGED <<system, tree, edits, fsView, toldPaths>>
  BY <1>1 DEF Deliver, NatInv
<1>3. native \in Seq(NatEvents) /\ OneFlag(Unread)
  BY <1>2 DEF NatSound, NatTyped
<1>4. /\ received' \in Seq(NatEvents) /\ native' \in Seq(NatEvents) /\ received' \o native' = native
      /\ received' # <<>> /\ Head(received') = Head(native) /\ Len(received') = n /\ Len(native') = Len(native) - n
      /\ native' # <<>> => n < Len(native) /\ Head(native') = native[n + 1]
      /\ AllDistinct(native) => AllDistinct(received') /\ AllDistinct(native')
  BY <1>1, <1>3, PartOf
<1>5. Unread = native
  BY <1>2, <1>3, NoMore DEF Unread, Reading, HalfRead
<1>6. ~HalfRead' /\ Unread' = Unread
  <2>1. ~HalfRead'
    BY <1>2, <1>4 DEF HalfRead, NatSound, NatTyped
  <2> QED BY <1>4, <1>5, <2>1 DEF Unread, Reading
<1>7. NatTyped'
  <2>1. system' = "Windows" /\ native' # <<>> => ~Is(Head(native'), "renamedTo")
    BY <1>1, <1>2, <1>4 DEF Is
  <2>2. TreeSound' /\ InosKnown' /\ toldPaths' \subseteq Paths
    BY <1>2 DEF NatSound, NatTyped, TreeSound, InosKnown
  <2>3. OneFlag(Unread') /\ CreatedAnew(Unread', fsView', InosOf(tree'))
    BY <1>2, <1>6 DEF NatSound, NatTyped
  <2>4. system' = "Windows" => fsView' = {}
    BY <1>2 DEF NatSound, NatTyped
  <2> QED BY <1>4, <1>6, <2>1, <2>2, <2>3, <2>4 DEF NatTyped
<1>8. CASE FilePhase
  <2>1. FileEvents(Unread', toldPaths', tree')
    BY <1>2, <1>6, <1>8 DEF FilePhase
  <2>2. system' = "macOS" => AllDistinct(received') /\ AllDistinct(native')
    BY <1>2, <1>4, <1>8 DEF FilePhase
  <2>3. FilePhase'
    BY <2>1, <2>2 DEF FilePhase
  <2> QED BY <1>7, <2>3 DEF NatSound
<1>9. CASE DirPhase
  <2>1. ASSUME Len(Unread) = 2 PROVE received' = <<>> \/ native' = <<>>
    <3>1. Len(native) = 2 /\ Is(native[2], "renamedTo") /\ IsDir(native[2].path)
      BY <1>5, <1>9, <2>1 DEF DirPhase, IsDir
    <3>2. n = 2
      <4>1. n = 1 \/ n = 2
        BY <3>1
      <4>2. n # 1
        <5>1. ASSUME n = 1 PROVE FALSE
          <6>1. n < Len(native) /\ native[n + 1] = native[2]
            BY <3>1, <5>1
          <6> QED BY <1>1, <3>1, <6>1 DEF Is
        <5> QED BY <5>1
      <4> QED BY <4>1, <4>2
    <3> QED BY <1>4, <3>1, <3>2
  <2>2. DirPhase'
    BY <1>2, <1>6, <1>9, <2>1, SameDirs
  <2> QED BY <1>7, <2>2 DEF NatSound
<1> QED BY <1>2, <1>8, <1>9 DEF NatSound

-----------------------------------------------------------------------------
(* One event is handled.                                                        *)

LEMMA FileChildren ==
  ASSUME NEW p \in Files
  PROVE  Children(p) = {}
<1>1. p # Top /\ p \notin Subs
  BY Kinds
<1>2. ASSUME NEW q \in Subs \cup Files PROVE DirOf(q) # p
  <2>1. q \in Paths
    BY DEF Paths
  <2>2. q # Top
    <3>1. q \in Subs => q # Top
      BY DEF Subs, Top
    <3> QED BY <3>1, Kinds
  <2> QED BY <1>1, <2>1, <2>2, Parents
<1> QED BY <1>2 DEF Children

LEMMA FileMoved ==
  ASSUME NEW p, NEW q \in Files, NEW K
  PROVE  MovedTo(K, p, q) = (K \ {p}) \cup {q} /\ SubCreated(K, q) = K
BY FileChildren DEF MovedTo, SubMoved, SubCreated

LEMMA JoinTail ==
  ASSUME NEW s \in Seq(NatEvents), s # <<>>, NEW t \in Seq(NatEvents)
  PROVE  /\ s \o t \in Seq(NatEvents) /\ s \o t # <<>> /\ (s \o t)[1] = Head(s)
         /\ Tail(s) \in Seq(NatEvents) /\ Tail(s) \o t = Tail(s \o t)
         /\ Len(s) \in Nat /\ Len(t) \in Nat /\ Len(s) >= 1 /\ Len(s \o t) = Len(s) + Len(t)
         /\ \A k \in 1 .. Len(s) : (s \o t)[k] = s[k]
         /\ \A k \in 1 .. Len(t) : (s \o t)[Len(s) + k] = t[k]
<1> DEFINE Q == s \o t
           n == Len(s)
           m == Len(t)
<1>1. n \in Nat /\ n >= 1 /\ m \in Nat /\ Head(s) = s[1]
  BY EventDone, LenProperties
<1>2. /\ Q \in Seq(NatEvents) /\ Len(Q) = n + m
      /\ \A i \in 1 .. n + m : Q[i] = IF i <= n THEN s[i] ELSE t[i - n]
  BY ConcatProperties
<1>3. /\ Tail(s) \in Seq(NatEvents) /\ Len(Tail(s)) = n - 1
      /\ \A k \in 1 .. n - 1 : Tail(s)[k] = s[k + 1]
  BY EventDone
<1> DEFINE u == Tail(s)
<1>4. /\ u \o t \in Seq(NatEvents) /\ Len(u \o t) = n - 1 + m
      /\ \A i \in 1 .. n - 1 + m : (u \o t)[i] = IF i <= n - 1 THEN u[i] ELSE t[i - (n - 1)]
  <2> HIDE DEF u
  <2>1. u \in Seq(NatEvents) /\ Len(u) = n - 1
    BY <1>3 DEF u
  <2>2. /\ u \o t \in Seq(NatEvents) /\ Len(u \o t) = Len(u) + m
        /\ \A i \in 1 .. Len(u) + m : (u \o t)[i] = IF i <= Len(u) THEN u[i] ELSE t[i - Len(u)]
    BY <2>1, ConcatProperties
  <2> QED BY <2>1, <2>2
<1>5. Q # <<>>
  <2>1. Len(Q) # 0
    <3> HIDE DEF Q, n, m
    <3> QED BY <1>1, <1>2
  <2> QED BY <2>1
<1> HIDE DEF Q, n, m, u
<1>6. /\ Tail(Q) \in Seq(NatEvents) /\ Len(Tail(Q)) = n + m - 1
      /\ \A k \in 1 .. n + m - 1 : Tail(Q)[k] = Q[k + 1]
  <2>1. /\ Tail(Q) \in Seq(NatEvents) /\ Len(Tail(Q)) = Len(Q) - 1
        /\ \A k \in 1 .. Len(Q) - 1 : Tail(Q)[k] = Q[k + 1]
    BY <1>2, <1>5, EventDone
  <2>2. Len(Q) - 1 = n + m - 1
    BY <1>1, <1>2
  <2> QED BY <2>1, <2>2
<1>7. u \o t = Tail(Q)
  <2>1. Len(u \o t) = Len(Tail(Q)) /\ Len(u \o t) = n - 1 + m
    BY <1>1, <1>4, <1>6
  <2>2. \A i \in 1 .. n - 1 + m : (u \o t)[i] = Tail(Q)[i]
    <3> SUFFICES ASSUME NEW i \in 1 .. n - 1 + m PROVE (u \o t)[i] = Tail(Q)[i]
      OBVIOUS
    <3>1. Tail(Q)[i] = Q[i + 1] /\ i + 1 \in 1 .. n + m
      BY <1>1, <1>6
    <3>2. CASE i <= n - 1
      <4>1. i \in 1 .. n - 1 /\ i + 1 <= n
        BY <1>1, <3>2
      <4>2. u[i] = s[i + 1]
        BY <1>3, <4>1 DEF u
      <4> QED BY <1>2, <1>4, <3>1, <3>2, <4>1, <4>2
    <3>3. CASE ~(i <= n - 1)
      <4>1. ~(i + 1 <= n) /\ i - (n - 1) = i + 1 - n
        BY <1>1, <3>3
      <4>2. PICK j \in 1 .. n + m : j = i + 1
        BY <3>1
      <4>4. Q[j] = t[j - n]
        BY <1>2, <4>1, <4>2
      <4>5. j - n = i - (n - 1)
        BY <1>1, <4>2
      <4>3. (u \o t)[i] = t[i - (n - 1)]
        BY <1>4, <3>3
      <4> QED BY <3>1, <4>2, <4>3, <4>4, <4>5
    <3> QED BY <3>2, <3>3
  <2> QED BY <1>4, <1>6, <2>1, <2>2, SeqEqual
<1>8. /\ \A k \in 1 .. n : Q[k] = s[k]
      /\ \A k \in 1 .. m : Q[n + k] = t[k]
  <2>1. ASSUME NEW k \in 1 .. n PROVE Q[k] = s[k]
    BY <1>1, <1>2
  <2>2. ASSUME NEW k \in 1 .. m PROVE Q[n + k] = t[k]
    <3>1. n + k \in 1 .. n + m /\ ~(n + k <= n) /\ (n + k) - n = k
      BY <1>1
    <3> QED BY <1>2, <3>1
  <2> QED BY <2>1, <2>2
<1>9. Q[1] = Head(s)
  BY <1>1, <1>8
<1> QED BY <1>1, <1>2, <1>3, <1>5, <1>7, <1>8, <1>9 DEF Q, n, m, u

LEMMA DoneFile ==
  ASSUME NEW Q \in Seq(NatEvents), Q # <<>>, NEW K, NEW K2, NEW T, FileEvents(Q, K, T),
         \A p \in Paths : p # Q[1].path => (p \in K2 <=> p \in K),
         (\A k \in 2 .. Len(Q) : ~Touches(Q[k], Q[1].path)) =>
           (Q[1].path \in K2 <=> Q[1].path \in DOMAIN T)
  PROVE  FileEvents(Tail(Q), K2, T)
<1>1. ViewLags(Tail(Q), K2, DOMAIN T)
  BY EventDoneLags DEF FileEvents
<1>2. Halves(Tail(Q)) /\ Placed(Tail(Q), T) /\ Continued(Tail(Q))
  BY EventDoneHalves, EventDonePlaced, EventDoneContinued DEF FileEvents
<1>3. ASSUME NEW k \in DOMAIN Tail(Q) PROVE Tail(Q)[k].path \in Files
  <2>1. k + 1 \in DOMAIN Q /\ Tail(Q)[k] = Q[k + 1]
    BY EventDone
  <2> QED BY <2>1 DEF FileEvents
<1> QED BY <1>1, <1>2, <1>3 DEF FileEvents

\* an event that puts or takes its path, handled so
LEMMA DoneTouch ==
  ASSUME NEW Q \in Seq(NatEvents), Q # <<>>, NEW K, NEW K2, NEW T, FileEvents(Q, K, T),
         NEW f \in NatFlags, Q[1].flags = {f},
         \/ f \in {"created", "renamedTo"} /\ K2 = K \cup {Q[1].path}
         \/ f \in {"removed", "renamed"} /\ K2 = K \ {Q[1].path}
         \/ f = "modified" /\ K2 = K
  PROVE  FileEvents(Tail(Q), K2, T)
<1> DEFINE p == Q[1].path
<1>1. 1 \in DOMAIN Q /\ Q[1] \in NatEvents /\ DOMAIN Q = 1 .. Len(Q) /\ Len(Q) \in Nat
  BY EventDone
<1>2. p \in Paths
  BY <1>1 DEF NatEvents
<1>3. /\ Puts(Q[1]) <=> f \in {"created", "renamedTo"}
      /\ Takes(Q[1]) <=> f \in {"removed", "renamed"}
  BY <1>1, FlagIs
<1>4. ASSUME \A k \in 2 .. Len(Q) : ~Touches(Q[k], p)
      PROVE  p \in K2 <=> p \in DOMAIN T
  <2>1. CASE f = "modified"
    <3>1. ~Touches(Q[1], p)
      BY <1>3, <2>1 DEF Touches
    <3>2. \A k \in DOMAIN Q : k = 1 \/ k \in 2 .. Len(Q)
      BY <1>1
    <3>3. \A k \in DOMAIN Q : ~Touches(Q[k], p)
      BY <1>4, <3>1, <3>2
    <3>4. p \in K <=> p \in DOMAIN T
      BY <1>2, <3>3 DEF FileEvents, ViewLags
    <3> QED BY <2>1, <3>4
  <2>2. CASE f # "modified"
    <3>1. Touches(Q[1], p) /\ (p \in K2 <=> Puts(Q[1]))
      BY <1>3, <2>2 DEF Touches, NatFlags
    <3>2. \A k \in 1 + 1 .. Len(Q) : ~Touches(Q[k], p)
      BY <1>4
    <3>3. Puts(Q[1]) <=> p \in DOMAIN T
      BY <1>1, <1>2, <3>1, <3>2 DEF FileEvents, ViewLags
    <3> QED BY <3>1, <3>3
  <2> QED BY <2>1, <2>2
<1>5. \A x \in Paths : x # p => (x \in K2 <=> x \in K)
  OBVIOUS
<1> HIDE DEF p
<1> QED BY <1>4, <1>5, DoneFile DEF p

LEMMA DoneRest ==
  ASSUME NEW s \in Seq(NatEvents), s # <<>>
  PROVE  /\ AllDistinct(s) => AllDistinct(Tail(s))
         /\ OneFlag(s) => OneFlag(Tail(s))
         /\ RemoveAt(s, 1) = Tail(s)
<1>1. \A k \in DOMAIN Tail(s) : k \in Nat /\ k + 1 \in DOMAIN s /\ Tail(s)[k] = s[k + 1]
  BY EventDone
<1>2. ASSUME AllDistinct(s) PROVE AllDistinct(Tail(s))
  <2>1. ASSUME NEW j \in DOMAIN Tail(s), NEW k \in DOMAIN Tail(s), Alike(Tail(s)[j], Tail(s)[k])
        PROVE  j = k
    <3>1. j + 1 = k + 1
      BY <1>1, <1>2, <2>1 DEF AllDistinct
    <3> QED BY <1>1, <3>1
  <2> QED BY <2>1 DEF AllDistinct
<1>3. OneFlag(s) => OneFlag(Tail(s))
  BY <1>1 DEF OneFlag
<1>4. RemoveAt(s, 1) = Tail(s)
  <2>1. RemoveAt(s, 1) = SubSeq(s, 1, 0) \o SubSeq(s, 2, Len(s))
    BY DEF RemoveAt
  <2>2. SubSeq(s, 1, 0) = <<>>
    BY SubSeqEmpty
  <2>3. Tail(s) = SubSeq(s, 2, Len(s)) /\ Tail(s) \in Seq(NatEvents)
    BY TailIsSubSeq, HeadTailProperties
  <2> QED BY <2>1, <2>2, <2>3, NoMore
<1> QED BY <1>2, <1>3, <1>4

-----------------------------------------------------------------------------
(* FSEventsEmitter.queue_events.                                                *)

\* the later events of the callback that rename the inode of the first
Later == {k \in DOMAIN Tail(received) : /\ Renamed(Tail(received)[k])
                                        /\ Tail(received)[k].ino = Head(received).ino}

LEMMA FSPlain ==
  ASSUME FSEvent, NEW f \in NatFlags, Head(received).flags = {f}, f \notin {"renamed", "renamedTo"},
         f = "created" => Head(received).ino \notin fsView
  PROVE  /\ received' = Tail(received)
         /\ f = "created" => toldPaths' = toldPaths \cup {Head(received).path}
         /\ f = "removed" => toldPaths' = toldPaths \ {Head(received).path}
         /\ f = "modified" => toldPaths' = toldPaths
         /\ fsView' \subseteq fsView \cup {Head(received).ino}
         /\ f = "removed" => Head(received).ino \notin fsView'
<1> DEFINE e == Head(received)
<1>1. /\ ~Renamed(e) /\ (Is(e, "created") <=> f = "created") /\ (Is(e, "removed") <=> f = "removed")
  BY DEF Is, Renamed
<1> DEFINE created == Is(e, "created") /\ e.ino \notin fsView
           v == IF created THEN toldPaths \cup {e.path} ELSE toldPaths
           gone == Is(e, "removed")
<1>2. /\ toldPaths' = (IF gone THEN v \ {e.path} ELSE v)
      /\ fsView' = (IF gone THEN (fsView \cup {e.ino}) \ {e.ino} ELSE fsView \cup {e.ino})
      /\ received' = Tail(received)
  BY <1>1 DEF FSEvent
<1>3. /\ gone <=> f = "removed"
      /\ created <=> f = "created"
  BY <1>1
<1> HIDE DEF e, created, gone
<1> QED BY <1>2, <1>3 DEF e

LEMMA FSPaired ==
  ASSUME FSEvent, Head(received).flags = {"renamed"}, received \in Seq(NatEvents),
         Tail(received) # <<>>, Tail(received)[1].flags = {"renamedTo"},
         Tail(received)[1].ino = Head(received).ino
  PROVE  /\ received' = Tail(Tail(received))
         /\ toldPaths' = MovedTo(toldPaths, Head(received).path, Tail(received)[1].path)
         /\ fsView' = fsView \cup {Head(received).ino}
<1> DEFINE e == Head(received)
           rest == Tail(received)
           first == CHOOSE k \in Later : \A j \in Later : k <= j
           d == rest[first]
<1>1. Renamed(e) /\ ~Is(e, "created") /\ ~Is(e, "removed")
  BY DEF Is, Renamed
<1>2. rest \in Seq(NatEvents) /\ DOMAIN rest = 1 .. Len(rest) /\ 1 \in DOMAIN rest /\ RemoveAt(rest, 1) = Tail(rest)
  <2>1. received # <<>>
    BY DEF FSEvent
  <2>2. rest \in Seq(NatEvents) /\ rest # <<>>
    BY <2>1, EventDone
  <2> HIDE DEF rest
  <2> QED BY <2>2, EventDone, DoneRest
<1>3. Is(rest[1], "renamedTo") /\ Renamed(rest[1]) /\ ~Is(rest[1], "removed")
  BY DEF Is, Renamed
<1>4. 1 \in Later
  BY <1>2, <1>3 DEF Later
<1>5. first = 1
  <2>1. \A j \in Later : j \in Nat /\ 1 <= j
    BY <1>2 DEF Later
  <2> QED BY <1>4, <2>1
<1>6. IF ~Renamed(e) \/ (Is(e, "created") /\ Is(e, "removed")) THEN TRUE
      ELSE IF Later # {}
      THEN /\ received' = RemoveAt(rest, first)
           /\ toldPaths' = (LET v == IF Is(e, "created") /\ e.ino \notin fsView
                                     THEN toldPaths \cup {e.path} ELSE toldPaths
                                w == MovedTo(v, e.path, d.path)
                                x == IF Is(d, "removed") THEN w \ {d.path} ELSE w
                            IN  IF Is(e, "removed") THEN x \ {e.path} ELSE x)
           /\ fsView' = (LET x == IF Is(d, "removed") THEN fsView \ {e.ino} ELSE fsView \cup {e.ino}
                         IN  IF Is(e, "removed") THEN x \ {e.ino} ELSE x)
      ELSE TRUE
  BY DEF FSEvent, Later
<1> HIDE DEF e, rest, first
<1> QED BY <1>1, <1>2, <1>3, <1>4, <1>5, <1>6 DEF e, rest

LEMMA FSLone ==
  ASSUME FSEvent, NEW f \in {"renamed", "renamedTo"}, Head(received).flags = {f}, Later = {}
  PROVE  /\ received' = Tail(received)
         /\ IF Exists(Head(received).path) /\ tree[Head(received).path].ino = Head(received).ino
            THEN /\ toldPaths' = SubCreated(toldPaths \cup {Head(received).path}, Head(received).path)
                 /\ fsView' = fsView \cup {Head(received).ino}
            ELSE /\ toldPaths' = toldPaths \ {Head(received).path}
                 /\ fsView' = fsView \ {Head(received).ino}
<1> DEFINE e == Head(received)
<1>1. Renamed(e) /\ ~Is(e, "created") /\ ~Is(e, "removed")
  BY DEF Is, Renamed
<1>2. IF ~Renamed(e) \/ (Is(e, "created") /\ Is(e, "removed")) THEN TRUE
      ELSE IF Later # {} THEN TRUE
      ELSE /\ received' = Tail(received)
           /\ LET v == IF Is(e, "created") /\ e.ino \notin fsView THEN toldPaths \cup {e.path} ELSE toldPaths
              IN  IF Exists(e.path) /\ tree[e.path].ino = e.ino
                  THEN /\ toldPaths' = (IF Is(e, "removed") THEN SubCreated(v \cup {e.path}, e.path) \ {e.path}
                                        ELSE SubCreated(v \cup {e.path}, e.path))
                       /\ fsView' = (IF Is(e, "removed") THEN (fsView \cup {e.ino}) \ {e.ino}
                                     ELSE fsView \cup {e.ino})
                  ELSE toldPaths' = v \ {e.path} /\ fsView' = fsView \ {e.ino}
  BY DEF FSEvent, Later
<1> HIDE DEF e
<1> QED BY <1>1, <1>2 DEF e

\* what is left is as it was
LEMMA HandledFS ==
  ASSUME NatTyped, system = "macOS", UNCHANGED <<system, tree, native>>, received' \in Seq(NatEvents),
         NEW Q, Unread' = Q, OneFlag(Q), CreatedAnew(Q, fsView', InosOf(tree)), toldPaths' \subseteq Paths,
         FileEvents(Q, toldPaths', tree), AllDistinct(received'), AllDistinct(native)
  PROVE  NatSound'
<1>1. ~HalfRead' /\ TreeSound' /\ InosKnown'
  BY DEF HalfRead, NatTyped, TreeSound, InosKnown
<1>2. OneFlag(Unread') /\ CreatedAnew(Unread', fsView', InosOf(tree')) /\ FileEvents(Unread', toldPaths', tree')
  OBVIOUS
<1>3. NatTyped'
  BY <1>1, <1>2 DEF NatTyped
<1>4. AllDistinct(native')
  OBVIOUS
<1>5. FilePhase'
  BY <1>2, <1>4 DEF FilePhase
<1> QED BY <1>3, <1>5 DEF NatSound

\* the first of a callback's events is the first that is unread
LEMMA FrontFS ==
  ASSUME NatTyped, system = "macOS", received # <<>>
  PROVE  /\ Unread = received \o native /\ Unread \in Seq(NatEvents) /\ Unread # <<>>
         /\ Unread[1] = Head(received) /\ Head(received) \in NatEvents
         /\ \E f \in NatFlags : Head(received).flags = {f}
         /\ Tail(received) \in Seq(NatEvents) /\ Tail(Unread) = Tail(received) \o native
         /\ Tail(Unread) \in Seq(NatEvents) /\ OneFlag(Tail(Unread))
         /\ Is(Head(received), "created") => Head(received).ino \notin fsView
<1>1. Unread = received \o native /\ received \in Seq(NatEvents) /\ native \in Seq(NatEvents)
  BY DEF Unread, Reading, HalfRead, NatTyped
<1>2. /\ Unread \in Seq(NatEvents) /\ Unread # <<>> /\ Unread[1] = Head(received)
      /\ Tail(received) \in Seq(NatEvents) /\ Tail(Unread) = Tail(received) \o native
  BY <1>1, JoinTail
<1>3. 1 \in DOMAIN Unread /\ Unread[1] \in NatEvents /\ Tail(Unread) \in Seq(NatEvents)
  BY <1>2, EventDone
<1>4. OneFlag(Tail(Unread)) /\ \E f \in NatFlags : Unread[1].flags = {f}
  BY <1>2, <1>3, DoneRest DEF NatTyped, OneFlag
<1>5. ASSUME Is(Head(received), "created") PROVE Head(received).ino \notin fsView
  <2>1. Freed(Unread, fsView, 1, Unread[1].ino)
    BY <1>2, <1>3, <1>5 DEF NatTyped, CreatedAnew
  <2>2. ~\E j \in 1 .. 1 - 1 : Unread[j].ino = Unread[1].ino
    OBVIOUS
  <2> QED BY <1>2, <2>1, <2>2 DEF Freed
<1> QED BY <1>1, <1>2, <1>3, <1>4, <1>5

\* the second half of a rename of a file comes alone: the first was in the callback before
LEMMA LoneTo ==
  ASSUME NatTyped, system = "macOS", received # <<>>, FileEvents(Unread, toldPaths, tree),
         AllDistinct(received), Is(Head(received), "renamedTo"), ~Takes(Head(received))
  PROVE  Later = {}
<1>1. /\ received \in Seq(NatEvents) /\ native \in Seq(NatEvents) /\ Unread = received \o native
      /\ Unread[1] = Head(received) /\ Unread \in Seq(NatEvents)
  BY FrontFS DEF NatTyped
<1> DEFINE n == Len(received)
<1>2. /\ n \in Nat /\ n >= 1 /\ Head(received) = received[1] /\ DOMAIN received = 1 .. n
      /\ DOMAIN Tail(received) = 1 .. n - 1 /\ \A k \in 1 .. n - 1 : Tail(received)[k] = received[k + 1]
  BY <1>1, EventDone
<1>3. /\ Len(native) \in Nat /\ Len(Unread) = n + Len(native) /\ \A k \in 1 .. n : Unread[k] = received[k]
  BY <1>1, JoinTail
<1>4. DOMAIN Unread = 1 .. Len(Unread)
  BY <1>1, LenProperties
<1> HIDE DEF n
<1>5. \A k \in 1 .. n : k \in DOMAIN Unread
  BY <1>2, <1>3, <1>4
<1> SUFFICES ASSUME NEW k \in Later PROVE FALSE
  OBVIOUS
<1>6. /\ k \in 1 .. n - 1 /\ received[k + 1].ino = received[1].ino
  BY <1>2 DEF Later
<1>7. k + 1 \in 1 .. n /\ 1 \in 1 .. n /\ 1 < k + 1 /\ (k + 1) - 1 = k
  BY <1>2, <1>6
<1>8. \/ Unread[k + 1].path = Unread[1].path
      \/ \E m \in 1 + 1 .. (k + 1) - 1 : Takes(Unread[m]) /\ Alike(Unread[m], Unread[1])
  <2>1. Continued(Unread)
    BY DEF FileEvents
  <2>2. Unread[1].ino = Unread[k + 1].ino /\ ~Takes(Unread[1])
    BY <1>1, <1>3, <1>6, <1>7
  <2> QED BY <1>5, <1>7, <2>1, <2>2 DEF Continued
<1>9. CASE Unread[k + 1].path = Unread[1].path
  <2>1. Alike(received[k + 1], received[1])
    BY <1>3, <1>6, <1>7, <1>9 DEF Alike
  <2>2. k + 1 = 1
    BY <1>2, <1>7, <2>1 DEF AllDistinct
  <2> QED BY <1>7, <2>2
<1>10. CASE \E m \in 1 + 1 .. (k + 1) - 1 : Takes(Unread[m]) /\ Alike(Unread[m], Unread[1])
  <2>1. PICK m \in 2 .. k : Alike(Unread[m], Unread[1])
    BY <1>7, <1>10
  <2>2. m \in 1 .. n /\ m # 1
    BY <1>2, <1>6, <2>1
  <2>3. Alike(received[m], received[1])
    BY <1>3, <1>7, <2>1, <2>2
  <2> QED BY <1>2, <1>7, <2>2, <2>3 DEF AllDistinct
<1> QED BY <1>8, <1>9, <1>10

\* a renaming alone is judged by what is at its path
LEMMA LoneFile ==
  ASSUME NEW Q \in Seq(NatEvents), Q # <<>>, NEW K, NEW K2, FileEvents(Q, K, tree), TreeSound,
         NEW f \in {"renamed", "renamedTo"}, Q[1].flags = {f},
         IF Exists(Q[1].path) /\ tree[Q[1].path].ino = Q[1].ino
         THEN K2 = SubCreated(K \cup {Q[1].path}, Q[1].path)
         ELSE K2 = K \ {Q[1].path}
  PROVE  FileEvents(Tail(Q), K2, tree)
<1> DEFINE e == Q[1]
           p == e.path
<1>1. 1 \in DOMAIN Q /\ Q[1] \in NatEvents /\ DOMAIN Q = 1 .. Len(Q) /\ Len(Q) \in Nat
  BY EventDone
<1>2. p \in Paths /\ p \in Files
  BY <1>1 DEF NatEvents, FileEvents
<1>3. (Puts(e) <=> f = "renamedTo") /\ (Takes(e) <=> f = "renamed") /\ Touches(e, p)
  BY DEF Puts, Takes, Is, Touches
<1>4. K2 = IF p \in DOMAIN tree /\ tree[p].ino = e.ino THEN K \cup {p} ELSE K \ {p}
  BY <1>2, FileMoved DEF Exists
<1>5. \A x \in Paths : x # p => (x \in K2 <=> x \in K)
  BY <1>4
<1>6. ASSUME \A k \in 2 .. Len(Q) : ~Touches(Q[k], p)
      PROVE  p \in K2 <=> p \in DOMAIN tree
  <2>1. CASE p \in DOMAIN tree /\ tree[p].ino = e.ino
    BY <1>4, <2>1
  <2>2. CASE ~(p \in DOMAIN tree /\ tree[p].ino = e.ino)
    <3>1. p \notin K2
      BY <1>4, <2>2
    <3>2. \A k \in 1 + 1 .. Len(Q) : ~Touches(Q[k], p)
      BY <1>6
    <3>3. Puts(e) <=> p \in DOMAIN tree
      BY <1>1, <1>2, <1>3, <3>2 DEF FileEvents, ViewLags
    <3>4. f # "renamedTo"
      <4>1. ASSUME f = "renamedTo" PROVE FALSE
        <5>1. \E m \in 1 + 1 .. Len(Q) : Takes(Q[m]) /\ Alike(Q[m], Q[1])
          <6>1. Placed(Q, tree) /\ ~Takes(Q[1])
            BY <1>3, <4>1 DEF FileEvents
          <6> QED BY <1>1, <2>2, <6>1 DEF Placed
        <5> QED BY <3>2, <5>1 DEF Touches, Alike
      <4> QED BY <4>1
    <3> QED BY <1>3, <3>1, <3>3, <3>4
  <2> QED BY <2>1, <2>2
<1> HIDE DEF p, e
<1> QED BY <1>5, <1>6, DoneFile DEF p, e

LEMMA FSFiles ==
  ASSUME NatTyped, FilePhase, FSEvent, UNCHANGED system
  PROVE  NatSound'
<1>1. system = "macOS" /\ received # <<>> /\ UNCHANGED <<system, tree, native>>
  BY DEF FSEvent
<1> DEFINE e == Head(received)
<1>2. /\ Unread = received \o native /\ Unread \in Seq(NatEvents) /\ Unread # <<>> /\ Unread[1] = e
      /\ e \in NatEvents /\ Tail(received) \in Seq(NatEvents) /\ Tail(Unread) = Tail(received) \o native
      /\ Tail(Unread) \in Seq(NatEvents) /\ OneFlag(Tail(Unread))
      /\ Is(e, "created") => e.ino \notin fsView
      /\ \E f \in NatFlags : e.flags = {f}
  BY <1>1, FrontFS
<1> HIDE DEF e
<1>3. PICK f \in NatFlags : e.flags = {f}
  BY <1>2
<1>4. /\ FileEvents(Unread, toldPaths, tree) /\ AllDistinct(received) /\ AllDistinct(native)
      /\ received \in Seq(NatEvents) /\ native \in Seq(NatEvents) /\ toldPaths \subseteq Paths
      /\ CreatedAnew(Unread, fsView, InosOf(tree)) /\ TreeSound
  BY <1>1 DEF FilePhase, NatTyped
<1>5. e.path \in Paths /\ e.path \in Files /\ \A g : Is(e, g) <=> g = f
  <2>1. 1 \in DOMAIN Unread
    BY <1>2, EventDone
  <2> QED BY <1>2, <1>3, <1>4, <2>1, FlagIs DEF NatEvents, FileEvents
\* one event is handled
<1>6. ASSUME received' = Tail(received), toldPaths' \subseteq Paths,
             FileEvents(Tail(Unread), toldPaths', tree),
             fsView' \subseteq fsView \cup {e.ino}, f = "removed" => e.ino \notin fsView'
      PROVE  NatSound'
  <2>1. Unread' = Tail(Unread)
    BY <1>1, <1>2, <1>6 DEF Unread, Reading, HalfRead
  <2>2. CreatedAnew(Tail(Unread), fsView', InosOf(tree))
    BY <1>2, <1>4, <1>5, <1>6, EventDoneAnew
  <2>3. AllDistinct(received') /\ received' \in Seq(NatEvents)
    BY <1>1, <1>2, <1>4, <1>6, DoneRest
  <2> QED BY <1>1, <1>2, <1>4, <1>6, <2>1, <2>2, <2>3, HandledFS
<1>7. CASE f \notin {"renamed", "renamedTo"}
  <2>1. /\ received' = Tail(received)
        /\ f = "created" => toldPaths' = toldPaths \cup {e.path}
        /\ f = "removed" => toldPaths' = toldPaths \ {e.path}
        /\ f = "modified" => toldPaths' = toldPaths
        /\ fsView' \subseteq fsView \cup {e.ino}
        /\ f = "removed" => e.ino \notin fsView'
    <3>1. f = "created" => e.ino \notin fsView
      BY <1>2, <1>5
    <3> QED BY <1>3, <1>7, <3>1, FSPlain DEF e
  <2>2. f \in {"created", "removed", "modified"}
    BY <1>7 DEF NatFlags
  <2>3. FileEvents(Tail(Unread), toldPaths', tree)
    BY <1>2, <1>3, <1>4, <2>1, <2>2, DoneTouch
  <2>4. toldPaths' \subseteq Paths
    BY <1>4, <1>5, <2>1, <2>2
  <2> QED BY <1>6, <2>1, <2>3, <2>4
<1>8. ASSUME f \in {"renamed", "renamedTo"}, Later = {} PROVE NatSound'
  <2>1. /\ received' = Tail(received)
        /\ IF Exists(e.path) /\ tree[e.path].ino = e.ino
           THEN toldPaths' = SubCreated(toldPaths \cup {e.path}, e.path) /\ fsView' = fsView \cup {e.ino}
           ELSE toldPaths' = toldPaths \ {e.path} /\ fsView' = fsView \ {e.ino}
    BY <1>3, <1>8, FSLone DEF e
  <2>2. FileEvents(Tail(Unread), toldPaths', tree)
    <3> DEFINE K2 == toldPaths'
    <3>1. IF Exists(Unread[1].path) /\ tree[Unread[1].path].ino = Unread[1].ino
          THEN K2 = SubCreated(toldPaths \cup {Unread[1].path}, Unread[1].path)
          ELSE K2 = toldPaths \ {Unread[1].path}
      BY <1>2, <2>1
    <3>2. Unread[1].flags = {f}
      BY <1>2, <1>3
    <3> HIDE DEF K2
    <3>3. FileEvents(Tail(Unread), K2, tree)
      BY <1>2, <1>4, <1>8, <3>1, <3>2, LoneFile
    <3> QED BY <3>3 DEF K2
  <2>3. toldPaths' \subseteq Paths
    <3>1. SubCreated(toldPaths \cup {e.path}, e.path) = toldPaths \cup {e.path}
      BY <1>5, FileMoved
    <3> QED BY <1>4, <1>5, <2>1, <3>1
  <2>4. fsView' \subseteq fsView \cup {e.ino} /\ f # "removed"
    BY <1>8, <2>1
  <2> QED BY <1>6, <2>1, <2>2, <2>3, <2>4
<1>9. CASE f = "renamedTo"
  <2>1. Is(e, "renamedTo") /\ ~Takes(e)
    BY <1>5, <1>9 DEF Takes
  <2>2. Later = {}
    BY <1>1, <1>4, <2>1, LoneTo DEF e
  <2> QED BY <1>8, <1>9, <2>2
<1>10. CASE f = "renamed" /\ Tail(received) = <<>>
  <2>1. Later = {}
    <3>1. DOMAIN <<>> = {}
      OBVIOUS
    <3> QED BY <1>10, <3>1 DEF Later
  <2> QED BY <1>8, <1>10, <2>1
<1>11. CASE f = "renamed" /\ Tail(received) # <<>>
  <2> DEFINE d == Tail(received)[1]
             R == Tail(Unread)
  <2>1. /\ R # <<>> /\ R[1] = d /\ Tail(Tail(received)) \in Seq(NatEvents)
        /\ Tail(R) = Tail(Tail(received)) \o native /\ d = Head(Tail(received))
    <3> DEFINE s == Tail(received)
    <3>1. s \in Seq(NatEvents) /\ s # <<>> /\ R = s \o native
      BY <1>2, <1>11
    <3> HIDE DEF s, R
    <3>2. /\ R # <<>> /\ R[1] = Head(s) /\ Tail(s) \in Seq(NatEvents) /\ Tail(R) = Tail(s) \o native
      BY <1>4, <3>1, JoinTail
    <3>3. Head(s) = s[1]
      BY <3>1, EventDone
    <3> QED BY <3>2, <3>3 DEF s
  <2>2. R \in Seq(NatEvents) /\ OneFlag(R)
    BY <1>2
  <2>3. Unread[2] = R[1] /\ 2 \in DOMAIN Unread /\ 1 \in DOMAIN Unread
    <3>1. /\ Len(Unread) \in Nat /\ DOMAIN Unread = 1 .. Len(Unread) /\ Len(R) = Len(Unread) - 1
          /\ \A k \in 1 .. Len(Unread) - 1 : R[k] = Unread[k + 1]
      BY <1>2, EventDone
    <3>2. Len(R) >= 1
      BY <2>1, <2>2, EventDone
    <3> HIDE DEF R
    <3>3. 1 \in 1 .. Len(Unread) - 1 /\ 2 \in 1 .. Len(Unread) /\ 1 \in 1 .. Len(Unread)
      BY <3>1, <3>2
    <3> QED BY <3>1, <3>3
  <2>4. Is(d, "renamedTo") /\ d.ino = e.ino /\ d.path \in Files
    <3>1. Halves(Unread) /\ Is(Unread[1], "renamed") /\ \A k \in DOMAIN Unread : Unread[k].path \in Files
      BY <1>2, <1>4, <1>5, <1>11 DEF FileEvents
    <3>2. Is(Unread[1 + 1], "renamedTo") /\ Unread[1 + 1].ino = Unread[1].ino
      BY <2>3, <3>1 DEF Halves
    <3>3. 1 + 1 = 2
      OBVIOUS
    <3>4. Is(Unread[2], "renamedTo") /\ Unread[2].ino = Unread[1].ino /\ Unread[2].path \in Files
      BY <2>3, <3>1, <3>2, <3>3
    <3> HIDE DEF R, d
    <3> QED BY <1>2, <2>1, <2>3, <3>4
  <2>5. d.flags = {"renamedTo"} /\ d \in NatEvents
    <3>1. 1 \in DOMAIN R /\ R[1] \in NatEvents
      BY <2>1, <2>2, EventDone
    <3>2. \E g \in NatFlags : R[1].flags = {g}
      BY <2>2, <3>1 DEF OneFlag
    <3> QED BY <2>1, <2>4, <3>1, <3>2 DEF Is
  <2>6. /\ received' = Tail(Tail(received))
        /\ toldPaths' = MovedTo(toldPaths, e.path, d.path)
        /\ fsView' = fsView \cup {e.ino}
    BY <1>3, <1>4, <1>11, <2>4, <2>5, FSPaired DEF e
  <2>7. toldPaths' = (toldPaths \ {e.path}) \cup {d.path}
    BY <2>4, <2>6, FileMoved
  <2> DEFINE K1 == toldPaths \ {e.path}
             V1 == fsView \cup {e.ino}
  <2>8. FileEvents(R, K1, tree)
    BY <1>2, <1>3, <1>4, <1>11, DoneTouch
  <2>9. CreatedAnew(R, V1, InosOf(tree))
    <3>1. ~Is(Unread[1], "removed")
      BY <1>2, <1>5, <1>11
    <3> QED BY <1>2, <1>4, <3>1, EventDoneAnew
  <2> HIDE DEF R, K1
  <2>10. FileEvents(Tail(R), toldPaths', tree)
    <3>1. toldPaths' = K1 \cup {R[1].path}
      BY <2>1, <2>7 DEF K1
    <3>2. R[1].flags = {"renamedTo"} /\ "renamedTo" \in NatFlags
      BY <2>1, <2>5 DEF NatFlags
    <3> QED BY <2>1, <2>2, <2>8, <3>1, <3>2, DoneTouch
  <2>11. CreatedAnew(Tail(R), fsView', InosOf(tree))
    <3>1. ~Is(R[1], "removed") /\ fsView' = V1
      BY <2>1, <2>5, <2>6 DEF Is
    <3> HIDE DEF V1
    <3>2. fsView' \subseteq V1 \cup {R[1].ino}
      BY <3>1
    <3> QED BY <2>1, <2>2, <2>9, <3>1, <3>2, EventDoneAnew
  <2>12. OneFlag(Tail(R)) /\ AllDistinct(received') /\ received' \in Seq(NatEvents)
    <3>1. OneFlag(Tail(R))
      BY <2>1, <2>2, DoneRest
    <3>2. AllDistinct(Tail(received))
      BY <1>1, <1>4, DoneRest
    <3> QED BY <1>2, <1>11, <2>1, <2>6, <3>1, <3>2, DoneRest
  <2>13. Unread' = Tail(R)
    BY <1>1, <2>1, <2>6 DEF Unread, Reading, HalfRead
  <2>14. toldPaths' \subseteq Paths
    BY <1>4, <2>4, <2>7 DEF Paths
  <2> QED BY <1>1, <1>4, <2>10, <2>11, <2>12, <2>13, <2>14, HandledFS
<1> QED BY <1>7, <1>9, <1>10, <1>11

LEMMA NoLength ==
  ASSUME NEW s \in Seq(NatEvents)
  PROVE  s = <<>> <=> Len(s) = 0
BY EmptySeq

LEMMA AtEnd ==
  ASSUME NEW s \in Seq(NatEvents), s # <<>>
  PROVE  /\ Len(s) = 1 => Tail(s) = <<>>
         /\ Len(s) = 2 => /\ Tail(s) # <<>> /\ Tail(s)[1] = s[2] /\ Tail(Tail(s)) = <<>>
                          /\ Tail(s) \in Seq(NatEvents)
<1>1. /\ Tail(s) \in Seq(NatEvents) /\ Len(Tail(s)) = Len(s) - 1
      /\ \A k \in 1 .. Len(s) - 1 : Tail(s)[k] = s[k + 1]
  BY EventDone
<1>2. Len(s) = 1 => Tail(s) = <<>>
  <2> DEFINE t == Tail(s)
  <2>1. t \in Seq(NatEvents) /\ Len(t) = Len(s) - 1
    BY <1>1
  <2> HIDE DEF t
  <2>2. Len(s) = 1 => Len(t) = 0
    BY <2>1
  <2>3. Len(s) = 1 => t = <<>>
    BY <2>1, <2>2, NoLength
  <2> QED BY <2>3 DEF t
<1>3. ASSUME Len(s) = 2
      PROVE  Tail(s) # <<>> /\ Tail(s)[1] = s[2] /\ Tail(Tail(s)) = <<>>
  <2> DEFINE t == Tail(s)
  <2>1. t \in Seq(NatEvents) /\ Len(t) = 1 /\ t[1] = s[1 + 1] /\ 1 + 1 = 2
    BY <1>1, <1>3
  <2> HIDE DEF t
  <2>2. t # <<>>
    <3>1. t \in Seq(NatEvents) /\ Len(t) # 0
      BY <2>1
    <3>2. t = <<>> <=> Len(t) = 0
      BY <3>1, NoLength
    <3> QED BY <3>1, <3>2
  <2>3. Tail(t) \in Seq(NatEvents) /\ Len(Tail(t)) = 0
    BY <2>1, <2>2, EventDone
  <2>4. Tail(t) = <<>>
    BY <2>3, NoLength
  <2> QED BY <2>1, <2>2, <2>4 DEF t
<1> QED BY <1>1, <1>2, <1>3

LEMMA NoneDistinct == AllDistinct(<<>>) /\ OneFlag(<<>>)
<1>1. DOMAIN <<>> = {}
  OBVIOUS
<1> QED BY <1>1 DEF AllDistinct, OneFlag

LEMMA FlagOf ==
  ASSUME NEW e, \E f \in NatFlags : e.flags = {f}, NEW g, Is(e, g)
  PROVE  e.flags = {g} /\ g \in NatFlags
BY DEF Is

\* everything that was unread is handled: what is told is the tree
LEMMA AllHandledFS ==
  ASSUME NatTyped, system = "macOS", UNCHANGED <<system, tree, native>>, received' = <<>>,
         native = <<>>, CreatedAnew(<<>>, fsView', InosOf(tree)), toldPaths' = DOMAIN tree
  PROVE  NatSound'
<1>1. Unread' = <<>>
  <2>1. Unread' = <<>> \o <<>>
    BY DEF Unread, Reading, HalfRead
  <2> QED BY <2>1, NoMore, NoneYet
<1>2. toldPaths' \subseteq Paths
  BY DEF NatTyped, TreeSound
<1>3. FileEvents(<<>>, toldPaths', tree)
  <2> DEFINE K == toldPaths'
  <2>1. K = DOMAIN tree
    OBVIOUS
  <2> HIDE DEF K
  <2>2. FileEvents(<<>>, K, tree)
    BY <2>1, EmptyFollows
  <2> QED BY <2>2 DEF K
<1>4. received' \in Seq(NatEvents) /\ AllDistinct(received') /\ AllDistinct(native) /\ OneFlag(<<>>)
  BY NoneDistinct, NoneYet
<1> QED BY <1>1, <1>2, <1>3, <1>4, HandledFS

LEMMA FSDirs ==
  ASSUME NatTyped, DirPhase, FSEvent, UNCHANGED system
  PROVE  NatSound'
<1>1. system = "macOS" /\ received # <<>> /\ UNCHANGED <<system, tree, native>>
  BY DEF FSEvent
<1> DEFINE e == Head(received)
<1>2. /\ Unread = received \o native /\ Unread \in Seq(NatEvents) /\ Unread # <<>> /\ Unread[1] = e
      /\ Is(e, "created") => e.ino \notin fsView
      /\ \E f \in NatFlags : e.flags = {f}
  BY <1>1, FrontFS
<1> HIDE DEF e
<1>3. received \in Seq(NatEvents) /\ native \in Seq(NatEvents) /\ CreatedAnew(Unread, fsView, InosOf(tree))
  BY DEF NatTyped
<1>4. native = <<>> /\ Unread = received
  <2>1. Len(received) \in Nat /\ Len(native) \in Nat /\ Len(received) >= 1 /\ Len(Unread) = Len(received) + Len(native)
    BY <1>1, <1>2, <1>3, JoinTail
  <2>2. CASE Len(Unread) = 1
    <3> DEFINE n == Len(received)
               m == Len(native)
    <3>0. n \in Nat /\ m \in Nat /\ n >= 1 /\ 1 = n + m
      BY <2>1, <2>2
    <3> HIDE DEF n, m
    <3>3. m = 0
      BY <3>0
    <3>1. Len(native) = 0
      BY <3>3 DEF m
    <3>2. native = <<>>
      BY <1>3, <3>1, NoLength
    <3> QED BY <1>2, <1>3, <3>2, NoMore
  <2>3. CASE Len(Unread) = 2
    <3>1. native = <<>>
      BY <1>1, <2>3 DEF DirPhase
    <3> QED BY <1>2, <1>3, <3>1, NoMore
  <2> QED BY <2>2, <2>3 DEF DirPhase
<1>5. ASSUME NEW f \in {"created", "removed"}, Len(Unread) = 1, Is(e, f),
             DOMAIN tree = IF f = "created" THEN toldPaths \cup {e.path} ELSE toldPaths \ {e.path}
      PROVE  NatSound'
  <2>1. e.flags = {f} /\ f \in NatFlags
    BY <1>2, <1>5, FlagOf
  <2>2. /\ received' = Tail(received)
        /\ f = "created" => toldPaths' = toldPaths \cup {e.path}
        /\ f = "removed" => toldPaths' = toldPaths \ {e.path}
        /\ fsView' \subseteq fsView \cup {e.ino}
        /\ f = "removed" => e.ino \notin fsView'
    <3>1. f = "created" => e.ino \notin fsView
      BY <1>2, <1>5
    <3>2. f \notin {"renamed", "renamedTo"}
      BY <1>5
    <3> QED BY <2>1, <3>1, <3>2, FSPlain DEF e
  <2>3. received' = <<>> /\ toldPaths' = DOMAIN tree /\ Tail(Unread) = <<>>
    BY <1>1, <1>3, <1>4, <1>5, <2>2, AtEnd
  <2>4. CreatedAnew(Tail(Unread), fsView', InosOf(tree))
    <3>1. Is(Unread[1], "removed") => Unread[1].ino \notin fsView'
      BY <1>2, <2>1, <2>2 DEF Is
    <3>2. fsView' \subseteq fsView \cup {Unread[1].ino}
      BY <1>2, <2>2
    <3> QED BY <1>2, <1>3, <3>1, <3>2, EventDoneAnew
  <2> QED BY <1>1, <1>4, <2>3, <2>4, AllHandledFS
<1>6. ASSUME Len(Unread) = 2, Is(Unread[1], "renamed"), Is(Unread[2], "renamedTo"), Unread[2].ino = Unread[1].ino,
             DOMAIN tree = MovedTo(toldPaths, Unread[1].path, Unread[2].path)
      PROVE  NatSound'
  <2> DEFINE d == Tail(received)[1]
  <2>1. /\ Tail(received) # <<>> /\ d = Unread[2] /\ Tail(Tail(received)) = <<>>
        /\ Tail(received) \in Seq(NatEvents)
    BY <1>1, <1>3, <1>4, <1>6, AtEnd
  <2> HIDE DEF d
  <2>2. e.flags = {"renamed"} /\ d.flags = {"renamedTo"} /\ d.ino = e.ino
    <3>1. 2 \in DOMAIN Unread
      BY <1>2, <1>6, EventDone
    <3>2. \E g \in NatFlags : d.flags = {g}
      BY <2>1, <3>1 DEF NatTyped, OneFlag
    <3> QED BY <1>2, <1>6, <2>1, <3>2, FlagOf
  <2>3. /\ received' = Tail(Tail(received))
        /\ toldPaths' = MovedTo(toldPaths, e.path, d.path)
        /\ fsView' = fsView \cup {e.ino}
    BY <1>3, <2>1, <2>2, FSPaired DEF d, e
  <2>4. received' = <<>> /\ toldPaths' = DOMAIN tree
    BY <1>2, <1>6, <2>1, <2>3
  <2>5. CreatedAnew(<<>>, fsView', InosOf(tree))
    <3> DEFINE R == Tail(Unread)
    <3>1. R = Tail(received) /\ R # <<>> /\ R \in Seq(NatEvents) /\ Tail(R) = <<>> /\ R[1] = d
      BY <1>4, <2>1 DEF d
    <3>2. ~Is(Unread[1], "removed") /\ ~Is(d, "removed") /\ Unread[1].ino = e.ino
      BY <1>2, <2>2 DEF Is
    <3>3. CreatedAnew(R, fsView', InosOf(tree))
      BY <1>2, <1>3, <2>3, <3>2, EventDoneAnew
    <3> HIDE DEF R
    <3>4. CreatedAnew(Tail(R), fsView', InosOf(tree))
      BY <3>1, <3>2, <3>3, EventDoneAnew
    <3> QED BY <3>1, <3>4
  <2> QED BY <1>1, <1>4, <2>4, <2>5, AllHandledFS
<1> QED BY <1>2, <1>5, <1>6 DEF DirPhase

LEMMA FSEventFollows ==
  ASSUME NatInv, FSEvent, UNCHANGED system
  PROVE  NatInv'
<1>1. UNCHANGED <<dirRaced, splitRename, blended>>
  BY DEF FSEvent
<1> QED BY <1>1, FSFiles, FSDirs DEF NatInv, NatSound

-----------------------------------------------------------------------------
(* WindowsApiEmitter.queue_events.                                              *)

\* the first of a read's events: the half of a rename it completes comes before it
LEMMA FrontWin ==
  ASSUME NatTyped, system = "Windows", received # <<>>
  PROVE  /\ received \in Seq(NatEvents) /\ native \in Seq(NatEvents) /\ fsView = {}
         /\ Head(received) \in NatEvents /\ Tail(received) \in Seq(NatEvents)
         /\ Unread \in Seq(NatEvents) /\ Unread # <<>> /\ OneFlag(Unread)
         /\ \E f \in NatFlags : Head(received).flags = {f}
         /\ ~HalfRead => /\ Unread = received \o native /\ Unread[1] = Head(received)
                         /\ Tail(Unread) = Tail(received) \o native
                         /\ Len(Unread) = Len(received) + Len(native)
         /\ HalfRead => LET a == Ev(renamedSrc, Head(received).ino, "renamed")
                        IN  /\ a \in NatEvents /\ Unread[1] = a /\ Unread[2] = Head(received)
                            /\ Tail(Unread) = received \o native
                            /\ Tail(Tail(Unread)) = Tail(received) \o native
                            /\ Tail(Unread) \in Seq(NatEvents) /\ Tail(Unread) # <<>>
                            /\ Tail(Unread)[1] = Head(received)
                            /\ Len(Unread) = 1 + Len(received) + Len(native)
<1>1. /\ received \in Seq(NatEvents) /\ native \in Seq(NatEvents) /\ fsView = {}
      /\ Unread \in Seq(NatEvents) /\ OneFlag(Unread)
  BY FrontTyped DEF NatTyped
<1>2. /\ Head(received) \in NatEvents /\ Tail(received) \in Seq(NatEvents)
      /\ received \o native \in Seq(NatEvents) /\ received \o native # <<>>
      /\ (received \o native)[1] = Head(received)
      /\ Tail(received) \o native = Tail(received \o native)
      /\ Len(received \o native) = Len(received) + Len(native)
      /\ Len(received) \in Nat /\ Len(native) \in Nat
  BY <1>1, HeadIn, JoinTail
<1> DEFINE N == received \o native
<1>3. N \in Seq(NatEvents) /\ N # <<>> /\ N[1] = Head(received)
      /\ Tail(N) = Tail(received) \o native /\ Len(N) = Len(received) + Len(native)
  BY <1>2
<1> HIDE DEF N
<1>4. CASE ~HalfRead
  <2>1. Unread = N
    BY <1>4 DEF Unread, Reading, N
  <2>2. \E f \in NatFlags : N[1].flags = {f}
    <3>1. 1 \in DOMAIN N
      BY <1>3, EventDone
    <3> QED BY <1>1, <2>1, <3>1 DEF OneFlag
  <2> QED BY <1>1, <1>2, <1>3, <1>4, <2>1, <2>2 DEF N
<1>5. CASE HalfRead
  <2> DEFINE a == Ev(renamedSrc, Head(received).ino, "renamed")
  <2>1. a \in NatEvents
    <3>1. renamedSrc \in Paths /\ Head(received).ino \in Inodes \cup {"top"} /\ "renamed" \in NatFlags
      BY <1>1, <1>5, HeadIn DEF NatTyped, HalfRead, NatFlags
    <3> QED BY <3>1, EvTyped
  <2>2. Unread = (<<a>> \o received) \o native
    BY <1>5 DEF Unread, Reading
  <2> HIDE DEF a
  <2> DEFINE A == <<a>>
  <2>3. A \in Seq(NatEvents) /\ A # <<>> /\ Head(A) = a /\ Tail(A) = <<>> /\ Len(A) = 1
    BY <2>1, OneEvent
  <2>4. Unread = A \o N
    <3> HIDE DEF A
    <3> QED BY <1>1, <2>2, <2>3, ConcatAssociative DEF A, N
  <2> HIDE DEF A
  <2>5. /\ A \o N # <<>> /\ (A \o N)[1] = a /\ Tail(A \o N) = Tail(A) \o N
        /\ Len(A \o N) = 1 + Len(N)
        /\ \A k \in 1 .. Len(N) : (A \o N)[1 + k] = N[k]
    <3>1. /\ A \o N # <<>> /\ (A \o N)[1] = Head(A) /\ Tail(A) \o N = Tail(A \o N)
          /\ Len(A \o N) = Len(A) + Len(N)
          /\ \A k \in 1 .. Len(N) : (A \o N)[Len(A) + k] = N[k]
      BY <1>3, <2>3, JoinTail
    <3> QED BY <2>3, <3>1
  <2>6. Tail(Unread) = N
    BY <1>3, <2>3, <2>4, <2>5, NoMore
  <2>7. Len(N) \in Nat /\ Len(N) >= 1 /\ 1 \in 1 .. Len(N) /\ 1 + 1 = 2
    BY <1>3, EventDone
  <2>8. Unread[2] = Head(received)
    BY <1>3, <2>4, <2>5, <2>7
  <2>9. Len(Unread) = 1 + Len(received) + Len(native)
    BY <1>2, <1>3, <2>4, <2>5
  <2>10. \E f \in NatFlags : Unread[2].flags = {f}
    <3>1. /\ DOMAIN Unread = 1 .. Len(Unread) /\ Len(Unread) = 1 + Len(N)
      BY <1>1, <2>4, <2>5, LenProperties
    <3>2. 2 \in DOMAIN Unread
      BY <2>7, <3>1
    <3> QED BY <1>1, <3>2 DEF OneFlag
  <2> QED BY <1>1, <1>2, <1>3, <1>5, <2>1, <2>4, <2>5, <2>6, <2>8, <2>9, <2>10 DEF a, N
<1> QED BY <1>4, <1>5


\* after an event that is no first half of a rename comes no second half
LEMMA NextWhole ==
  ASSUME NEW R \in Seq(NatEvents), R # <<>>, Halves(R), ~Is(R[1], "renamed"),
         NEW s \in Seq(NatEvents), s # <<>>, NEW t \in Seq(NatEvents), Tail(R) = s \o t
  PROVE  ~Is(Head(s), "renamedTo")
<1>1. /\ s \o t \in Seq(NatEvents) /\ s \o t # <<>> /\ (s \o t)[1] = Head(s)
  BY JoinTail
<1>2. Len(s \o t) \in Nat /\ Len(s \o t) >= 1
  BY <1>1, EventDone
<1>3. /\ Len(R) \in Nat /\ DOMAIN R = 1 .. Len(R) /\ Len(Tail(R)) = Len(R) - 1
      /\ \A k \in 1 .. Len(R) - 1 : Tail(R)[k] = R[k + 1]
  BY EventDone
<1> DEFINE n == Len(R)
           m == Len(s \o t)
<1>4. n \in Nat /\ m \in Nat /\ m >= 1 /\ m = n - 1
  BY <1>2, <1>3
<1> HIDE DEF n, m
<1>5. 1 \in 1 .. n - 1 /\ 2 \in 1 .. n /\ 1 + 1 = 2 /\ 2 - 1 = 1 /\ 2 > 1
  BY <1>4
<1>6. 2 \in DOMAIN R /\ R[2] = Head(s)
  BY <1>1, <1>3, <1>5 DEF n
<1> QED BY <1>5, <1>6 DEF Halves

LEMMA HeadFirst ==
  ASSUME NEW s \in Seq(NatEvents), s # <<>>
  PROVE  <<Head(s)>> \o Tail(s) = s
<1> DEFINE A == <<Head(s)>>
           B == Tail(s)
<1>1. /\ B \in Seq(NatEvents) /\ Len(B) = Len(s) - 1 /\ Head(s) = s[1] /\ s[1] \in NatEvents
      /\ \A k \in 1 .. Len(s) - 1 : B[k] = s[k + 1]
      /\ Len(s) \in Nat /\ Len(s) >= 1
  BY EventDone
<1>2. A \in Seq(NatEvents) /\ Len(A) = 1 /\ A[1] = s[1] /\ A # <<>>
  <2>1. Head(s) \in NatEvents
    BY <1>1
  <2> QED BY <1>1, <2>1, OneEvent
<1> HIDE DEF A, B
<1>3. /\ A \o B \in Seq(NatEvents) /\ Len(A \o B) = Len(A) + Len(B)
      /\ (\A k \in 1 .. Len(A) : (A \o B)[k] = A[k])
      /\ \A k \in 1 .. Len(B) : (A \o B)[Len(A) + k] = B[k]
  BY <1>1, <1>2, JoinTail
<1> DEFINE n == Len(s)
<1>4. /\ n \in Nat /\ n >= 1 /\ Len(A \o B) = n /\ (A \o B)[1] = s[1]
      /\ \A k \in 1 .. n - 1 : (A \o B)[1 + k] = s[k + 1]
  BY <1>1, <1>2, <1>3
<1>5. \A i \in 1 .. n : (A \o B)[i] = s[i]
  <2> HIDE DEF n
  <2> SUFFICES ASSUME NEW i \in 1 .. n, i # 1 PROVE (A \o B)[i] = s[i]
    BY <1>4
  <2>1. i - 1 \in 1 .. n - 1 /\ 1 + (i - 1) = i /\ (i - 1) + 1 = i
    BY <1>4
  <2> QED BY <1>4, <2>1
<1>6. A \o B = s
  BY <1>3, <1>4, <1>5, SeqEqual
<1> QED BY <1>6 DEF A, B

LEMMA TypedWin ==
  ASSUME NatTyped, system = "Windows", UNCHANGED <<system, tree, native, fsView>>,
         received' \in Seq(NatEvents),
         NEW Q, Unread' = Q, OneFlag(Q), CreatedAnew(Q, fsView, InosOf(tree)), toldPaths' \subseteq Paths,
         HalfRead' => renamedSrc' \in Paths
  PROVE  /\ NatTyped'
         /\ FileEvents(Q, toldPaths', tree) => NatSound'
<1>1. TreeSound' /\ InosKnown'
  BY DEF NatTyped, TreeSound, InosKnown
<1>2. /\ OneFlag(Unread') /\ CreatedAnew(Unread', fsView', InosOf(tree'))
      /\ FileEvents(Q, toldPaths', tree) => FileEvents(Unread', toldPaths', tree')
  OBVIOUS
<1>3. NatTyped'
  BY <1>1, <1>2 DEF NatTyped
<1>4. system' # "macOS"
  OBVIOUS
<1>5. FileEvents(Unread', toldPaths', tree') => FilePhase'
  BY <1>4 DEF FilePhase
<1> QED BY <1>2, <1>3, <1>5 DEF NatSound

\* the first half of a rename waits in renamedSrc for the second
LEMMA WinFrom ==
  ASSUME NatSound, WinEvent, UNCHANGED system, Is(Head(received), "renamed")
  PROVE  NatSound'
<1> DEFINE e == Head(received)
<1>1. /\ system = "Windows" /\ received # <<>> /\ UNCHANGED <<system, tree, native, fsView>>
      /\ renamedSrc' = e.path /\ received' = Tail(received) /\ NatTyped
  BY DEF WinEvent, NatSound
<1>2. /\ received \in Seq(NatEvents) /\ native \in Seq(NatEvents) /\ fsView = {}
      /\ e \in NatEvents /\ Tail(received) \in Seq(NatEvents)
      /\ Unread \in Seq(NatEvents) /\ Unread # <<>> /\ OneFlag(Unread)
      /\ (\E f \in NatFlags : e.flags = {f})
      /\ ~HalfRead => /\ Unread = received \o native /\ Unread[1] = e
                      /\ Tail(Unread) = Tail(received) \o native
  BY <1>1, FrontWin
<1>3. e.flags = {"renamed"}
  BY <1>2, FlagOf
<1>4. toldPaths' = toldPaths
  BY <1>3 DEF WinEvent, Is
<1> HIDE DEF e
<1>5. ~HalfRead
  BY <1>3 DEF HalfRead, Is, e
<1>6. Unread = received \o native /\ Unread[1] = e /\ Tail(Unread) = Tail(received) \o native
  BY <1>2, <1>5
<1>7. /\ Len(Unread) \in Nat /\ DOMAIN Unread = 1 .. Len(Unread) /\ Len(Unread) >= 1
      /\ \A k \in 1 .. Len(Unread) - 1 : Tail(Unread)[k] = Unread[k + 1]
      /\ Len(Tail(Unread)) = Len(Unread) - 1 /\ Tail(Unread) \in Seq(NatEvents)
  BY <1>2, EventDone
<1>8. Len(Unread) > 1 /\ Is(Unread[2], "renamedTo") /\ Unread[2].ino = e.ino
  <2>1. Is(Unread[1], "renamed") /\ ~Is(Unread[1], "created") /\ ~Is(Unread[1], "removed")
    BY <1>3, <1>6 DEF Is
  <2>2. CASE FilePhase
    <3>1. 1 \in DOMAIN Unread /\ 1 + 1 = 2
      BY <1>7
    <3>2. 1 < Len(Unread) /\ Is(Unread[1 + 1], "renamedTo") /\ Unread[1 + 1].ino = Unread[1].ino
      BY <2>1, <2>2, <3>1 DEF FilePhase, FileEvents, Halves
    <3> QED BY <1>6, <1>7, <3>1, <3>2
  <2>3. CASE DirPhase
    BY <1>6, <2>1, <2>3 DEF DirPhase
  <2> QED BY <2>2, <2>3 DEF NatSound
<1>9. Tail(Unread) # <<>> /\ Tail(Unread)[1] = Unread[2]
  <2> DEFINE n == Len(Unread)
  <2>1. n \in Nat /\ n > 1
    BY <1>7, <1>8
  <2>2. 1 \in 1 .. n - 1 /\ 1 + 1 = 2 /\ n - 1 # 0
    <3> HIDE DEF n
    <3> QED BY <2>1
  <2>3. Tail(Unread) # <<>>
    BY <1>7, <2>2, NoLength
  <2> QED BY <1>7, <2>2, <2>3
<1>10. Tail(received) # <<>>
  <2>1. ASSUME Tail(received) = <<>> PROVE FALSE
    <3>1. Tail(Unread) = native
      BY <1>2, <1>6, <2>1, NoMore
    <3>2. native # <<>> /\ Head(native) = native[1]
      BY <1>2, <1>9, <3>1, EventDone
    <3>3. Is(Head(native), "renamedTo")
      BY <1>8, <1>9, <3>1, <3>2
    <3> QED BY <1>1, <3>2, <3>3 DEF NatTyped
  <2> QED BY <2>1
<1>11. Head(received') = Unread[2]
  <2>1. (Tail(received) \o native)[1] = Head(Tail(received))
    BY <1>2, <1>10, JoinTail
  <2> QED BY <1>1, <1>6, <1>9, <2>1
<1>12. HalfRead'
  BY <1>1, <1>8, <1>10, <1>11 DEF HalfRead
<1>13. Unread' = Unread
  <2>1. Ev(renamedSrc', Head(received').ino, "renamed") = e
    <3>1. Ev(e.path, e.ino, "renamed") = e
      BY <1>2, <1>3 DEF Ev, NatEvents
    <3> QED BY <1>1, <1>8, <1>11, <3>1
  <2>2. Reading' = <<Ev(renamedSrc', Head(received').ino, "renamed")>> \o received'
    BY <1>12 DEF Reading, Ev
  <2>3. Reading' = <<e>> \o Tail(received)
    BY <1>1, <2>1, <2>2
  <2>4. Reading' = received
    <3>1. <<e>> \o Tail(received) = received
      BY <1>1, <1>2, HeadFirst DEF e
    <3> QED BY <2>3, <3>1
  <2> QED BY <1>1, <1>6, <2>4 DEF Unread
<1>14. NatTyped' /\ (FileEvents(Unread, toldPaths', tree) => NatSound')
  <2>1. received' \in Seq(NatEvents) /\ OneFlag(Unread) /\ CreatedAnew(Unread, fsView, InosOf(tree))
        /\ toldPaths' \subseteq Paths /\ renamedSrc' \in Paths
    BY <1>1, <1>2, <1>4 DEF NatTyped, NatEvents
  <2> QED BY <1>1, <1>13, <2>1, TypedWin
<1>15. CASE FilePhase
  BY <1>4, <1>14, <1>15 DEF FilePhase
<1>16. CASE DirPhase
  <2>1. Len(Unread) = 2 => native' = <<>>
    BY <1>1, <1>16 DEF DirPhase
  <2>2. DirPhase'
    BY <1>1, <1>4, <1>13, <1>16, <2>1, SameDirs
  <2> QED BY <1>14, <2>2 DEF NatSound
<1> QED BY <1>15, <1>16 DEF NatSound

\* the second half of a rename takes what renamedSrc holds
LEMMA WinTo ==
  ASSUME NatSound, WinEvent, UNCHANGED system, Is(Head(received), "renamedTo")
  PROVE  NatSound'
<1> DEFINE e == Head(received)
           a == Ev(renamedSrc, e.ino, "renamed")
           R == Tail(Unread)
<1>1. /\ system = "Windows" /\ received # <<>> /\ UNCHANGED <<system, tree, native, fsView>>
      /\ received' = Tail(received) /\ NatTyped
      /\ toldPaths' = MovedTo(toldPaths, renamedSrc, e.path)
  BY DEF WinEvent, NatSound
<1>2. HalfRead
  BY <1>1 DEF HalfRead
<1>3. /\ received \in Seq(NatEvents) /\ native \in Seq(NatEvents) /\ fsView = {}
      /\ e \in NatEvents /\ Tail(received) \in Seq(NatEvents)
      /\ Unread \in Seq(NatEvents) /\ Unread # <<>> /\ OneFlag(Unread)
      /\ (\E f \in NatFlags : e.flags = {f})
      /\ a \in NatEvents /\ Unread[1] = a /\ Unread[2] = e
      /\ R = received \o native /\ Tail(R) = Tail(received) \o native
      /\ R \in Seq(NatEvents) /\ R # <<>> /\ R[1] = e
      /\ Len(Unread) = 1 + Len(received) + Len(native)
  BY <1>1, <1>2, FrontWin
<1>4. e.flags = {"renamedTo"} /\ a.flags = {"renamed"} /\ a.path = renamedSrc
  BY <1>3, FlagOf DEF Ev
<1>5. CreatedAnew(Unread, fsView, InosOf(tree)) /\ toldPaths \subseteq Paths /\ renamedSrc \in Paths
  BY <1>1, <1>2 DEF NatTyped
<1> HIDE DEF e, a, R
<1>6. Len(received) \in Nat /\ Len(received) >= 1 /\ Len(native) \in Nat /\ Len(Unread) >= 2 /\ Len(Unread) \in Nat
  <2>1. Len(received) \in Nat /\ Len(received) >= 1 /\ Len(native) \in Nat
    BY <1>1, <1>3, JoinTail
  <2> QED BY <1>3, <2>1
<1>7. CreatedAnew(Tail(R), fsView, InosOf(tree)) /\ OneFlag(Tail(R))
  <2>1. CreatedAnew(R, fsView, InosOf(tree))
    <3>1. fsView \subseteq fsView \cup {Unread[1].ino} /\ (Is(Unread[1], "removed") => Unread[1].ino \notin fsView)
      BY <1>3
    <3> QED BY <1>3, <1>5, <3>1, EventDoneAnew DEF R
  <2>2. fsView \subseteq fsView \cup {R[1].ino} /\ (Is(R[1], "removed") => R[1].ino \notin fsView)
    BY <1>3
  <2>3. OneFlag(R)
    BY <1>3, DoneRest DEF R
  <2> QED BY <1>3, <2>1, <2>2, <2>3, EventDoneAnew, DoneRest
<1>8. ASSUME ~HalfRead', toldPaths' \subseteq Paths, FileEvents(Tail(R), toldPaths', tree)
      PROVE  NatSound'
  <2>1. Unread' = Tail(R)
    BY <1>1, <1>3, <1>8 DEF Unread, Reading
  <2>2. received' \in Seq(NatEvents)
    BY <1>1, <1>3
  <2> QED BY <1>1, <1>7, <1>8, <2>1, <2>2, TypedWin
<1>9. CASE FilePhase
  <2>1. FileEvents(Unread, toldPaths, tree)
    BY <1>9 DEF FilePhase
  <2>2. e.path \in Files
    <3>1. 2 \in DOMAIN Unread
      BY <1>3, <1>6, LenProperties
    <3> QED BY <1>3, <2>1, <3>1 DEF FileEvents
  <2> DEFINE K1 == toldPaths \ {renamedSrc}
  <2>3. FileEvents(R, K1, tree)
    <3>1. "renamed" \in NatFlags /\ K1 = toldPaths \ {Unread[1].path} /\ Unread[1].flags = {"renamed"}
      BY <1>3, <1>4 DEF NatFlags
    <3> HIDE DEF K1
    <3> QED BY <1>3, <2>1, <3>1, DoneTouch DEF R
  <2>4. toldPaths' = K1 \cup {R[1].path}
    BY <1>1, <1>3, <2>2, FileMoved
  <2> HIDE DEF K1
  <2>5. FileEvents(Tail(R), toldPaths', tree)
    <3>1. "renamedTo" \in NatFlags /\ R[1].flags = {"renamedTo"}
      BY <1>3, <1>4 DEF NatFlags
    <3> QED BY <1>3, <2>3, <2>4, <3>1, DoneTouch
  <2>6. ~HalfRead'
    <3>1. Halves(R)
      BY <2>3 DEF FileEvents
    <3>2. ~Is(R[1], "renamed")
      BY <1>3, <1>4 DEF Is
    <3>3. Tail(received) # <<>> => ~Is(Head(Tail(received)), "renamedTo")
      BY <1>3, <3>1, <3>2, NextWhole
    <3> QED BY <1>1, <3>3 DEF HalfRead
  <2>7. toldPaths' \subseteq Paths
    BY <1>3, <1>5, <2>2, <2>4 DEF K1, Paths
  <2> QED BY <1>8, <2>5, <2>6, <2>7
<1>10. CASE DirPhase
  <2>1. /\ Len(Unread) = 2
        /\ DOMAIN tree = MovedTo(toldPaths, Unread[1].path, Unread[2].path)
    BY <1>6, <1>10 DEF DirPhase
  <2>2. toldPaths' = DOMAIN tree
    BY <1>1, <1>3, <1>4, <2>1
  <2>3. Len(received) = 1 /\ Len(native) = 0
    <3> DEFINE n == Len(received)
               m == Len(native)
    <3>1. n \in Nat /\ m \in Nat /\ n >= 1 /\ 2 = 1 + n + m
      BY <1>3, <1>6, <2>1
    <3> HIDE DEF n, m
    <3>2. n = 1 /\ m = 0
      BY <3>1
    <3> QED BY <3>2 DEF n, m
  <2>4. Tail(received) = <<>> /\ native = <<>>
    BY <1>1, <1>3, <2>3, AtEnd, NoLength
  <2>5. Tail(R) = <<>>
    BY <1>3, <2>4, NoMore, NoneYet
  <2>6. ~HalfRead'
    BY <1>1, <2>4 DEF HalfRead
  <2>7. FileEvents(<<>>, toldPaths', tree)
    <3> DEFINE K == toldPaths'
    <3>1. K = DOMAIN tree
      BY <2>2
    <3> HIDE DEF K
    <3>2. FileEvents(<<>>, K, tree)
      BY <3>1, EmptyFollows
    <3> QED BY <3>2 DEF K
  <2>8. toldPaths' \subseteq Paths
    BY <1>1, <2>2 DEF NatTyped, TreeSound
  <2> QED BY <1>8, <2>5, <2>6, <2>7, <2>8
<1> QED BY <1>9, <1>10 DEF NatSound

LEMMA WinPlain ==
  ASSUME NatSound, WinEvent, UNCHANGED system,
         ~Is(Head(received), "renamed"), ~Is(Head(received), "renamedTo")
  PROVE  NatSound'
<1> DEFINE e == Head(received)
           R == Tail(Unread)
<1>1. /\ system = "Windows" /\ received # <<>> /\ UNCHANGED <<system, tree, native, fsView>>
      /\ received' = Tail(received) /\ NatTyped
      /\ toldPaths' = IF Is(e, "created") THEN SubCreated(toldPaths \cup {e.path}, e.path)
                      ELSE IF Is(e, "removed") THEN toldPaths \ {e.path}
                      ELSE toldPaths
  BY DEF WinEvent, NatSound
<1>2. ~HalfRead
  BY DEF HalfRead
<1>3. /\ received \in Seq(NatEvents) /\ native \in Seq(NatEvents) /\ fsView = {}
      /\ e \in NatEvents /\ Tail(received) \in Seq(NatEvents)
      /\ Unread \in Seq(NatEvents) /\ Unread # <<>> /\ OneFlag(Unread)
      /\ (\E f \in NatFlags : e.flags = {f})
      /\ Unread = received \o native /\ Unread[1] = e
      /\ R = Tail(received) \o native /\ Len(Unread) = Len(received) + Len(native)
  BY <1>1, <1>2, FrontWin
<1>4. PICK f \in {"created", "removed", "modified"} : f \in NatFlags /\ e.flags = {f}
  BY <1>3 DEF NatFlags, Is
<1>5. (\A g : Is(e, g) <=> g = f) /\ e.path \in Paths
  BY <1>3, <1>4, FlagIs DEF NatEvents
<1>6. CreatedAnew(Unread, fsView, InosOf(tree)) /\ toldPaths \subseteq Paths
  BY <1>1 DEF NatTyped
<1> HIDE DEF e, R
<1>7. CreatedAnew(R, fsView, InosOf(tree)) /\ OneFlag(R)
  <2>1. fsView \subseteq fsView \cup {Unread[1].ino} /\ (Is(Unread[1], "removed") => Unread[1].ino \notin fsView)
    BY <1>3
  <2> QED BY <1>3, <1>6, <2>1, EventDoneAnew, DoneRest DEF R
<1>8. ASSUME ~HalfRead', toldPaths' \subseteq Paths, FileEvents(R, toldPaths', tree)
      PROVE  NatSound'
  <2>1. Unread' = R
    BY <1>1, <1>3, <1>8 DEF Unread, Reading
  <2>2. received' \in Seq(NatEvents)
    BY <1>1, <1>3
  <2> QED BY <1>1, <1>7, <1>8, <2>1, <2>2, TypedWin
<1>9. CASE FilePhase
  <2>1. FileEvents(Unread, toldPaths, tree)
    BY <1>9 DEF FilePhase
  <2>2. e.path \in Files
    <3>1. 1 \in DOMAIN Unread
      BY <1>3, EventDone
    <3> QED BY <1>3, <2>1, <3>1 DEF FileEvents
  <2>3. /\ f = "created" => toldPaths' = toldPaths \cup {e.path}
        /\ f = "removed" => toldPaths' = toldPaths \ {e.path}
        /\ f = "modified" => toldPaths' = toldPaths
    <3>1. SubCreated(toldPaths \cup {e.path}, e.path) = toldPaths \cup {e.path}
      BY <2>2, FileMoved
    <3> QED BY <1>1, <1>5, <3>1 DEF e
  <2>4. FileEvents(R, toldPaths', tree)
    <3> DEFINE K2 == toldPaths'
    <3>1. \/ f \in {"created", "renamedTo"} /\ K2 = toldPaths \cup {Unread[1].path}
          \/ f \in {"removed", "renamed"} /\ K2 = toldPaths \ {Unread[1].path}
          \/ f = "modified" /\ K2 = toldPaths
      BY <1>3, <1>4, <2>3
    <3>2. Unread[1].flags = {f} /\ f \in NatFlags
      BY <1>3, <1>4
    <3> HIDE DEF K2
    <3>3. FileEvents(R, K2, tree)
      BY <1>3, <2>1, <3>1, <3>2, DoneTouch DEF R
    <3> QED BY <3>3 DEF K2
  <2>5. ~HalfRead'
    <3>1. Halves(Unread) /\ ~Is(Unread[1], "renamed")
      BY <1>3, <2>1 DEF FileEvents, e
    <3>2. Tail(received) # <<>> => ~Is(Head(Tail(received)), "renamedTo")
      BY <1>3, <3>1, NextWhole DEF R
    <3> QED BY <1>1, <3>2 DEF HalfRead
  <2>6. toldPaths' \subseteq Paths
    BY <1>4, <1>5, <1>6, <2>3
  <2> QED BY <1>8, <2>4, <2>5, <2>6
<1>10. CASE DirPhase
  <2>1. /\ Len(Unread) = 1
        /\ \/ f = "created" /\ DOMAIN tree = toldPaths \cup {e.path}
           \/ f = "removed" /\ DOMAIN tree = toldPaths \ {e.path}
    BY <1>3, <1>5, <1>10 DEF DirPhase, e
  <2>2. toldPaths' = DOMAIN tree
    <3>1. CASE f = "created"
      <4>1. toldPaths' = SubCreated(DOMAIN tree, e.path)
        BY <1>1, <1>5, <2>1, <3>1 DEF e
      <4> QED BY <4>1 DEF SubCreated
    <3>2. CASE f = "removed"
      BY <1>1, <1>5, <2>1, <3>2 DEF e
    <3> QED BY <2>1, <3>1, <3>2
  <2>3. Len(received) = 1
    <3> DEFINE n == Len(received)
               m == Len(native)
    <3>1. n \in Nat /\ m \in Nat /\ n >= 1
      BY <1>1, <1>3, JoinTail
    <3>2. 1 = n + m
      BY <1>3, <2>1
    <3> HIDE DEF n, m
    <3>3. n = 1
      BY <3>1, <3>2
    <3> QED BY <3>3 DEF n
  <2>4. Tail(received) = <<>> /\ R = <<>>
    BY <1>1, <1>3, <2>1, <2>3, AtEnd DEF R
  <2>5. ~HalfRead'
    BY <1>1, <2>4 DEF HalfRead
  <2>6. FileEvents(<<>>, toldPaths', tree)
    <3> DEFINE K == toldPaths'
    <3>1. K = DOMAIN tree
      BY <2>2
    <3> HIDE DEF K
    <3>2. FileEvents(<<>>, K, tree)
      BY <3>1, EmptyFollows
    <3> QED BY <3>2 DEF K
  <2>7. toldPaths' \subseteq Paths
    BY <1>1, <2>2 DEF NatTyped, TreeSound
  <2> QED BY <1>8, <2>4, <2>5, <2>6, <2>7
<1> QED BY <1>9, <1>10 DEF NatSound

LEMMA WinEventFollows ==
  ASSUME NatInv, WinEvent, UNCHANGED system
  PROVE  NatInv'
<1>1. UNCHANGED <<dirRaced, splitRename, blended>>
  BY DEF WinEvent
<1> QED BY <1>1, WinFrom, WinTo, WinPlain DEF NatInv

LEMMA NatInitFollows ==
  ASSUME NatInit
  PROVE  NatInv
<1>1. tree = [p \in {Top} |-> [ino |-> "top", mtime |-> 0]] /\ native = <<>> /\ received = <<>>
      /\ fsView = {} /\ toldPaths = DOMAIN tree
  BY DEF NatInit, TreeInit
<1>2. Unread = <<>> /\ ~HalfRead
  <2>1. Unread = <<>> \o <<>> /\ ~HalfRead
    BY <1>1 DEF Unread, Reading, HalfRead
  <2> QED BY <2>1, NoMore, NoneYet
<1>3. DOMAIN tree = {Top} /\ tree[Top].ino = "top"
  BY <1>1
<1>4. TreeSound /\ InosKnown
  BY <1>3 DEF TreeSound, InosKnown, Paths
<1>5. CreatedAnew(<<>>, {}, InosOf(tree))
  <2>1. DOMAIN <<>> = {} /\ Len(<<>>) = 0
    OBVIOUS
  <2>2. \A i : Freed(<<>>, {}, 0 + 1, i)
    <3>1. \A j \in 1 .. (0 + 1) - 1 : FALSE
      OBVIOUS
    <3> QED BY <3>1 DEF Freed
  <2> QED BY <2>1, <2>2 DEF CreatedAnew
<1>6. toldPaths \subseteq Paths /\ received \in Seq(NatEvents) /\ native \in Seq(NatEvents) /\ native = <<>>
  BY <1>1, <1>4, NoneYet DEF TreeSound
<1>7. NatTyped
  <2>1. OneFlag(Unread) /\ CreatedAnew(Unread, fsView, InosOf(tree))
    BY <1>1, <1>2, <1>5, NoneDistinct
  <2> QED BY <1>1, <1>2, <1>4, <1>6, <2>1 DEF NatTyped
<1>8. FilePhase
  <2>1. FileEvents(Unread, toldPaths, tree)
    BY <1>1, <1>2, EmptyFollows
  <2>2. AllDistinct(received) /\ AllDistinct(native)
    BY <1>1, NoneDistinct
  <2> QED BY <2>1, <2>2 DEF FilePhase
<1> QED BY <1>7, <1>8 DEF NatInv, NatSound

\* FSEventsEmitter and WindowsApiEmitter, queue_events: unless a read split a rename, events
\* were merged or a directory raced, what is told and the events still unread lead to the
\* tree: every path's last event says whether it exists, the halves of a rename are side by
\* side, and events of a directory are alone.
THEOREM NatInvariant == NatSpec => []NatInv
<1>1. NatInit => NatInv
  BY NatInitFollows
<1>2. NatInv /\ [NatNext /\ UNCHANGED system]_<<system, tree, edits, natVars>> => NatInv'
  <2> SUFFICES ASSUME NatInv, [NatNext /\ UNCHANGED system]_<<system, tree, edits, natVars>> PROVE NatInv'
    OBVIOUS
  <2>1. CASE NatNext /\ UNCHANGED system
    BY <2>1, EditFollows, DeliverFollows, FSEventFollows, WinEventFollows DEF NatNext
  <2>2. CASE UNCHANGED <<system, tree, edits, natVars>>
    <3>1. UNCHANGED <<system, tree, native, received, renamedSrc, fsView, toldPaths, splitRename, dirRaced, blended>>
      BY <2>2 DEF natVars
    <3>2. Unread' = Unread /\ (HalfRead' <=> HalfRead)
      BY <3>1 DEF Unread, Reading, HalfRead
    <3>3. NatTyped => NatTyped'
      BY <3>1, <3>2 DEF NatTyped, TreeSound, InosKnown
    <3>4. FilePhase => FilePhase'
      BY <3>1, <3>2 DEF FilePhase
    <3>5. DirPhase => DirPhase'
      <4>1. DirPhase => (Len(Unread) = 2 => received' = <<>> \/ native' = <<>>)
        BY <3>1 DEF DirPhase
      <4> QED BY <3>1, <3>2, <4>1, SameDirs
    <3> QED BY <3>1, <3>3, <3>4, <3>5 DEF NatInv, NatSound
  <2> QED BY <2>1, <2>2
<1> QED BY <1>1, <1>2, PTL DEF NatSpec

\* queue_events of both emitters: when everything native is handled, a handler that follows
\* the queued events knows exactly the paths that exist, unless a read split a rename,
\* macOS merged events, or the tree changed under an open event of a directory.
THEOREM NativeCorrect == NatSpec => []NativeFollows
<1>1. NatInv => NativeFollows
  <2> SUFFICES ASSUME NatInv, native = <<>>, received = <<>>, ~dirRaced, ~splitRename, ~blended
               PROVE  toldPaths = DOMAIN tree
    BY DEF NativeFollows
  <2>1. Unread = <<>> \o <<>>
    BY DEF Unread, Reading, HalfRead
  <2>2. Unread = <<>>
    BY <2>1, NoMore, NoneYet
  <2> QED BY <2>2, NothingUnread DEF NatInv
<1> QED BY <1>1, NatInvariant, PTL
=============================================================================
