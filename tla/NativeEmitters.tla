--------------------------- MODULE NativeEmitters ---------------------------
(* The emitters of macOS and Windows: FSEventsEmitter.queue_events              *)
(* (src/src/watchdog/observers/fsevents.py) and WindowsApiEmitter.queue_events  *)
(* (read_directory_changes.py), with the synthetic events of events.py. What an  *)
(* emitter queues is followed by a handler that keeps the set of known paths.    *)
EXTENDS DirSnapshot, SequencesExt

VARIABLES
  native,      \* external: native events not yet read
  received,    \* the native events of one callback, or one read
  renamedSrc,  \* last_renamed_src_path of the read, <<"">> when empty
  fsView,      \* FSEventsEmitter._fs_view
  toldPaths,   \* external: the paths a handler knows of
  splitRename, \* history: a read ended between the halves of a rename (macOS: of a
               \* directory)
  dirRaced,    \* history: the tree changed while events about a directory were open
  blended      \* history: macOS merged events of one path

natVars == <<native, received, renamedSrc, fsView, toldPaths, splitRename, dirRaced, blended>>

NatInit == /\ TreeInit /\ native = <<>> /\ received = <<>> /\ renamedSrc = <<"">> /\ fsView = {}
           /\ toldPaths = DOMAIN tree /\ splitRename = FALSE /\ dirRaced = FALSE /\ blended = FALSE

Ev(p, i, f) == [path |-> p, ino |-> i, flags |-> {f}]

\* external: the native events of one change, which ends, moves, begins and touches an inode
\* at most; what moves along with its directory has none
ChangeEvents(t, u) ==
  LET inos(x) == {x[p].ino : p \in DOMAIN x}
      at(x, i) == CHOOSE p \in DOMAIN x : x[p].ino = i
      stay == inos(t) \cap inos(u)
      along(i) == /\ DirOf(at(u, i)) # DirOf(at(t, i))
                  /\ u[DirOf(at(u, i))].ino = t[DirOf(at(t, i))].ino
      moved == {i \in stay : at(t, i) # at(u, i) /\ ~along(i)}
      touched == {i \in stay : t[at(t, i)].mtime # u[at(u, i)].mtime}
      ofMove(i) == IF system = "Windows" /\ DirOf(at(t, i)) # DirOf(at(u, i))
                   THEN <<Ev(at(t, i), i, "removed"), Ev(at(u, i), i, "created")>>
                   ELSE <<Ev(at(t, i), i, "renamed"), Ev(at(u, i), i, "renamedTo")>>
      ofOne(S, op(_)) == IF S = {} THEN <<>> ELSE op(CHOOSE i \in S : TRUE)
  IN  ofOne(inos(t) \ inos(u), LAMBDA i : <<Ev(at(t, i), i, "removed")>>)
      \o ofOne(moved, ofMove)
      \o ofOne(inos(u) \ inos(t), LAMBDA i : <<Ev(at(u, i), i, "created")>>)
      \o ofOne(touched, LAMBDA i : <<Ev(at(u, i), i, "modified")>>)

\* macOS: an event of a path and inode that is still unread takes the new flag, too
Merge(old, e) ==
  LET same == {k \in DOMAIN old : old[k].path = e.path /\ old[k].ino = e.ino}
  IN  IF system = "macOS" /\ same # {}
      THEN [k \in DOMAIN old |-> IF k \in same THEN [old[k] EXCEPT !.flags = @ \cup e.flags]
                                 ELSE old[k]]
      ELSE Append(old, e)

Open == native \o received

NatEdit ==
  /\ system \in {"macOS", "Windows"} /\ Edit
  /\ LET new == ChangeEvents(tree, tree')
         all == FoldLeft(Merge, native, new)
     IN  /\ native' = all
         /\ blended' = (blended \/ Len(all) < Len(native) + Len(new))
         /\ dirRaced' = (dirRaced \/ (Open # <<>> /\ \E k \in DOMAIN (Open \o new) :
                                                    IsDir((Open \o new)[k].path)))
  /\ UNCHANGED <<received, renamedSrc, fsView, toldPaths, splitRename>>

\* a callback or a read delivers the first events that wait
Deliver ==
  /\ system \in {"macOS", "Windows"} /\ received = <<>> /\ native # <<>>
  /\ \E n \in 1..Len(native) :
       /\ received' = SubSeq(native, 1, n) /\ native' = SubSeq(native, n + 1, Len(native))
       /\ splitRename' = (splitRename \/ (n < Len(native) /\ "renamedTo" \in native[n + 1].flags
                           /\ (system = "Windows" \/ IsDir(native[n + 1].path))))
  /\ renamedSrc' = <<"">>
  /\ UNCHANGED <<tree, edits, fsView, toldPaths, dirRaced, blended>>

-----------------------------------------------------------------------------
\* generate_sub_moved_events and generate_sub_created_events walk the directory now
SubMoved(v, from, to) ==
  LET kids == Children(to) \cap DOMAIN tree
  IN  (v \ {from \o <<Last(k)>> : k \in kids}) \cup kids
SubCreated(v, p) == v \cup (Children(p) \cap DOMAIN tree)

\* mutant: a renamed directory is told, what is below it is not
MutMovedTo(v, from, to) == (v \ {from}) \cup {to}

MovedTo(v, from, to) == SubMoved((v \ {from}) \cup {to}, from, to)

Is(e, f) == f \in e.flags
Renamed(e) == Is(e, "renamed") \/ Is(e, "renamedTo")

\* FSEventsEmitter.queue_events, one native event (is_created, is_removed, ... are
\* flags); a created event of an inode in _fs_view is an old one
FSEvent ==
  /\ system = "macOS" /\ received # <<>>
  /\ LET e == Head(received)
         rest == Tail(received)
         exists == Exists(e.path) /\ tree[e.path].ino = e.ino
         created == Is(e, "created") /\ e.ino \notin fsView
         v == IF created THEN toldPaths \cup {e.path} ELSE toldPaths
         dst == {k \in DOMAIN rest : Renamed(rest[k]) /\ rest[k].ino = e.ino}
         d == rest[CHOOSE k \in dst : \A j \in dst : k <= j]
         gone == Is(e, "removed")
         remove(w) == IF gone THEN w \ {e.path} ELSE w
         forget(S) == IF gone THEN S \ {e.ino} ELSE S
     IN  IF ~Renamed(e) \/ (Is(e, "created") /\ gone)
         THEN /\ toldPaths' = remove(v) /\ fsView' = forget(fsView \cup {e.ino}) /\ received' = rest
         ELSE IF dst # {}
         THEN /\ received' = RemoveAt(rest, CHOOSE k \in dst : \A j \in dst : k <= j)
              /\ LET w == MovedTo(v, e.path, d.path)
                 IN  toldPaths' = remove(IF Is(d, "removed") THEN w \ {d.path} ELSE w)
              /\ fsView' = forget(IF Is(d, "removed") THEN fsView \ {e.ino} ELSE fsView \cup {e.ino})
         ELSE /\ received' = rest
              /\ IF exists
                 THEN /\ toldPaths' = remove(SubCreated(v \cup {e.path}, e.path))
                      /\ fsView' = forget(fsView \cup {e.ino})
                 ELSE toldPaths' = v \ {e.path} /\ fsView' = fsView \ {e.ino}
  /\ UNCHANGED <<tree, edits, native, renamedSrc, splitRename, dirRaced, blended>>

\* WindowsApiEmitter.queue_events, one event of the read
WinEvent ==
  /\ system = "Windows" /\ received # <<>>
  /\ LET e == Head(received)
     IN  /\ renamedSrc' = IF Is(e, "renamed") THEN e.path ELSE renamedSrc
         /\ toldPaths' = IF Is(e, "renamedTo") THEN MovedTo(toldPaths, renamedSrc, e.path)
                     ELSE IF Is(e, "created") THEN SubCreated(toldPaths \cup {e.path}, e.path)
                     ELSE IF Is(e, "removed") THEN toldPaths \ {e.path}
                     ELSE toldPaths
  /\ received' = Tail(received)
  /\ UNCHANGED <<tree, edits, native, fsView, splitRename, dirRaced, blended>>

NatNext == NatEdit \/ Deliver \/ FSEvent \/ WinEvent

NatSpec == NatInit /\ [][NatNext /\ UNCHANGED system]_<<system, tree, edits, natVars>>

\* When everything native is handled, a handler that follows the queued events knows
\* exactly the paths that exist, unless a read ended between the halves of a rename (on
\* Windows the source is then unknown, on macOS the files of a directory are not told),
\* macOS merged the events of one path, or the tree changed under an open event of a
\* directory.
NativeFollows ==
  /\ system \in {"macOS", "Windows"} /\ native = <<>> /\ received = <<>>
  /\ ~dirRaced /\ ~splitRename /\ ~blended
  => toldPaths = DOMAIN tree
=============================================================================
