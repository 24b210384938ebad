------------------------------ MODULE Inotify -------------------------------
(* The Inotify object (src/src/watchdog/observers/inotify_c.py): the two maps   *)
(* between paths and watch descriptors, kept in step with a directory tree that *)
(* changes while the kernel's events wait to be read.                           *)
(*                                                                             *)
(* External: the kernel. A directory is an inode, watched or not; a watch goes  *)
(* with the inode when it is renamed and ends when it is removed, and an inode  *)
(* is watched at most once, so a descriptor is named by its inode.              *)
EXTENDS Naturals, Sequences, FiniteSets, SequencesExt, TLC

CONSTANTS Dirs,       \* inodes of the directories below the root
          Root,       \* the watched root, path <<>>
          DirEntries, \* names of directories
          File,       \* the name of the one file a directory may hold
          MaxDepth,   \* bound: length of a path
          MaxWatches, \* the kernel's limit (ENOSPC)
          MaxTreeChanges, \* bound: changes of the tree
          Recursive   \* Inotify._is_recursive

ASSUME InotifyAssumption ==
  /\ Root \notin Dirs /\ Recursive \in BOOLEAN
  /\ {"new", "out", "gone"} \cap DirEntries = {}
  /\ MaxDepth \in Nat /\ MaxWatches \in Nat \ {0} /\ MaxTreeChanges \in Nat

DirPaths == UNION {[1..n -> DirEntries] : n \in 0..MaxDepth}
Out == <<"out">>        \* outside the watched tree
New == <<"new">>        \* not created yet
Removed == <<"gone">>   \* removed

VARIABLES
  loc,                \* kernel: directory -> path, New, Out or Removed
  files,              \* kernel: directories that hold the file
  watched,            \* kernel: inodes with a watch
  kq,                 \* kernel: events not yet processed
  wdForPath,          \* _wd_for_path
  pathForWd,          \* _path_for_wd
  movedFrom,          \* _moved_from_events: cookie -> path
  walking,            \* the walk of a new directory: <<"watch", path>> and <<"list", path>>
                      \* still to come
  readerThread,       \* "run", or the exception that ended the reader's thread
  treeChanges,        \* bound counter, also the cookie of renames
  renamedEarly,       \* history: a directory was renamed while events were unread, or a walk went on
  left,               \* history: a directory crossed the border of the tree
  full,               \* history: a watch was refused
  reborn              \* history: a directory was made where the walk had found none to watch

kernel == <<loc, files, watched, kq, treeChanges, renamedEarly, left, reborn>>
maps == <<wdForPath, pathForWd, movedFrom>>

All == Dirs \cup {Root}
InTree == {d \in All : loc[d] \notin {New, Out, Removed}}
At(p) == {d \in All : loc[d] = p}
Parent(p) == CHOOSE d \in At(Front(p)) : TRUE
Below(p, q) == IsStrictPrefix(q, p)
Subdirs(d) == {c \in InTree : Below(loc[c], loc[d])}

InotifyInit ==
  /\ loc = [d \in All |-> IF d = Root THEN <<>> ELSE New]
  /\ files = {} /\ watched = {Root} /\ kq = <<>>
  /\ wdForPath = [p \in {<<>>} |-> Root] /\ pathForWd = [d \in {Root} |-> <<>>]
  /\ movedFrom = [c \in {} |-> <<>>]
  /\ walking = {} /\ readerThread = "run" /\ treeChanges = 0
  /\ renamedEarly = FALSE /\ left = FALSE /\ full = FALSE /\ reborn = FALSE

-----------------------------------------------------------------------------
(* External: changes of the tree, and the events the kernel queues for them.    *)

Queued(wd, mask, name) ==
  IF wd \in watched THEN <<[wd |-> wd, mask |-> mask, name |-> name, cookie |-> treeChanges]>>
  ELSE <<>>

Changed(events) ==
  /\ treeChanges < MaxTreeChanges /\ treeChanges' = treeChanges + 1
  /\ kq' = kq \o events
  /\ UNCHANGED <<maps, walking, readerThread, full>>

Free(p) == p # <<>> /\ At(p) = {} /\ At(Front(p)) # {}

Mkdir(d, p) ==
  /\ loc[d] = New /\ Free(p)
  /\ loc' = [loc EXCEPT ![d] = p]
  /\ Changed(Queued(Parent(p), "create", <<Last(p)>>))
  /\ reborn' = (reborn \/ (<<"list", p>> \in walking /\ p \notin DOMAIN wdForPath))
  /\ UNCHANGED <<files, watched, renamedEarly, left>>

\* the event of the parent comes before or after those of the directory itself
Rmdir(d) ==
  /\ d # Root /\ loc[d] \notin {New, Removed} /\ (loc[d] = Out \/ Subdirs(d) = {})
  /\ loc' = [loc EXCEPT ![d] = Removed]
  /\ LET self == Queued(d, "delete_self", <<>>) \o Queued(d, "ignored", <<>>)
         up == IF loc[d] = Out THEN <<>> ELSE Queued(Parent(loc[d]), "delete", <<Last(loc[d])>>)
     IN  \E events \in {self \o up, up \o self} : Changed(events)
  /\ watched' = watched \ {d} /\ files' = files \ {d}
  /\ UNCHANGED <<renamedEarly, left, reborn>>

\* p with prefix `from` replaced by `to`; the code replaces every occurrence, so a tree in
\* which the root's own path occurs again below the root is left out
Rebase(p, from, to) == to \o SubSeq(p, Len(from) + 1, Len(p))

MoveTree(d, q) == [c \in All |-> IF c = d THEN q
                                 ELSE IF c \in Subdirs(d) THEN Rebase(loc[c], loc[d], q)
                                 ELSE loc[c]]

\* rename inside the tree, possibly over an empty directory, which is removed
Rename(d, q) ==
  /\ d \in InTree \ {Root} /\ q # <<>> /\ q # loc[d] /\ ~Below(q, loc[d])
  /\ At(Front(q)) # {} /\ \A c \in Subdirs(d) : Len(loc[c]) - Len(loc[d]) + Len(q) <= MaxDepth
  /\ \A t \in At(q) : Subdirs(t) = {} /\ ~Below(loc[d], q)
  /\ loc' = [c \in All |-> IF c \in At(q) THEN Removed ELSE MoveTree(d, q)[c]]
  /\ LET over == IF At(q) = {} THEN <<>> ELSE
                 LET t == CHOOSE t \in At(q) : TRUE
                 IN  Queued(t, "delete_self", <<>>) \o Queued(t, "ignored", <<>>)
     IN  Changed(Queued(Parent(loc[d]), "moved_from", <<Last(loc[d])>>)
                 \o Queued(Parent(q), "moved_to", <<Last(q)>>) \o over)
  /\ watched' = watched \ At(q) /\ files' = files \ At(q)
  /\ renamedEarly' = (renamedEarly \/ kq # <<>> \/ walking # {})
  /\ UNCHANGED <<left, reborn>>

MoveOut(d) ==
  /\ d \in InTree \ {Root} /\ Subdirs(d) = {}
  /\ loc' = [loc EXCEPT ![d] = Out] /\ left' = TRUE
  /\ Changed(Queued(Parent(loc[d]), "moved_from", <<Last(loc[d])>>))
  /\ UNCHANGED <<files, watched, renamedEarly, reborn>>

MoveIn(d, q) ==
  /\ d \in Dirs /\ loc[d] = Out /\ Free(q)
  /\ loc' = [loc EXCEPT ![d] = q] /\ left' = TRUE
  /\ Changed(Queued(Parent(q), "moved_to", <<Last(q)>>))
  /\ UNCHANGED <<files, watched, renamedEarly, reborn>>

PutFile(d) ==
  /\ loc[d] \notin {New, Removed} /\ d \notin files
  /\ files' = files \cup {d}
  /\ Changed(Queued(d, "create_file", <<File>>))
  /\ UNCHANGED <<loc, watched, renamedEarly, left, reborn>>

-----------------------------------------------------------------------------
(* Inotify.read_events, one event of the buffer at a time.                      *)

\* dict[key] = value
With(f, key, value) == [k \in DOMAIN f \cup {key} |-> IF k = key THEN value ELSE f[k]]
Without(f, key) == [k \in DOMAIN f \ {key} |-> f[k]]

\* clear_move_records, remember_move_from_event, source_for_move
SourceForMove(ev) == IF ev.cookie \in DOMAIN movedFrom THEN {movedFrom[ev.cookie]} ELSE {}

\* mutant: only one of the two maps learns the new paths below the directory
MutMovedWdOneMap(from, to) ==
  LET target(p) == IF p = from \/ Below(p, from) THEN Rebase(p, from, to) ELSE p
      pfw == With(pathForWd, wdForPath[from], to)
  IN  /\ wdForPath' = [k \in {target(p) : p \in DOMAIN wdForPath} |->
                         wdForPath[CHOOSE p \in DOMAIN wdForPath : target(p) = k]]
      /\ pathForWd' = pfw

\* the maps after a directory with a watch is known to have moved: its own entry, then the
\* entries below
RenamedWd(wfp, from, to) == With(Without(wfp, from), to, wfp[from])
Moving(wfp, from) == IF Recursive THEN {p \in DOMAIN wfp : Below(p, from)} ELSE {}

WdsMoved(wfp, from, to) ==
  LET own == RenamedWd(wfp, from, to)
      moving == Moving(own, from)
      origin(k) == {p \in moving : Rebase(p, from, to) = k}
  IN  [k \in (DOMAIN own \ moving) \cup {Rebase(p, from, to) : p \in moving} |->
         IF origin(k) # {} THEN own[CHOOSE p \in origin(k) : TRUE] ELSE own[k]]

PathsMoved(pfw, wfp, from, to) ==
  LET own == RenamedWd(wfp, from, to)
      moving == Moving(own, from)
      moved(wd) == {p \in moving : own[p] = wd}
      known == With(pfw, wfp[from], to)
  IN  [wd \in DOMAIN known \cup {own[p] : p \in moving} |->
         IF moved(wd) # {} THEN Rebase(CHOOSE p \in moved(wd) : TRUE, from, to) ELSE known[wd]]

MovedWd(from, to) == /\ wdForPath' = WdsMoved(wdForPath, from, to)
                     /\ pathForWd' = PathsMoved(pathForWd, wdForPath, from, to)

\* what inotify_add_watch can watch now: the inode at the path, unless the limit is
\* reached (an inode that has a watch already keeps it)
Watchable(p) == {d \in At(p) : d \in watched \/ Cardinality(watched) < MaxWatches}

\* _add_watch: the directory that is at the path now gets a watch, and both maps an entry;
\* or an OSError, for none is there or the limit is reached
AddWatch(p) ==
  \/ \E d \in Watchable(p) : /\ watched' = watched \cup {d}
                            /\ wdForPath' = With(wdForPath, p, d)
                            /\ pathForWd' = With(pathForWd, d, p)
                            /\ UNCHANGED full
  \/ /\ Watchable(p) = {} /\ full' = (full \/ At(p) # {})
     /\ UNCHANGED <<watched, wdForPath, pathForWd>>

\* the event in front; every branch is one of the loop body's
ReadEvents ==
  /\ readerThread = "run" /\ walking = {} /\ kq # <<>>
  /\ kq' = Tail(kq)
  /\ LET ev == Head(kq)
         known == ev.wd \in DOMAIN pathForWd
         src == pathForWd[ev.wd] \o ev.name
     IN  \/ /\ ~known
            /\ readerThread' = "KeyError" /\ UNCHANGED <<maps, walking, watched, full>>
         \/ /\ known /\ ev.mask = "moved_from"
            /\ movedFrom' = With(movedFrom, ev.cookie, src)
            /\ UNCHANGED <<wdForPath, pathForWd, walking, readerThread, watched, full>>
         \/ /\ known /\ ev.mask = "moved_to"
            /\ IF SourceForMove(ev) \cap DOMAIN wdForPath # {}
               THEN MovedWd(movedFrom[ev.cookie], src)
               ELSE UNCHANGED <<wdForPath, pathForWd>>
            /\ UNCHANGED <<movedFrom, walking, readerThread, watched, full>>
         \/ /\ known /\ ev.mask = "ignored"
            /\ pathForWd' = Without(pathForWd, ev.wd)
            /\ IF src \in DOMAIN wdForPath
               THEN /\ wdForPath' = IF wdForPath[src] = ev.wd THEN Without(wdForPath, src)
                                    ELSE wdForPath
                    /\ UNCHANGED readerThread
               ELSE readerThread' = "KeyError" /\ UNCHANGED wdForPath
            /\ UNCHANGED <<movedFrom, walking, watched, full>>
         \/ /\ known /\ ev.mask = "create" /\ Recursive
            /\ AddWatch(src)
            /\ walking' = {w \in {<<"list", src>>} : Watchable(src) # {}}
            /\ UNCHANGED <<movedFrom, readerThread>>
         \/ /\ known
            /\ ev.mask \in {"delete", "delete_self", "create_file"} \cup
                           (IF Recursive THEN {} ELSE {"create"})
            /\ UNCHANGED <<maps, walking, readerThread, watched, full>>
  /\ UNCHANGED <<loc, files, treeChanges, renamedEarly, left, reborn>>

\* _recursive_simulate, of the new directory, step by step: os.walk lists a directory, ...
ListFound ==
  /\ readerThread = "run" /\ \A w \in walking : w[1] = "list"
  /\ \E p \in DirPaths :
       /\ <<"list", p>> \in walking
       /\ walking' = (walking \ {<<"list", p>>})
                     \cup {<<"watch", loc[d]>> : d \in {c \in InTree \ {Root} : Front(loc[c]) = p}}
       /\ readerThread' = IF At(p) \cap files # {} /\ p \notin DOMAIN wdForPath
                          THEN "KeyError" ELSE "run"
  /\ UNCHANGED <<kernel, maps, full>>

\* ... and the directories in it get their watches, if they are still there, before they are
\* listed in turn; a file in one is looked up by the directory's path
WatchFound ==
  /\ readerThread = "run"
  /\ \E p \in DirPaths :
       /\ <<"watch", p>> \in walking /\ AddWatch(p)
       /\ walking' = (walking \ {<<"watch", p>>}) \cup {<<"list", p>>}
  /\ UNCHANGED <<loc, files, kq, treeChanges, renamedEarly, left, reborn, movedFrom, readerThread>>

-----------------------------------------------------------------------------
TreeChange ==
  \/ \E d \in Dirs, p \in DirPaths : Mkdir(d, p) \/ Rename(d, p) \/ MoveIn(d, p)
  \/ \E d \in Dirs : Rmdir(d) \/ MoveOut(d)
  \/ \E d \in All : PutFile(d)

InotifyNext == TreeChange \/ ReadEvents \/ ListFound \/ WatchFound

inotifyVars == <<kernel, maps, walking, readerThread, full>>

InotifySpec == InotifyInit /\ [][InotifyNext]_inotifyVars

-----------------------------------------------------------------------------
(* Properties.                                                                 *)

\* Of a recursive watch. The thread that reads events does not die of a missing key of one
\* of the two maps, although the tree changes while events are unread and while it walks
\* through a new directory; and whenever all events are processed, the maps name exactly the
\* directories of the tree where they are now, and each has a watch, however they were made,
\* renamed, replaced and removed. Not so when a directory was renamed while earlier events
\* were unread or a walk went on, has crossed the border of the tree with its watch, or got
\* no watch because the kernel refused one. The thread may die when a directory is made
\* again, and gets a file, between the walk's attempt to watch it and its listing.
MapsFollow ==
  Recursive => left \/ full \/ renamedEarly \/
    /\ readerThread = "run" \/ reborn
    /\ readerThread = "run" /\ kq = <<>> /\ walking = {} =>
         /\ watched = InTree
         /\ DOMAIN pathForWd = InTree /\ \A d \in InTree : pathForWd[d] = loc[d]
         /\ DOMAIN wdForPath = {loc[d] : d \in InTree} /\ \A d \in InTree : wdForPath[loc[d]] = d
=============================================================================
