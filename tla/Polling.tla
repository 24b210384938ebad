------------------------------ MODULE Polling -------------------------------
(* PollingEmitter (src/src/watchdog/observers/polling.py): a snapshot taken     *)
(* again and again and the events of the difference. The walk of                *)
(* DirectorySnapshot is a step per system call, so that files move under it. A  *)
(* name of DirNames may be that of a file here, and change its kind in between.  *)
EXTENDS DirSnapshot

VARIABLES
  dirs,       \* external: the paths that are directories now
  snapshot,   \* _snapshot
  walk,       \* the snapshot being taken
  todo,       \* system calls the walk knows it makes, <<"list", dir>> or <<"stat", path>>
  emitter,    \* "run", or "stopped"
  view,       \* external: the paths a handler knows of, from the events it gets
  fresh,      \* history: a poll has begun since the last change of the directory
  tangled     \* history: one poll reported moves that Tangles excepts

pollVars == <<dirs, snapshot, walk, todo, emitter, view, fresh, tangled>>

Stat(p) == [ino |-> tree[p].ino, mtime |-> tree[p].mtime, dir |-> p \in dirs]
TakeAll == [stat |-> [p \in DOMAIN tree |-> Stat(p)],
            at |-> [i \in Used |-> CHOOSE p \in DOMAIN tree : tree[p].ino = i]]

PollInit == /\ TreeInit /\ dirs = {Top}
            /\ snapshot = TakeAll /\ walk = EmptySnapshot /\ todo = {} /\ emitter = "run"
            /\ view = DOMAIN tree /\ fresh = TRUE /\ tangled = FALSE

\* external: an entry is made or removed, a directory renamed, a file modified, or renamed
\* (over another file when there is one)
MakeEntry == \E p \in Paths : Create(p) /\ DirOf(p) \in dirs /\ dirs' \in {dirs, dirs \cup ({p} \cap Subs)}
RemoveEntry == \E p \in Paths : Delete(p) /\ dirs' = dirs \ {p}
RenameDir == \E p \in dirs, q \in Subs : MoveDir(p, q) /\ dirs' = (dirs \ {p}) \cup {q}
ModifyFile ==
  \E p \in DOMAIN tree \ dirs : Edited([tree EXCEPT ![p].mtime = edits + 1]) /\ UNCHANGED dirs
RenameFile ==
  \E p, q \in (Subs \cup Files) \ dirs :
    /\ p # q /\ Exists(p) /\ Exists(DirOf(q)) /\ DirOf(q) \in dirs
    /\ Edited(Set(Drop(tree, {p}), q, tree[p])) /\ UNCHANGED dirs

PollEdit == /\ MakeEntry \/ RemoveEntry \/ RenameDir \/ ModifyFile \/ RenameFile
            /\ fresh' = FALSE
            /\ UNCHANGED <<snapshot, walk, todo, emitter, view, tangled>>

Idle == emitter = "run" /\ todo = {} /\ walk = EmptySnapshot

\* queue_events, after its wait: the snapshot starts with the directory itself
BeginPoll ==
  /\ Idle /\ Exists(Top)
  /\ walk' = AddEntry(EmptySnapshot, Top, Stat(Top))
  /\ todo' = {<<"list", Top>>} /\ fresh' = TRUE
  /\ UNCHANGED <<tree, edits, dirs, snapshot, emitter, view, tangled>>

\* the directory itself cannot be read: DirDeletedEvent, and the emitter stops
PollFails ==
  /\ Idle /\ ~Exists(Top)
  /\ view' = view \ {Top} /\ emitter' = "stopped"
  /\ UNCHANGED <<tree, edits, dirs, snapshot, walk, todo, fresh, tangled>>

\* walk: listdir, after all entries of the last one have been stat'd; a directory that is
\* gone by then, or is a file now, has no entries
ListDir ==
  /\ \A p \in Paths : <<"stat", p>> \notin todo
  /\ \E dir \in Paths :
       /\ <<"list", dir>> \in todo
       /\ todo' = (todo \ {<<"list", dir>>}) \cup {<<"stat", p>> : p \in Children(dir) \cap DOMAIN tree}
  /\ UNCHANGED <<tree, edits, dirs, snapshot, walk, emitter, view, fresh, tangled>>

\* walk: stat of an entry; one that is gone is left out, a directory is listed later
StatEntry ==
  /\ \E p \in Paths :
       /\ <<"stat", p>> \in todo
       /\ IF Exists(p)
          THEN /\ walk' = AddEntry(walk, p, Stat(p))
               /\ todo' = (todo \ {<<"stat", p>>}) \cup (IF p \in dirs THEN {<<"list", p>>} ELSE {})
          ELSE todo' = todo \ {<<"stat", p>>} /\ UNCHANGED walk
  /\ UNCHANGED <<tree, edits, dirs, snapshot, emitter, view, fresh, tangled>>

\* external: a handler that follows the events one by one: deleted, (modified,) created,
\* moved, the moves in any order, so that a path moved from and to may stay or not
Followed(v, d) ==
  LET from == {m[1] : m \in d.moved}
      to == {m[2] : m \in d.moved}
      known == (v \ d.deleted) \cup d.created
  IN  {(known \ from) \cup (to \ from) \cup both : both \in SUBSET (from \cap to)}

\* the parts of a difference that queue_events queues one after the other, by the kind in
\* the new snapshot n for what was created, in the old one, r, for the rest
FilesPart(r, n, d) == [created |-> {p \in d.created : ~n.stat[p].dir},
                       deleted |-> {p \in d.deleted : ~r.stat[p].dir},
                       moved |-> {m \in d.moved : ~r.stat[m[1]].dir}]
DirsPart(r, n, d) == [created |-> {p \in d.created : n.stat[p].dir},
                      deleted |-> {p \in d.deleted : r.stat[p].dir},
                      moved |-> {m \in d.moved : r.stat[m[1]].dir}]

\* events that do not come in the order of the changes: a move from a path that was filled
\* again, or a directory deleted where there is a file now, which was created or moved there
Tangles(d, files, dirsOf) ==
  \/ \E m \in d.moved : m[1] \in d.created \cup {n[2] : n \in d.moved}
  \/ dirsOf.deleted \cap (files.created \cup {m[2] : m \in files.moved}) # {}

\* the difference is queued, files before directories, and the new snapshot kept
QueueEvents ==
  /\ todo = {} /\ walk # EmptySnapshot
  /\ LET d == Diff(snapshot, walk)
         files == FilesPart(snapshot, walk, d)
         dirsOf == DirsPart(snapshot, walk, d)
     IN  /\ \E u \in Followed(view, files) : view' \in Followed(u, dirsOf)
         /\ tangled' = (tangled \/ Tangles(d, files, dirsOf))
  /\ snapshot' = walk /\ walk' = EmptySnapshot
  /\ UNCHANGED <<tree, edits, dirs, todo, emitter, fresh>>

PollNext == /\ system = "other"
            /\ PollEdit \/ BeginPoll \/ PollFails \/ ListDir \/ StatEntry \/ QueueEvents

PollSpec == PollInit /\ [][PollNext /\ UNCHANGED system]_<<system, tree, edits, pollVars>>

\* A handler that follows the events knows exactly the files that exist once a poll
\* has begun and ended after the last change, although earlier snapshots were taken
\* while files moved: an entry seen twice, or missed, is put right. The exceptions are
\* a poll that reports a move from a path and also that the path was filled again (by
\* a new file or by another move), and one that finds a file where there was a directory:
\* the files' events come before the directories', so that of its deletion comes last.
ViewCatchesUp ==
  system = "other" /\ fresh /\ Idle /\ ~tangled => view = DOMAIN tree
=============================================================================
