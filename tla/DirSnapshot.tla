----------------------------- MODULE DirSnapshot ----------------------------
(* Snapshots of a directory and their differences                              *)
(* (src/src/watchdog/utils/dirsnapshot.py), over a directory that other         *)
(* programs change. A snapshot is what DirectorySnapshot keeps: `stat`, the     *)
(* _stat_info by path, and `at`, the _inode_to_path map (the path stat'd last). *)
EXTENDS Naturals, Sequences, FiniteSets, TLC

CONSTANTS FileNames,  \* names of files in the watched directory
          DirNames,   \* names of its subdirectories
          DeepNames,  \* names of files in a subdirectory
          Inodes,
          MaxEdits    \* bound: changes of the directory

\* an entry is a file or a directory by its name; Polling lets a name of DirNames change
\* its kind
ASSUME TreeAssumption ==
  FileNames \cap DirNames = {} /\ "top" \notin Inodes /\ MaxEdits \in Nat

VARIABLES system,     \* the system, by which observers/__init__.py chooses the emitter
          tree,       \* external: path -> [ino, mtime], for the paths that exist
          edits       \* bound counter

Top == <<>>
Subs == {<<d>> : d \in DirNames}
Flat == {<<n>> : n \in FileNames}
Deep == {<<d, n>> : d \in DirNames, n \in DeepNames}
Files == Flat \cup Deep
Paths == {Top} \cup Subs \cup Files
IsDir(p) == p \in {Top} \cup Subs
DirOf(p) == SubSeq(p, 1, Len(p) - 1)
Children(p) == {q \in Subs \cup Files : DirOf(q) = p}
InodeOf(s, p) == s.stat[p].ino

Exists(p) == p \in DOMAIN tree
Used == {tree[p].ino : p \in DOMAIN tree}

\* f without the keys K, and with f[k] = v
Drop(f, K) == [p \in DOMAIN f \ K |-> f[p]]
Set(f, k, v) == [p \in DOMAIN f \cup {k} |-> IF p = k THEN v ELSE f[p]]

TreeInit == /\ tree = [p \in {Top} |-> [ino |-> "top", mtime |-> 0]]
            /\ edits = 0

-----------------------------------------------------------------------------
(* External: what other programs do. An inode may be used again once free.      *)

Edited(t) == edits < MaxEdits /\ edits' = edits + 1 /\ tree' = t

Create(p) == /\ p # Top /\ ~Exists(p) /\ Exists(DirOf(p))
             /\ \E i \in Inodes \ Used : Edited(Set(tree, p, [ino |-> i, mtime |-> edits]))

Modify(p) == p \in Files /\ Exists(p) /\ Edited([tree EXCEPT ![p].mtime = edits + 1])

Delete(p) == Exists(p) /\ Children(p) \cap DOMAIN tree = {} /\ Edited(Drop(tree, {p}))

\* rename over q when it exists: how editors save a file
Move(p, q) == /\ {p, q} \subseteq Files /\ p # q /\ Exists(p) /\ Exists(DirOf(q))
              /\ Edited(Set(Drop(tree, {p}), q, tree[p]))

MoveDir(p, q) ==
  /\ {p, q} \subseteq Subs /\ Exists(p) /\ ~Exists(q)
  /\ LET from(r) == IF Len(r) > 0 /\ r[1] = q[1] THEN p \o Tail(r) ELSE r
     IN  Edited([r \in {r \in Paths :
                           from(r) \in DOMAIN tree /\ ~(Len(r) > 0 /\ r[1] = p[1])}
                 |-> tree[from(r)]])

Edit == \/ \E p \in Paths : Create(p) \/ Modify(p) \/ Delete(p)
        \/ \E p, q \in Subs \cup Files : Move(p, q) \/ MoveDir(p, q)

-----------------------------------------------------------------------------
(* DirectorySnapshot and DirectorySnapshotDiff.                                 *)

EmptySnapshot == [stat |-> [p \in {} |-> 0], at |-> [i \in {} |-> Top]]

\* one entry of __init__'s loop: the inode map keeps the last path
AddEntry(s, p, st) == [stat |-> Set(s.stat, p, st), at |-> Set(s.at, st.ino, p)]

SnapPaths(s) == DOMAIN s.stat
PathOf(s, ino) == IF ino \in DOMAIN s.at THEN {s.at[ino]} ELSE {}

\* mutant: the inode of a deleted path is looked up in the old snapshot
MutDiff(ref, new) ==
  LET created == SnapPaths(new) \ SnapPaths(ref)
      deleted == SnapPaths(ref) \ SnapPaths(new)
  IN  [created |-> {p \in created : PathOf(ref, InodeOf(new, p)) = {}},
       deleted |-> {p \in deleted : PathOf(ref, InodeOf(ref, p)) = {}},
       moved |-> UNION {{<<q, p>> : q \in PathOf(ref, InodeOf(new, p))} : p \in created},
       modified |-> {}]

\* DirectorySnapshotDiff.__init__
Diff(ref, new) ==
  LET common == SnapPaths(ref) \cap SnapPaths(new)
      replaced == {p \in common : InodeOf(ref, p) # InodeOf(new, p)}
      created == (SnapPaths(new) \ SnapPaths(ref)) \cup replaced
      deleted == (SnapPaths(ref) \ SnapPaths(new)) \cup replaced
      moved == (UNION {{<<p, q>> : q \in PathOf(new, InodeOf(ref, p))} : p \in deleted})
               \cup (UNION {{<<q, p>> : q \in PathOf(ref, InodeOf(new, p))} : p \in created})
      changed(p, q) == ref.stat[p].mtime # new.stat[q].mtime
  IN  [created  |-> {p \in created : PathOf(ref, InodeOf(new, p)) = {}},
       deleted  |-> {p \in deleted : PathOf(new, InodeOf(ref, p)) = {}},
       moved    |-> moved,
       modified |-> {p \in common \ replaced : changed(p, p)}
                    \cup {m[1] : m \in {n \in moved : changed(n[1], n[2])}}]

=============================================================================
