------------------------------- MODULE Kqueue -------------------------------
(* KqueueEmitter and KeventDescriptorSet (src/src/watchdog/observers/kqueue.py): *)
(* one open file descriptor per watched path, kernel events by descriptor, and   *)
(* snapshots for what kernel events do not tell.                                 *)
EXTENDS DirSnapshot, FiniteSetsExt, SequencesExt

CONSTANT Fds          \* descriptor numbers; the kernel hands out the lowest free one

VARIABLES
  desc,       \* the descriptors: fd -> [path, ino]; the inode is the kernel's
  armed,      \* external: those whose kevent the kernel has
  pending,    \* external: kernel events not yet read: fd -> [flags, at]; `at`, the number
              \* of the change that made the event, is its place among them
  batch,      \* event_list of queue_events: those it has still to handle
  ref, new,   \* ref_snapshot and new_snapshot (_snapshot)
  kpc,        \* "control", "read", "snap", "open", "events", or "KeyError"
  settled,    \* history: queue_events has begun since the last change
  dirMoved,   \* history: a directory was renamed
  blurred,    \* history: a file was written and deleted before its event was read
  late        \* history: descriptors whose file went after open, before the kernel had the kevent

kqVars == <<desc, armed, pending, batch, ref, new, kpc, settled, dirMoved, blurred, late>>

Whole == [stat |-> tree, at |-> [i \in Used |-> CHOOSE p \in DOMAIN tree : tree[p].ino = i]]

FdOf(d, p) == {f \in DOMAIN d : d[f].path = p}

\* KeventDescriptorSet.add for each of the paths, in any order: _register_kevent leaves out
\* one that is gone (ENOENT), and a known one keeps its descriptor
Opened(d, paths) ==
  LET opens == {p \in paths : Exists(p) /\ FdOf(d, p) = {}}
      free == Fds \ DOMAIN d
      lowest == {f \in free : Cardinality({g \in free : g < f}) < Cardinality(opens)}
  IN  {[f \in DOMAIN d \cup lowest |->
          IF f \in DOMAIN d THEN d[f] ELSE [path |-> at[f], ino |-> tree[at[f]].ino]] :
         at \in Bijection(lowest, opens)}

\* _unregister_kevent: KeventDescriptorSet.remove closes the descriptors of the paths
\* mutant: they stay in the set
MutClosed(d, paths) == {}

Closed(d, paths) == UNION {FdOf(d, p) : p \in paths}

KqInit == /\ TreeInit
          /\ desc = [f \in {1} |-> [path |-> Top, ino |-> "top"]]
          /\ armed = {} /\ pending = <<>> /\ batch = <<>> /\ ref = Whole /\ new = Whole
          /\ kpc = "control" /\ settled = TRUE /\ dirMoved = FALSE /\ blurred = FALSE /\ late = {}

\* external: what the kernel notes on a descriptor when the tree changes
Note(d) ==
  LET here(t) == {p \in DOMAIN t : t[p].ino = d.ino}
      entry(t) == {<<t[DirOf(p)].ino, p[Len(p)]>> : p \in here(t) \ {Top}}
      listing(t) == UNION {{<<q[Len(q)], t[q].ino>> : q \in Children(p) \cap DOMAIN t} : p \in here(t)}
  IN  IF here(tree') = {} THEN IF here(tree) = {} THEN {} ELSE {"delete"}
      ELSE IF here(tree) # {} /\ entry(tree') # entry(tree) THEN {"rename"}
      ELSE IF \/ listing(tree) # listing(tree')
              \/ {tree[p].mtime : p \in here(tree)} # {tree'[p].mtime : p \in here(tree')}
      THEN {"write"} ELSE {}

\* external: a kernel event per descriptor the kernel watches, merged with one that is still
\* unread. An inode whose file is open is not used again.
KqEdit ==
  /\ kpc # "KeyError" /\ Edit
  /\ \A f \in DOMAIN desc : desc[f].ino \in Used \/ desc[f].ino \notin Used'
  /\ LET noted == {f \in armed : Note(desc[f]) # {}}
         before(f) == IF f \in DOMAIN pending THEN pending[f] ELSE [flags |-> {}, at |-> edits]
     IN  pending' = [f \in DOMAIN pending \cup noted |->
                       [before(f) EXCEPT !.flags = @ \cup Note(desc[f])]]
  /\ settled' = FALSE
  /\ dirMoved' = (dirMoved \/ \E p \in Subs \cap DOMAIN tree, q \in Subs \cap DOMAIN tree' :
                                p # q /\ tree[p].ino = tree'[q].ino)
  /\ blurred' = (blurred \/ \E f \in DOMAIN pending' : pending'[f].flags = {"write", "delete"})
  /\ late' = late \cup {f \in DOMAIN desc \ armed : Note(desc[f]) \cap {"delete", "rename"} # {}}
  /\ UNCHANGED <<desc, armed, batch, ref, new, kpc>>

\* queue_events: kq.control gives the kernel the kevents of all descriptors
KqControl ==
  /\ kpc = "control" /\ armed' = DOMAIN desc /\ kpc' = "read"
  /\ UNCHANGED <<tree, edits, desc, pending, batch, ref, new, settled, dirMoved, blurred, late>>

\* and reads its events (possibly none, at the timeout)
KqRead ==
  /\ kpc = "read"
  /\ batch' = pending /\ pending' = <<>> /\ kpc' = "snap" /\ settled' = TRUE
  /\ UNCHANGED <<tree, edits, desc, armed, ref, new, dirMoved, blurred, late>>

\* then a snapshot
KqSnapshot ==
  /\ kpc = "snap" /\ Exists(Top) /\ ref' = new /\ new' = Whole /\ kpc' = "open"
  /\ UNCHANGED <<tree, edits, desc, armed, pending, batch, settled, dirMoved, blurred, late>>

\* and the created paths are queued and opened, directories first
KqOpen ==
  /\ kpc = "open"
  /\ LET created == Diff(ref, new).created
     IN  \E d \in Opened(desc, {p \in created : IsDir(p)}) :
           desc' \in Opened(d, {p \in created : ~IsDir(p)})
  /\ kpc' = "events"
  /\ UNCHANGED <<tree, edits, armed, pending, batch, ref, new, settled, dirMoved, blurred, late>>

\* is_deleted, is_modified, is_attrib_modified, is_renamed
Noted(kev, flag) == flag \in kev.flags

\* _gen_renamed_events: where the new snapshot has what the old one had at the path
Dest(path) == IF path \in SnapPaths(ref) THEN PathOf(new, InodeOf(ref, path)) ELSE {}

\* the moved events it yields, source and destination: with generate_sub_moved_events, one for
\* each entry of the directory there, as it is now
MovedPairs(path) ==
  {<<path, q>> : q \in Dest(path)}
  \cup UNION {{<<path \o <<c[Len(c)]>>, c>> : c \in Children(q) \cap DOMAIN tree} : q \in Dest(path)}

\* the event_list was reversed: the kernel event that came last is handled first
LastNoted(fd) == \A f \in DOMAIN batch : batch[f].at <= batch[fd].at

\* _gen_kqueue_events and queue_event: rename, then attributes or data, then deletion
KqEvent ==
  /\ kpc = "events"
  /\ \E fd \in DOMAIN batch :
       LET kev == batch[fd]
           path == desc[fd].path
           pairs == IF Noted(kev, "rename") THEN MovedPairs(path) ELSE {}
           stays == Noted(kev, "write") /\ ~Noted(kev, "rename")
           gone == Closed(desc, IF stays THEN {} ELSE {path} \cup {m[1] : m \in pairs})
       IN  /\ LastNoted(fd)
           /\ IF fd \notin DOMAIN desc
              THEN kpc' = "KeyError" /\ UNCHANGED <<desc, armed, pending, batch, late>>
              ELSE /\ desc' \in Opened(Drop(desc, gone), {m[2] : m \in pairs})
                   /\ pending' = Drop(pending, gone) /\ armed' = armed \ gone /\ late' = late \ gone
                   /\ batch' = Drop(batch, {fd}) /\ UNCHANGED kpc
  /\ UNCHANGED <<tree, edits, ref, new, settled, dirMoved, blurred>>

KqDone ==
  /\ kpc = "events" /\ DOMAIN batch = {} /\ kpc' = "control"
  /\ UNCHANGED <<tree, edits, desc, armed, pending, batch, ref, new, settled, dirMoved, blurred, late>>

KqNext == /\ system = "BSD"
          /\ KqEdit \/ KqControl \/ KqRead \/ KqSnapshot \/ KqOpen \/ KqEvent \/ KqDone

KqSpec == KqInit /\ [][KqNext /\ UNCHANGED system]_<<system, tree, edits, kqVars>>

\* Once all kernel events after the last change are handled, no descriptor is left open
\* on a file that is no longer at its path, and the emitter has not died of an event
\* for a descriptor it closed earlier in the same batch. The exceptions are a renamed
\* directory, whose events also close what is below it; a file written and deleted
\* between two reads: one kernel event says both, _gen_kqueue_events takes the first; and
\* a descriptor whose file was deleted or renamed between os.open and the next kq.control,
\* which alone makes the kernel watch it.
DescriptorsFresh ==
  /\ kpc # "KeyError" \/ dirMoved
  /\ system = "BSD" /\ kpc \in {"control", "read"} /\ settled /\ ~blurred /\ ~dirMoved =>
       \A f \in DOMAIN desc \ late : Exists(desc[f].path) /\ tree[desc[f].path].ino = desc[f].ino
=============================================================================
