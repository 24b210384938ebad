----------------------------- MODULE MCWatchers -----------------------------
(* The emitter observers/__init__.py chooses for the system it runs on, each    *)
(* over a small directory: inotify on Linux, kqueue on BSD (and, by the imports  *)
(* of this copy, macOS), ReadDirectoryChangesW on Windows, polling anywhere      *)
(* else. "macOS" stands for the FSEvents emitter a program may choose there.     *)
EXTENDS Polling, Kqueue, NativeEmitters, Inotify

dirVars == <<tree, edits>>

Init == /\ system \in {"Linux", "macOS", "Windows", "BSD", "other"}
        /\ PollInit /\ KqInit /\ NatInit /\ InotifyInit

Next ==
  \/ /\ PollNext
     /\ UNCHANGED <<system, kqVars, natVars, inotifyVars>>
  \/ /\ KqNext
     /\ UNCHANGED <<system, pollVars, natVars, inotifyVars>>
  \/ /\ NatNext
     /\ UNCHANGED <<system, pollVars, kqVars, inotifyVars>>
  \/ /\ system = "Linux" /\ InotifyNext
     /\ UNCHANGED <<system, dirVars, pollVars, kqVars, natVars>>

Spec == Init /\ [][Next]_<<system, dirVars, pollVars, kqVars, natVars, inotifyVars>>

\* the systems exclude one another, so they share the model values of names and of inodes
Symmetry == Permutations(FileNames) \cup Permutations(Inodes)

\* bound: two of the cases MapsFollow excepts are followed up to one change less
FollowedOn == left \/ full => treeChanges < MaxTreeChanges
=============================================================================
