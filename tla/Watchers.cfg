CONSTANTS
  FileNames = {a, b}
  DirNames = {s, t}
  DeepNames = {c}
  Inodes = {i1, i2, i3}
  MaxEdits = 4
  Fds = {1, 2, 3, 4, 5, 6}
  Dirs = {i1, i2, i3}
  Root = root
  DirEntries = {a, b}
  File = f
  MaxDepth = 2
  MaxWatches = 3
  MaxTreeChanges = 5
  Recursive = TRUE
SPECIFICATION Spec
INVARIANTS ViewCatchesUp DescriptorsFresh NativeFollows MapsFollow
CHECK_DEADLOCK FALSE
CONSTRAINT FollowedOn
SYMMETRY Symmetry
