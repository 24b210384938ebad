SPECIFICATION Spec
CONSTANTS
  Disk <- MCDisk
  LocOrder <- MCLocOrder
  Platform <- MCPlatform
  SysPaths <- MCSysPaths
  MainRequires <- MCMainRequires
  Requests <- MCRequests
  Plugins <- MCPlugins
  Installable <- MCInstallable
  Packages <- MCPackages
  Parent <- MCParent
  Provided <- MCProvided
  MaxOps = 3
  Procs = {p1_, p2_}
  Eggs = {"v1", "v2"}
  Dirs <- MCDirs
  Eager <- MCEager
  Resources = {"f", "dir"}
  MaxCalls = 3
  Asks <- MCAsks
  Items <- MCItems
  MaxAsks = 3
  MarkerItems <- MCMarkerItems
  Env <- MCEnv
  MaxTokens = 7
  TextStarts <- MCTextStarts
  MaxTyped = 4
  MaxNumber = 2
  GlobTokens = {"a", "b", "*", "?", "/", "[ab]"}
  PathChars = {"a", "b", "/"}
  MaxPattern = 4
  MaxPath = 3
  Machines <- MCMachines
INVARIANTS RequirementsMet NamespacesComplete ReturnedFilesStay CombinesExactly MarkersByPrecedence NextIsLeast GlobFollowsNames TagsRunHere
CHECK_DEADLOCK FALSE
