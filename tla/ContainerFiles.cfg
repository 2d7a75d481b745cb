\* Two calls at once on one container's files, with one change by somebody else.
SPECIFICATION Spec
CONSTANTS
  Huge <- MCHuge
  Calls = {q1, q2}
  Roots <- MCRoots
  Folders <- MCFolders
  Targets <- MCTargets
  Patterns = {"*", "b"}
  Words <- MCWords
  NewBodies <- MCNewBodies
  EditLists <- MCEditLists
  Common = {"a"}
  Mounted = {"b"}
  Trees <- MCTrees
  DiskTrees <- MCDiskTrees
  Cap = 2
  PathLists <- MCPathLists
  LinkTargets <- MCLinkTargets
  MaxTurns = 3
PROPERTIES FindsWhatIsThere CopiesWhatWasThere EditsAreWhole
SYMMETRY Symmetry
CHECK_DEADLOCK FALSE
