CONSTANTS
  w1 = w1
  w2 = w2
  old = old
  text1 = text1
  text2 = text2
  typed = typed
  Dir = Dir
  Absent = Absent
  NoLock = NoLock
  Writers = {w1, w2}
  EditorText = {typed}
  Paths <- MCPaths
  Contents <- MCContents
  ChangeSets <- MCChangeSets
  InitialTrees <- MCTrees
  MaxEdits = 1
  MaxKills = 1
CHECK_DEADLOCK FALSE
SPECIFICATION Spec
INVARIANTS TypeOK RunsOnPlannedContent
PROPERTIES AtomicSpec
