SPECIFICATION MFairSpec
CONSTANTS
  x = x
  y = y
  z = z
  w = w
  p1 = p1
  p2 = p2
  NoLock = NoLock
  Procs = {p1}
  Movers = {p1}
  Docs <- MCDocs
  Texts <- MCTexts
  Moves <- MoveX
  Applies <- ApplyZ
  Retypes <- RetypeZ
  Saves <- SavesOfZ
  Removals = {z}
  InitialFiles <- Unreferred
  StartIndexed = FALSE
  EditorWaits = TRUE
  MaxEdits = 3
  MaxGen = 4
INVARIANTS NoReferenceLeftBehind QueryFresh
PROPERTY IndexCatchesUp
