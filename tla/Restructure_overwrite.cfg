SPECIFICATION Spec
CONSTANTS
  a = a
  r = r
  t = t
  x = x
  y = y
  NoRef = NoRef
  b1 = b1
  b2 = b2
  p1 = p1
  p2 = p2
  NoLock = NoLock
  None = None
  Docs <- MCDocs
  Scope <- MCScope
  Prefixed <- MCPrefixed
  Normal <- MCNormal
  Procs = {p1, p2}
  Batches = {b1, b2}
  Specs <- TwoBatches
  EditorTexts <- NoTexts
  InitialFiles <- ReferringVault
  Configs = {1}
  Disturb = TRUE
  MaxTrouble = 0
  MaxRounds = 1
CHECK_DEADLOCK FALSE
INVARIANT NoEditLost
