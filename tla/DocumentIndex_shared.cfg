SPECIFICATION Spec
CONSTANTS
  a = a
  b = b
  p1 = p1
  p2 = p2
  Procs = {p1, p2}
  Docs <- MCDocs
  Texts <- TwoTexts
  InitialFiles <- BothFiles
  StartIndexed = TRUE
  EditorWaits = FALSE
  MaxEdits = 2
  MaxGen = 2
INVARIANTS TypeOK SourcesMatchRows
PROPERTY GenerationCountsChanges
SYMMETRY ProcSymmetry
