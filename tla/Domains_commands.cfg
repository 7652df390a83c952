SPECIFICATION Spec
CONSTANTS
  c1 = c1
  c2 = c2
  None = None
  Procs = {c1, c2}
  Requests <- MCRequests
  Starts <- MCStarts
  Drafts <- MCDrafts
  Bindings <- MCBindings
  MaxCommands = 2
  MaxEdits = 1
INVARIANTS TypeOK
PROPERTIES AsIfAlone ContentKept ReferencesFollow TopologySound
SYMMETRY Symmetry
CHECK_DEADLOCK FALSE
