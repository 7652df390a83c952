SPECIFICATION Spec
CONSTANTS
  p1 = p1
  p2 = p2
  own = own
  None = None
  Procs = {p1, p2}
  Commands = {"setup", "prepare", "deliver"}
  Named = {own}
  Heard <- MCHeard
  Drafts <- MCDrafts
  Starts <- MCStarts
  MaxRuns = 2
  MaxSaves = 2
  MaxFaults = 1
PROPERTIES MaterialIsAsPreviewed ModelAppearsWhole DeliveredAsReviewed
SYMMETRY Symmetry
CHECK_DEADLOCK FALSE
