SPECIFICATION Spec
CONSTANTS
  p1 = p1
  p2 = p2
  None = None
  Procs = {p1, p2}
  Commands = {"git", "check", "sync", "bases"}
  Start <- MCStart
  Saved = {"note", "new", "marker", "child", "moc", "base"}
  Removed = {"note"}
  Incoming <- MCIncoming
  Markers = {"marker", "child"}
  Notes = {"note", "new"}
  Moc = "moc"
  Base = "base"
  MaxRuns = 2
  MaxSaves = 2
  MaxIncoming = 1
  MaxFailures = 1
  MaxFaults = 1
INVARIANTS TypeOK
PROPERTIES SavedTextStays CommitsWhatWasInspected NothingLeftStaged RecordsWhatIs
SYMMETRY Symmetry
CHECK_DEADLOCK FALSE
