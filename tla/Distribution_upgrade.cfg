SPECIFICATION FairSpec
CONSTANTS
  p1 = p1
  p2 = p2
  None = None
  Procs = {p1, p2}
  Commands = {"sync", "align", "setup", "upgrade"}
  Packaged <- MCPackaged
  Rank <- MCRank
  Anchor = "SKILL"
  Hint = "hint"
  Starts <- MCStarts
  Saves <- MCSaves
  MaxFaults = 1
INVARIANTS TypeOK CompletedMeansAligned NothingOrphaned
PROPERTIES ForeignKept UpgradeEnds
CHECK_DEADLOCK FALSE
