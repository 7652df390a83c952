SPECIFICATION Spec
CONSTANTS
  w1 = w1
  w2 = w2
  v1 = v1
  v2 = v2
  p = p
  o = o
  d = d
  e = e
  r = r
  a = a
  u = u
  c1 = c1
  c2 = c2
  None = None
  Procs = {c1, c2}
  Workspaces = {w1, w2}
  Vaults = {v1, v2}
  Projects = {p, o}
  Domains = {d, e}
  Repos = {r}
  Dirs = {a}
  Urls = {u}
  Remote <- MCRemote
  Requests <- MCRequests
  Starts <- MCStarts
  MaxCommands = 3
  MaxFaults = 2
INVARIANTS TypeOK AcknowledgedHolds RootsSound RegistryReadable
PROPERTIES ChangesWhatWasAsked
SYMMETRY Symmetry
CHECK_DEADLOCK FALSE
