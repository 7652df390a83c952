CONSTANTS
  p1 = p1
  p2 = p2
  p3 = p3
  NoPid = NoPid
  Pids <- MCPids
  Reusable <- MCPids
  MaxCrashes = 2
SPECIFICATION FairLockSpec
INVARIANTS LockTypeOK MutexUntilRecovery StaleVerdictSound
PROPERTY LockFreed
