----------------------------- MODULE WriteLock -----------------------------
(***************************************************************************)
(* The governance write lock of common/filesystem/locking.py: a lock file  *)
(* <scope_root>/locks/write.lock made with O_CREAT|O_EXCL, into which the  *)
(* holder then writes its PID, and which every leaving holder unlinks by   *)
(* path.  A contender that meets the file never waits: it reads the PID,   *)
(* asks whether that process exists, and either gives up ("blocked") or    *)
(* takes the lock for stale, unlinks it and opens it again.                *)
(*                                                                         *)
(* One scope root is modelled; the scopes (each Workspace's state_root and *)
(* campfire_home) are independent files.  A process is identified with its *)
(* PID: when the process is gone the PID may be taken again, by another    *)
(* campfire process or by a foreign program.                               *)
(***************************************************************************)
EXTENDS Naturals

CONSTANTS
  Pids,         \* the PIDs
  NoPid,        \* "no file" in inode, "no text" in pid, "nothing read" in seen
  Reusable,     \* the PIDs the system may hand out a second time
  MaxCrashes    \* bound on the number of crashes in a behaviour

ASSUME NoPidAssumption == NoPid \notin Pids
ASSUME ReusableAssumption == Reusable \subseteq Pids
ASSUME MaxCrashesAssumption == MaxCrashes \in Nat

VARIABLES
  pc,         \* where each PID's process is
  inode,      \* the process that created the file now at the lock path, or NoPid
  pid,        \* the PID written in that file, NoPid while it is empty or absent
  seen,       \* the PID a contender has read from the file it met
  reused,     \* history: the PIDs that have been given to a second process
  crashes,    \* history: the number of crashes so far
  recovered   \* history: some contender has taken a lock for stale

lockVars == <<pc, inode, pid, seen, reused, crashes, recovered>>

----------------------------------------------------------------------------
(* Process states.  "gone": the PID is free.  "foreign": the PID belongs   *)
(* to another program.  "idle": a campfire process outside the lock.       *)
Contending == {"exists", "checking", "stale", "retry"}
Critical   == {"created", "holding"}
PCs        == {"unused", "gone", "foreign", "idle"} \union Contending \union Critical

(* psutil.pid_exists *)
PidExists(p) == pc[p] \notin {"unused", "gone"}

Goto(p, label) == pc' = [pc EXCEPT ![p] = label]

Unlink == inode' = NoPid /\ pid' = NoPid

LockInit ==
  /\ pc = [p \in Pids |-> "unused"]
  /\ inode = NoPid /\ pid = NoPid
  /\ seen = [p \in Pids |-> NoPid]
  /\ reused = {} /\ crashes = 0 /\ recovered = FALSE

----------------------------------------------------------------------------
(* Mutated forms of the actions below, each a bug this code could have had *)
OpenWithoutExcl(p) ==
  /\ pc[p] = "idle"
  /\ Goto(p, "created") /\ inode' = p /\ pid' = NoPid
  /\ UNCHANGED <<seen, reused, crashes, recovered>>

ReadPidAcceptingEmpty(p) ==
  /\ pc[p] = "exists"
  /\ \/ inode = NoPid /\ Goto(p, "idle") /\ UNCHANGED seen
     \/ inode # NoPid /\ Goto(p, "checking") /\ seen' = [seen EXCEPT ![p] = pid]
  /\ UNCHANGED <<inode, pid, reused, crashes, recovered>>

CheckPidOfIdleHolder(p) ==
  /\ pc[p] = "checking"
  /\ IF PidExists(seen[p]) /\ pc[seen[p]] # "idle" THEN Goto(p, "idle") ELSE Goto(p, "stale")
  /\ UNCHANGED <<inode, pid, seen, reused, crashes, recovered>>

ReleaseKeepingFile(p) ==
  /\ pc[p] = "holding"
  /\ Goto(p, "idle")
  /\ UNCHANGED <<inode, pid, seen, reused, crashes, recovered>>

----------------------------------------------------------------------------
(* _acquire: the first os.open.  O_EXCL makes test and creation one step.  *)
Open(p) ==
  /\ pc[p] = "idle"
  /\ \/ inode = NoPid /\ Goto(p, "created") /\ inode' = p /\ pid' = NoPid
     \/ inode # NoPid /\ Goto(p, "exists") /\ UNCHANGED <<inode, pid>>
  /\ UNCHANGED <<seen, reused, crashes, recovered>>

(* The lock's text is read after the failed open: by now the file may be   *)
(* gone or may be another's.  No file and no number are both "blocked".    *)
ReadPid(p) ==
  /\ pc[p] = "exists"
  /\ \/ pid = NoPid /\ Goto(p, "idle") /\ UNCHANGED seen
     \/ pid # NoPid /\ Goto(p, "checking") /\ seen' = [seen EXCEPT ![p] = pid]
  /\ UNCHANGED <<inode, pid, reused, crashes, recovered>>

CheckPid(p) ==
  /\ pc[p] = "checking"
  /\ IF PidExists(seen[p]) THEN Goto(p, "idle") ELSE Goto(p, "stale")
  /\ UNCHANGED <<inode, pid, seen, reused, crashes, recovered>>

(* lock.unlink: whatever file is at the path now, not the one that was read *)
UnlinkStale(p) ==
  /\ pc[p] = "stale"
  /\ Goto(p, "retry")
  /\ Unlink
  /\ recovered' = TRUE
  /\ UNCHANGED <<seen, reused, crashes>>

OpenAgain(p) ==
  /\ pc[p] = "retry"
  /\ \/ inode = NoPid /\ Goto(p, "created") /\ inode' = p /\ pid' = NoPid
     \/ inode # NoPid /\ Goto(p, "idle") /\ UNCHANGED <<inode, pid>>
  /\ UNCHANGED <<seen, reused, crashes, recovered>>

(* The PID goes through the descriptor: to a file no longer at the path,   *)
(* the write is lost.                                                      *)
WritePid(p) ==
  /\ pc[p] = "created"
  /\ Goto(p, "holding")
  /\ pid' = IF inode = p THEN p ELSE pid
  /\ UNCHANGED <<inode, seen, reused, crashes, recovered>>

(* Writing the PID raises, or the body ends: finally unlinks the path.     *)
WriteFails(p) ==
  /\ pc[p] = "created"
  /\ Goto(p, "idle")
  /\ Unlink
  /\ UNCHANGED <<seen, reused, crashes, recovered>>

Release(p) ==
  /\ pc[p] = "holding"
  /\ Goto(p, "idle")
  /\ Unlink
  /\ UNCHANGED <<seen, reused, crashes, recovered>>

----------------------------------------------------------------------------
(* The processes' environment: they start, end, are killed (no finally     *)
(* block runs), and the system hands a free PID out again.                 *)
Start(p) ==
  /\ pc[p] = "unused"
  /\ Goto(p, "idle")
  /\ UNCHANGED <<inode, pid, seen, reused, crashes, recovered>>

Exit(p) ==
  /\ pc[p] \in {"idle", "foreign"}
  /\ Goto(p, "gone")
  /\ seen' = [seen EXCEPT ![p] = NoPid]
  /\ UNCHANGED <<inode, pid, reused, crashes, recovered>>

Crash(p) ==
  /\ crashes < MaxCrashes
  /\ pc[p] \in Contending \union Critical
  /\ Goto(p, "gone")
  /\ seen' = [seen EXCEPT ![p] = NoPid]
  /\ crashes' = crashes + 1
  /\ UNCHANGED <<inode, pid, reused, recovered>>

ReusePid(p) ==
  /\ pc[p] = "gone" /\ p \in Reusable
  /\ \E program \in {"idle", "foreign"} : Goto(p, program)
  /\ reused' = reused \union {p}
  /\ UNCHANGED <<inode, pid, seen, crashes, recovered>>

LockStep(p) ==
  \/ Open(p) \/ ReadPid(p) \/ CheckPid(p) \/ UnlinkStale(p) \/ OpenAgain(p)
  \/ WritePid(p) \/ WriteFails(p) \/ Release(p)

LockNext ==
  \E p \in Pids : LockStep(p) \/ Start(p) \/ Exit(p) \/ Crash(p) \/ ReusePid(p)

LockSpec == LockInit /\ [][LockNext]_lockVars

(* A process inside the lock runs on: the PID is written or the write      *)
(* fails, the body of the with statement ends.                             *)
Fairness == \A p \in Pids : WF_lockVars(WritePid(p) \/ WriteFails(p) \/ Release(p))

FairLockSpec == LockSpec /\ Fairness

----------------------------------------------------------------------------
(* Types.  A contender that compares PIDs has read one.                    *)
LockTypeOK ==
  /\ pc \in [Pids -> PCs]
  /\ inode \in Pids \union {NoPid}
  /\ pid \in Pids \union {NoPid}
  /\ seen \in [Pids -> Pids \union {NoPid}]
  /\ \A p \in Pids : pc[p] \in {"checking", "stale"} => seen[p] \in Pids
  /\ reused \subseteq Pids
  /\ crashes \in 0..MaxCrashes
  /\ recovered \in BOOLEAN

(* The promise of workspace_write_lock's docstring: governed writes of one *)
(* scope exclude each other.                                               *)
MutualExclusion ==
  \A p, q \in Pids : pc[p] \in Critical /\ pc[q] \in Critical => p = q

(* The with statement excludes until a contender first takes a lock for    *)
(* stale: crashes, failed PID writes, reused PIDs and normal exits do no   *)
(* harm by themselves, the unlink-and-retry of _acquire is the only gap.   *)
MutexUntilRecovery == ~recovered => MutualExclusion

(* The number in the lock file is never another's than its creator's, even *)
(* after the creator's file has been unlinked and replaced: a contender    *)
(* never blames, or spares, the wrong process.                             *)
FileNamesCreator == pid # NoPid => pid = inode

(* A verdict "stale" is right about the process it was reached about: that *)
(* process is gone and holds nothing, unless its PID was handed out again. *)
StaleVerdictSound ==
  \A p \in Pids :
    pc[p] = "stale" /\ seen[p] \notin reused => pc[seen[p]] = "gone"

(* Unless a process is killed no lock file stays: whatever failed writes    *)
(* and the contenders' recoveries do to each other's files, the file at    *)
(* the path is one whose creator is still inside and will unlink it.       *)
LockFreed == \A p \in Pids : inode = p ~> (inode # p \/ crashes > 0)

----------------------------------------------------------------------------
(* The strengthening under which the safety properties are inductive.      *)
OwnedUntilRecovery ==
  ~recovered => \A p \in Pids : /\ pc[p] \in Critical => inode = p
                                /\ pc[p] # "retry"

NamedPidsStarted ==
  /\ inode # NoPid => pc[inode] # "unused"
  /\ \A p \in Pids : seen[p] # NoPid => pc[seen[p]] # "unused"

LockIInv ==
  /\ LockTypeOK
  /\ OwnedUntilRecovery
  /\ FileNamesCreator
  /\ NamedPidsStarted
  /\ StaleVerdictSound
=============================================================================
