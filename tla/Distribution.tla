---------------------------- MODULE Distribution ----------------------------
(***************************************************************************)
(* The files that campfire installs for agents, and its own upgrade.       *)
(*                                                                         *)
(* `align' (AgentResourceService) brings the Skill files and the block of  *)
(* the hint file to the state of the installed package; the ledger         *)
(* agent-resources.json says which files it owns.  It plans without a      *)
(* lock, plans again under the lock of CAMPFIRE_HOME and the lock files of *)
(* its targets, and writes file by file, the ledger last.  `agent sync'    *)
(* leaves the hint alone, `setup' and `upgrade --skip-package' align,      *)
(* `upgrade' starts a detached runner (PackageUpdater) that replaces the   *)
(* package once its host has gone and then has the new package align       *)
(* twice.  The user saves files and kills processes at any time.           *)
(*                                                                         *)
(* A file is what it holds of the package (the version, 0 for nothing) and *)
(* the version of the user's own text; one Skill, one root and one hint    *)
(* file stand for all.  The lock of CAMPFIRE_HOME is a mutex that a dead   *)
(* holder gives up (WriteLock says when).  Bases and the database, which   *)
(* align also brings up to date, are outcomes.                             *)
(***************************************************************************)
EXTENDS Naturals, Sequences, FiniteSets

CONSTANTS
  Procs,      \* the processes that run commands
  Commands,   \* the commands they may run
  Packaged,   \* the Skill files of each version of the package
  Rank,       \* the Skill files and the hint, numbered in the order of their paths
  Anchor,     \* SKILL.md, which names the Skill
  Hint,       \* the hint file
  Starts,     \* the disks to start from
  Saves,      \* what the user may save: <<path, content>>
  None,
  MaxFaults   \* bound

Ledger == "agent-resources.json"
Files  == DOMAIN Rank
Paths  == Files \union {Ledger}
Latest == Len(Packaged)
Broken == 9                                  \* markers that do not pair up
Text(pkg, text) == [pkg |-> pkg, text |-> text]
Owning(paths)   == [owned |-> paths]
Unreadable      == [broken |-> TRUE]

Actors == Procs \X {"cli", "run"}            \* a command, and the runner it starts
Cli(p) == <<p, "cli">>
Run(p) == <<p, "run">>

Contents == {None} \union [pkg : {0, Broken} \union 1 .. Latest, text : 0 .. 2]
Ledgers  == {None, Unreadable} \union {Owning(S) : S \in SUBSET Files}
Holds(f, content) == content \in (IF f = Ledger THEN Ledgers ELSE Contents)
Disks == {d \in [Paths -> Contents \union Ledgers] : \A f \in Paths : Holds(f, d[f])}
Phases  == {"pending", "running", "completed", "failed", "skipped"}
Results == [state : Phases \union {"scheduled", "waiting"}, package : Phases, resource : Phases,
            version : 1 .. Latest]

ASSUME DistributionAssumption ==
  /\ Commands \subseteq {"sync", "align", "setup", "upgrade"}
  /\ {Hint, Anchor} \subseteq Files /\ Ledger \notin Files
  /\ Packaged \in Seq(SUBSET Files) /\ Packaged # <<>>
  /\ \A v \in 1 .. Latest : Anchor \in Packaged[v]
  /\ Starts \subseteq Disks
  /\ \A save \in Saves : save[1] \in Paths /\ Holds(save[1], save[2])
  /\ None \notin Actors /\ None \notin Results /\ None # "sync"
  /\ None \notin [pkg : Nat, text : Nat]

(* SKILL.md is first in the order of paths: capitals come before `agents'  *)
(* and `references'.  To start with, what is of a package comes with its   *)
(* SKILL.md and is not newer than what is installed; and the user's own    *)
(* SKILL.md is not the very text of a package.                             *)
ASSUME AnchorAssumption ==
  /\ Anchor # Hint /\ Rank \in [Files -> Nat]
  /\ \A f \in Files \ {Anchor, Hint} : Rank[Anchor] < Rank[f]
  /\ \A d \in Starts :
       IF d[Anchor] = None THEN \A f \in Files \ {Hint} : d[f] = None \/ d[f].text # 0
                           ELSE d[Anchor].text = 0 => d[Anchor].pkg <= 1
  /\ \A save \in Saves : save[1] = Anchor /\ save[2] # None => save[2].text # 0

VARIABLES
  disk,       \* path -> content
  lock,       \* who holds the lock of CAMPFIRE_HOME
  held,       \* the targets whose lock file exists
  installed,  \* version of the package
  record,     \* upgrades/<operation>/result.json of the command of each process
  marker,     \* active-upgrade.json
  job,        \* where each actor is, and its local variables
  mine,       \* paths that are as the user left them
  faults      \* number of saves and kills

vars == <<disk, lock, held, installed, record, marker, job, mine, faults>>

----------------------------------------------------------------------------
(* plan: what align would do on disk d with version v of the package.      *)
Owned(d) == IF d[Ledger] = None THEN {} ELSE d[Ledger].owned
Wanted(v, hints) == Packaged[v] \union (IF hints THEN {Hint} ELSE {})
Looked(d, v, hints) == Wanted(v, hints) \union (IF hints THEN Owned(d) ELSE Owned(d) \ {Hint})

(* _block, _legacy_skill.                                                  *)
Managed(d, f) == d[f] # None /\ (f = Hint => d[f].pkg # 0)
Named(d)      == d[Anchor] # None /\ d[Anchor].text # 2
LegacyByPath(d, f) == Managed(d, f) /\ f \notin Owned(d)
LegacyHintOnly(d, f) == Managed(d, f) /\ f \notin Owned(d) /\ f = Hint
Legacy(d, f)  == Managed(d, f) /\ f \notin Owned(d) /\ (f = Hint \/ Named(d))
Aligned(d, f, v) ==
  IF f = Hint THEN Text(v, IF d[f] = None THEN 0 ELSE d[f].text)
  ELSE IF f \in Packaged[v] THEN Text(v, 0) ELSE None

Readable(d, hints) == d[Ledger] # Unreadable /\ (hints /\ d[Hint] # None => d[Hint].pkg # Broken)
Conflicts(d, v, hints) ==
  {f \in Wanted(v, hints) \ Owned(d) :
     Managed(d, f) /\ ~Legacy(d, f) /\ d[f] # Aligned(d, f, v)}

Change(before, content) == [before |-> before, content |-> content]
NewLedger(d, v, hints) == Owning(Wanted(v, hints) \union (Owned(d) \intersect {Hint}))
Changes(d, v, hints) ==
  LET files  == {f \in Looked(d, v, hints) : d[f] # Aligned(d, f, v)}
      entry  == NewLedger(d, v, hints)
      ledger == IF d[Ledger] = entry THEN {} ELSE {Ledger}
  IN  [f \in files \union ledger |-> Change(d[f], IF f = Ledger THEN entry ELSE Aligned(d, f, v))]
(* The plan hash covers the version and every content that was looked at.  *)
Signature(d, v, hints) == <<v, [f \in Looked(d, v, hints) \union {Ledger} |-> d[f]]>>
Blocked(d, v, hints) == ~Readable(d, hints) \/ Conflicts(d, v, hints) # {}

----------------------------------------------------------------------------
Nothing == [f \in {} |-> None]
Idle == [at |-> "idle", cmd |-> None, version |-> 0, sign |-> None, todo |-> Nothing, now |-> None,
         locks |-> {}, ok |-> TRUE, touched |-> FALSE, round |-> 0]

Init ==
  /\ disk \in Starts
  /\ lock = None /\ held = {} /\ installed = 1
  /\ record = [p \in Procs |-> None] /\ marker = None
  /\ job = [a \in Actors |-> Idle]
  /\ mine = {f \in Files : disk[f] # None /\ disk[f].text # 0}
  /\ faults = 0

At(a, there)   == job[a].at = there
Goto(a, there) == job' = [job EXCEPT ![a].at = there]
Hints(a)       == job[a].cmd # "sync"
End(a, ok)     == job' = [job EXCEPT ![a] = [@ EXCEPT !.at = "aligned", !.ok = ok, !.todo = Nothing,
                                                      !.now = None, !.sign = None, !.locks = {}]]
Unlock(a)      == lock' = None /\ held' = held \ job[a].locks
Locks          == <<lock, held>>
Package        == <<installed, record, marker>>
Others         == <<mine, faults>>

(* align before the lock: it ends if something conflicts or nothing is     *)
(* left to do.                                                             *)
Plan(a) ==
  LET changes == Changes(disk, installed, Hints(a))
  IN /\ At(a, "plan")
     /\ IF Blocked(disk, installed, Hints(a)) THEN End(a, FALSE)
        ELSE job' = [job EXCEPT ![a] = [@ EXCEPT
               !.at = IF DOMAIN changes = {} THEN "aligned" ELSE "lock", !.todo = changes, !.ok = TRUE,
               !.sign = IF DOMAIN changes = {} THEN None ELSE Signature(disk, installed, Hints(a)),
               !.touched = DOMAIN changes # {}]]
     /\ UNCHANGED <<disk, Locks, Package, Others>>

(* write_lock: all the locks, or the refusal `locked'.                     *)
Targets(a) == DOMAIN job[a].todo
LockTargetsOnly(a) ==
  /\ At(a, "lock") /\ held \intersect Targets(a) = {}
  /\ lock' = lock /\ held' = held \union Targets(a)
  /\ job' = [job EXCEPT ![a] = [@ EXCEPT !.at = "again", !.locks = Targets(a)]]
  /\ UNCHANGED <<disk, Package, Others>>
Lock(a) ==
  /\ At(a, "lock")
  /\ IF lock = None /\ held \intersect Targets(a) = {}
     THEN /\ lock' = a /\ held' = held \union Targets(a)
          /\ job' = [job EXCEPT ![a] = [@ EXCEPT !.at = "again", !.locks = Targets(a)]]
     ELSE End(a, FALSE) /\ UNCHANGED Locks
  /\ UNCHANGED <<disk, Package, Others>>

SamePlan(a) == Readable(disk, Hints(a)) /\ Signature(disk, installed, Hints(a)) = job[a].sign
PlanAgain(a) ==
  /\ At(a, "again")
  /\ IF SamePlan(a) THEN Goto(a, "compare") /\ UNCHANGED Locks
                     ELSE End(a, FALSE) /\ Unlock(a)
  /\ UNCHANGED <<disk, Package, Others>>

(* The changes, one by one: each is compared with the disk and written.    *)
Place(f)        == IF f = Ledger THEN 1 + Cardinality(Files) ELSE Rank[f]
First(a, f)     == f \in Targets(a) /\ \A g \in Targets(a) : Place(f) <= Place(g)
Unchanged(a, f) == disk[f] = job[a].todo[f].before
Compare(a) ==
  /\ At(a, "compare")
  /\ \E f \in Targets(a) :
       /\ First(a, f)
       /\ IF Unchanged(a, f) THEN job' = [job EXCEPT ![a] = [@ EXCEPT !.at = "write", !.now = f]] /\ UNCHANGED Locks
                             ELSE End(a, FALSE) /\ Unlock(a)
  /\ UNCHANGED <<disk, Package, Others>>
Write(a) ==
  LET f == job[a].now
      rest == [g \in Targets(a) \ {f} |-> job[a].todo[g]]
  IN  /\ At(a, "write")
      /\ disk' = [disk EXCEPT ![f] = job[a].todo[f].content]
      /\ mine' = mine \ {f}
      /\ job' = [job EXCEPT ![a] = [@ EXCEPT !.at = "compare", !.now = None, !.todo = rest]]
      /\ UNCHANGED <<Locks, Package, faults>>
WriteFails(a) == At(a, "write") /\ End(a, FALSE) /\ Unlock(a) /\ UNCHANGED <<disk, Package, Others>>
Written(a) ==
  /\ At(a, "compare") /\ Targets(a) = {}
  /\ End(a, TRUE) /\ Unlock(a) /\ UNCHANGED <<disk, Package, Others>>

AlignStep(a) ==
  Plan(a) \/ Lock(a) \/ PlanAgain(a) \/ Compare(a) \/ Write(a) \/ WriteFails(a) \/ Written(a)
Aligning(a) == job[a].at \in {"plan", "lock", "again", "compare", "write"}

----------------------------------------------------------------------------
(* The commands.  upgrade hands over to a runner only if the index names a *)
(* newer version, the installation can be upgraded and align would not be  *)
(* blocked; in every other case it aligns.                                 *)
Quit(a, there) == job' = [job EXCEPT ![a] = [Idle EXCEPT !.at = there]]
Begin(p, cmd, there, ok) ==
  job' = [job EXCEPT ![Cli(p)] = [@ EXCEPT !.at = there, !.cmd = cmd, !.version = installed, !.ok = ok]]
Start(p) ==
  /\ At(Cli(p), "idle")
  /\ \E cmd \in Commands :
       CASE cmd = "setup" -> IF Blocked(disk, installed, TRUE) THEN Quit(Cli(p), "gone") ELSE Begin(p, cmd, "plan", TRUE)
         [] cmd \in {"sync", "align"} -> Begin(p, cmd, "plan", TRUE)
         [] cmd = "upgrade" ->
              \E can \in BOOLEAN :
                IF ~can \/ installed = Latest THEN Begin(p, cmd, "plan", TRUE)
                ELSE IF Blocked(disk, installed, TRUE) THEN Begin(p, cmd, "record", FALSE)
                ELSE Begin(p, cmd, "start", TRUE)
  /\ UNCHANGED <<disk, Locks, Package, Others>>

(* align of the system: the database and the Bases may be blocked too.     *)
Conclude(p, ok) == job' = [job EXCEPT ![Cli(p)] = [@ EXCEPT !.at = "record", !.ok = ok]]
Summarise(p) ==
  /\ At(Cli(p), "aligned")
  /\ \E others \in BOOLEAN :
       IF job[Cli(p)].cmd \in {"sync", "setup"} THEN Quit(Cli(p), "gone")
       ELSE Conclude(p, job[Cli(p)].ok /\ others)
  /\ UNCHANGED <<disk, Locks, Package, Others>>

(* A result: of a command that aligned by itself, or of a runner.          *)
Result(state, package, resource, version) ==
  [state |-> state, package |-> package, resource |-> resource, version |-> version]
Outcome(ok) == IF ok THEN "completed" ELSE "failed"
Record(p) ==
  /\ At(Cli(p), "record")
  /\ record' = IF lock # None THEN record
               ELSE [record EXCEPT ![p] = Result(Outcome(job[Cli(p)].ok), "skipped", Outcome(job[Cli(p)].ok),
                                                 job[Cli(p)].version)]
  /\ Quit(Cli(p), "gone")
  /\ UNCHANGED <<disk, Locks, installed, marker, Others>>

(* PackageUpdater.start, under the lock.                                   *)
Ended(result) == result.state \in {"completed", "failed"}
NoneActive    == marker # None => Ended(record[marker])
StartUpgrade(p) ==
  /\ At(Cli(p), "start")
  /\ IF lock = None /\ NoneActive THEN lock' = Cli(p) /\ Goto(Cli(p), "job")
                                   ELSE UNCHANGED lock /\ Quit(Cli(p), "gone")
  /\ UNCHANGED <<disk, held, Package, Others>>
SaveJob(p) ==
  /\ At(Cli(p), "job") /\ Goto(Cli(p), "marker")
  /\ record' = [record EXCEPT ![p] = Result("scheduled", "pending", "pending", Latest)]
  /\ UNCHANGED <<disk, Locks, installed, marker, Others>>
SaveMarker(p) ==
  /\ At(Cli(p), "marker") /\ Goto(Cli(p), "spawn") /\ marker' = p
  /\ UNCHANGED <<disk, Locks, installed, record, Others>>
Spawn(p) ==
  /\ At(Cli(p), "spawn")
  /\ \/ /\ job' = [job EXCEPT ![Cli(p)].at = "leave", ![Run(p)].at = "begin"]
        /\ UNCHANGED record
     \/ /\ Quit(Cli(p), "gone")
        /\ record' = [record EXCEPT ![p] = [@ EXCEPT !.state = "failed", !.package = "failed"]]
  /\ lock' = None
  /\ UNCHANGED <<disk, held, installed, marker, Others>>
Leave(p) == At(Cli(p), "leave") /\ Quit(Cli(p), "gone") /\ UNCHANGED <<disk, Locks, Package, Others>>

CliStep(p) ==
  Start(p) \/ AlignStep(Cli(p)) \/ Summarise(p) \/ Record(p)
  \/ StartUpgrade(p) \/ SaveJob(p) \/ SaveMarker(p) \/ Spawn(p) \/ Leave(p)

----------------------------------------------------------------------------
(* The runner: every step saves the job.                                   *)
Save(p, result) == record' = [record EXCEPT ![p] = result]
Failure(result) ==
  IF result.package # "completed" THEN [result EXCEPT !.state = "failed", !.package = "failed", !.resource = "skipped"]
  ELSE [result EXCEPT !.state = "failed", !.resource = "failed"]
Fail(p) ==
  /\ Save(p, Failure(record[p]))
  /\ Quit(Run(p), "over")

Announce(p) ==
  /\ At(Run(p), "begin") /\ Goto(Run(p), "wait")
  /\ Save(p, [record[p] EXCEPT !.state = "waiting"])
  /\ UNCHANGED <<disk, Locks, installed, marker, Others>>
HostGone(p) == job[Cli(p)].at \in {"gone", "dead"}
WaitForever(p) ==
  /\ At(Run(p), "wait") /\ HostGone(p)
  /\ Save(p, [record[p] EXCEPT !.state = "running", !.package = "running"])
  /\ Goto(Run(p), "install")
  /\ UNCHANGED <<disk, Locks, installed, marker, Others>>
Wait(p) ==
  /\ At(Run(p), "wait")
  /\ IF HostGone(p) THEN /\ Save(p, [record[p] EXCEPT !.state = "running", !.package = "running"])
                         /\ Goto(Run(p), "install")
                    ELSE Fail(p)
  /\ UNCHANGED <<disk, Locks, installed, marker, Others>>
Install(p) ==
  /\ At(Run(p), "install")
  /\ installed' \in {installed, Latest}
  /\ (Goto(Run(p), "verify") /\ UNCHANGED record) \/ Fail(p)
  /\ UNCHANGED <<disk, Locks, marker, Others>>
Verify(p) ==
  /\ At(Run(p), "verify")
  /\ IF installed = record[p].version
     THEN /\ Save(p, [record[p] EXCEPT !.package = "completed", !.resource = "running"])
          /\ job' = [job EXCEPT ![Run(p)] = [@ EXCEPT !.at = "plan", !.round = 1]]
     ELSE Fail(p)
  /\ UNCHANGED <<disk, Locks, installed, marker, Others>>

Reported(p, others) == others /\ installed = record[p].version
(* The new package aligns, and aligns again without an operation.          *)
Succeeded(p, others) == job[Run(p)].ok /\ others /\ installed = record[p].version
Judge(p) ==
  /\ At(Run(p), "aligned")
  /\ \E others \in BOOLEAN :
       IF ~Succeeded(p, others) THEN Fail(p)
       ELSE IF job[Run(p)].round = 1
       THEN job' = [job EXCEPT ![Run(p)] = [@ EXCEPT !.at = "plan", !.round = 2]] /\ UNCHANGED record
       ELSE IF job[Run(p)].touched THEN Fail(p)
       ELSE /\ Save(p, [record[p] EXCEPT !.state = "completed", !.resource = "completed"])
            /\ Quit(Run(p), "over")
  /\ UNCHANGED <<disk, Locks, installed, marker, Others>>

RunStep(p) == Announce(p) \/ Wait(p) \/ Install(p) \/ Verify(p) \/ AlignStep(Run(p)) \/ Judge(p)

----------------------------------------------------------------------------
(* The user saves or removes a file.                                       *)
Edit ==
  /\ faults < MaxFaults /\ faults' = faults + 1
  /\ \E save \in Saves :
       /\ disk[save[1]] # save[2]
       /\ disk' = [disk EXCEPT ![save[1]] = save[2]]
       /\ mine' = mine \union {save[1]}
  /\ UNCHANGED <<Locks, Package, job>>

(* A process dies: the lock of CAMPFIRE_HOME is recovered by its PID, the  *)
(* lock files of the targets stay.  invoke kills a new package's align     *)
(* that takes too long, and the runner goes on.  An align that survives    *)
(* its runner does what an align of another process does when the runner   *)
(* was killed before it: from Verify to Judge the record stays as it is.   *)
Dies(a) ==
  /\ faults < MaxFaults /\ faults' = faults + 1
  /\ lock' = IF lock = a THEN None ELSE lock
  /\ UNCHANGED <<disk, installed, marker, mine>>
Kill(a) ==
  /\ job[a].at \notin {"idle", "gone", "over", "dead"}
  /\ Dies(a) /\ Quit(a, "dead")
  /\ UNCHANGED <<held, record>>
KillAtLocks(a) ==
  /\ At(a, "lock") /\ lock = None
  /\ Dies(a) /\ Quit(a, "dead")
  /\ \E f \in Targets(a) : held' = held \union {g \in Targets(a) : Place(g) <= Place(f)}
  /\ UNCHANGED record
Timeout(p) == Aligning(Run(p)) /\ Dies(Run(p)) /\ Fail(p) /\ UNCHANGED held

Next ==
  \/ \E p \in Procs : CliStep(p) \/ RunStep(p) \/ Timeout(p)
  \/ \E a \in Actors : Kill(a) \/ KillAtLocks(a)
  \/ Edit
Spec == Init /\ [][Next]_vars
FairSpec == Spec /\ \A p \in Procs : WF_vars(RunStep(p))

----------------------------------------------------------------------------
(* Every variable has its type, and whoever writes holds its lock files.   *)
TypeOK ==
  /\ disk \in Disks
  /\ lock \in Actors \union {None} /\ held \subseteq Paths
  /\ installed \in 1 .. Latest /\ marker \in Procs \union {None}
  /\ record \in [Procs -> Results \union {None}]
  /\ \A a \in Actors : job[a].at \in {"again", "compare", "write"} =>
       lock = a /\ job[a].locks \subseteq held /\ Targets(a) \subseteq job[a].locks

(* What the user wrote around the hint's block, and a Skill file that the  *)
(* ledger does not own and SKILL.md does not name, is never overwritten or *)
(* removed, unless it was saved after the comparison that precedes the     *)
(* write (agent_resource_service.py 350-364).                              *)
Kept(a) ==
  LET f == job[a].now
      plan == job[a].sign[2]
  IN  Unchanged(a, f) =>
        IF f = Hint THEN disk[f] # None => disk'[f].text = disk[f].text
        ELSE disk[f] # None /\ disk[f].text # 0 => f \in Owned(plan) \/ Named(plan)
ForeignKept ==
  [][\A a \in Actors : At(a, "write") /\ At(a, "compare")' /\ job[a].now # Ledger => Kept(a)]_vars

(* A completed upgrade leaves the files of the version it names: what it   *)
(* wanted is there, but for what the user saved or removed since.          *)
CompletedMeansAligned ==
  \A p \in Procs : record[p] # None /\ record[p].state = "completed" /\ record[p].version = installed =>
    \A f \in Wanted(installed, TRUE) \ mine : disk[f] = Aligned(disk, f, installed)

(* Whatever was killed or failed half way, a later plan never meets a      *)
(* file of the package that it takes for someone else's.                   *)
NothingOrphaned ==
  disk[Ledger] # Unreadable => \A f \in Conflicts(disk, installed, TRUE) : f \in mine \/ Anchor \in mine

(* A runner that is not killed ends, and its record says completed or      *)
(* failed.                                                                 *)
UpgradeEnds ==
  \A p \in Procs : At(Run(p), "begin") ~> At(Run(p), "dead") \/ (At(Run(p), "over") /\ Ended(record[p]))
=============================================================================
