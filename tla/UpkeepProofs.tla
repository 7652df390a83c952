---------------------------- MODULE UpkeepProofs ----------------------------
(***************************************************************************)
(* What git sync commits, for any number of processes, files, saves and    *)
(* failures.  An editor never saves a text that was there before, so a     *)
(* file that differed from the plan once will not be like it again: what   *)
(* the second inspection finds unchanged was unchanged when it was added.  *)
(***************************************************************************)
EXTENDS Upkeep, TLAPS

JobFields == {"at", "expected", "plan", "read", "hashed", "topology", "notes", "beside"}
RepoFields == {"commits", "head", "tracking", "remote", "index", "unmerged", "merging"}
Values(s) == {s[i] : i \in DOMAIN s}

(* A content of today: its text is not one that is still to be saved.      *)
Content(c) == DOMAIN c = {"text", "region"} /\ c.text \in 0..(9 + count.saves)
Known(c)   == c = None \/ Content(c)
Whole(t)   == DOMAIN t = DOMAIN Start /\ \A f \in DOMAIN Start : Known(t[f])

Shapes ==
  /\ DOMAIN job = Procs /\ \A p \in Procs : DOMAIN job[p] = JobFields
  /\ count \in [{"runs", "saves", "incoming", "failures", "faults"} -> Nat]
  /\ DOMAIN repo = RepoFields
  /\ repo.commits \in Seq(Values(repo.commits))
  /\ {repo.head, repo.tracking, repo.remote} \subseteq DOMAIN repo.commits
Trees ==
  /\ Whole(vault) /\ Whole(repo.index)
  /\ \A c \in DOMAIN repo.commits : DOMAIN repo.commits[c] = {"tree", "past"} /\ Whole(repo.commits[c].tree)

Planned == {"fetch", "again", "add", "diff", "staged"}
Files(p) == job[p].plan.files
PlanShape(p) == \A f \in DOMAIN Files(p) : f \in DOMAIN Start /\ Known(Files(p)[f])
AsFiled(p) == \A f \in DOMAIN Files(p) : Files(p)[f] # None /\ repo.index[f] # Files(p)[f] => vault[f] # Files(p)[f]
PlanInv(p) ==
  /\ job[p].at \in Planned => PlanShape(p)
  /\ job[p].at \in {"diff", "staged"} => AsFiled(p)
  /\ job[p].at = "commit" => \A f \in DOMAIN Start :
       IF f \in DOMAIN Files(p) THEN repo.index[f] = Files(p)[f] \/ Files(p)[f] = None ELSE repo.index[f] = None
SyncInv(p) ==
  /\ job[p].at \in {"sync: lock", "sync: write"} => Content(job[p].read)
  /\ job[p].at = "sync: rows" => Known(job[p].expected)
Excludes(p) == job[p].at \notin Unlocked <=> lock = p
JobInv(p) == Excludes(p) /\ PlanInv(p) /\ SyncInv(p)

IInv == Shapes /\ Trees /\ lock \in Procs \union {None} /\ \A p \in Procs : JobInv(p)

----------------------------------------------------------------------------
(* Only p moved: the others are where they were.                           *)
Only(p) ==
  /\ DOMAIN job' = Procs
  /\ \A q \in Procs : DOMAIN job'[q] = JobFields /\ (q # p => job'[q] = job[q])

LEMMA Moves ==
  ASSUME Shapes, NEW p \in Procs, NEW r, DOMAIN r = JobFields, job' = [job EXCEPT ![p] = r]
  PROVE  Only(p) /\ job'[p] = r
BY DEF Shapes, Only

LEMMA Finishing ==
  ASSUME Shapes, NEW p \in Procs, Finish(p)
  PROVE  Only(p) /\ job'[p].at = "idle"
<1>1. DOMAIN Idle = JobFields /\ Idle.at = "idle"
  BY DEF Idle, JobFields
<1> QED BY <1>1, Moves DEF Finish

LEMMA Going ==
  ASSUME Shapes, NEW p \in Procs, NEW there, Goto(p, there)
  PROVE  /\ Only(p)
         /\ job'[p].at = there /\ job'[p].plan = job[p].plan
         /\ job'[p].read = job[p].read /\ job'[p].expected = job[p].expected
<1> DEFINE r == [job[p] EXCEPT !.at = there]
<1>1. DOMAIN r = JobFields /\ job' = [job EXCEPT ![p] = r]
  BY DEF Goto, Shapes
<1>2. r.at = there /\ r.plan = job[p].plan /\ r.read = job[p].read /\ r.expected = job[p].expected
  BY DEF Shapes, JobFields
<1> HIDE DEF r
<1> QED BY <1>1, <1>2, Moves

LEMMA Reads ==
  ASSUME Shapes, NEW p \in Procs, NEW there, NEW field \in JobFields \ {"at"}, NEW value,
         Read(p, there, field, value)
  PROVE  /\ Only(p) /\ job'[p].at = there /\ job'[p][field] = value
         /\ field # "read" => job'[p].read = job[p].read
<1> DEFINE r == [[job[p] EXCEPT ![field] = value] EXCEPT !.at = there]
<1>1. DOMAIN r = JobFields /\ job' = [job EXCEPT ![p] = r]
  BY DEF Read, Shapes
<1>2. r.at = there /\ r[field] = value /\ (field # "read" => r.read = job[p].read)
  BY DEF Shapes, JobFields
<1> HIDE DEF r
<1> QED BY <1>1, <1>2, Moves

LEMMA ReadingText ==
  ASSUME Shapes, NEW p \in Procs, NEW there, NEW value, ReadText(p, there, value)
  PROVE  Only(p) /\ job'[p].at = there /\ job'[p].read = value
<1> DEFINE r == [job[p] EXCEPT !.at = there, !.read = value, !.beside = lock]
<1>1. DOMAIN r = JobFields /\ job' = [job EXCEPT ![p] = r]
  BY DEF ReadText, Shapes
<1>2. r.at = there /\ r.read = value
  BY DEF Shapes, JobFields
<1> HIDE DEF r
<1> QED BY <1>1, <1>2, Moves

(* A sequence of anything.                                                 *)
LEMMA Appending ==
  ASSUME NEW s, NEW e, s \in Seq(Values(s))
  PROVE  /\ Append(s, e) \in Seq(Values(Append(s, e)))
         /\ Len(s) \in Nat /\ DOMAIN s = 1..Len(s)
         /\ DOMAIN Append(s, e) = 1..(Len(s) + 1)
         /\ Append(s, e)[Len(s) + 1] = e
         /\ \A i \in DOMAIN s : Append(s, e)[i] = s[i]
<1> DEFINE S == Values(s) \union {e}
           t == Append(s, e)
<1>1. s \in Seq(S)
  OBVIOUS
<1>2. /\ t \in Seq(S) /\ Len(s) \in Nat /\ DOMAIN s = 1..Len(s) /\ DOMAIN t = 1..(Len(s) + 1)
      /\ t[Len(s) + 1] = e /\ \A i \in DOMAIN s : t[i] = s[i] /\ Len(t) = Len(s) + 1
  BY <1>1
<1> HIDE DEF S, t
<1>3. t \in Seq(Values(t))
  <2>1. Len(t) \in Nat /\ DOMAIN t = 1..Len(t) /\ t = [i \in 1..Len(t) |-> t[i]]
    BY <1>2
  <2>2. \A i \in 1..Len(t) : t[i] \in Values(t)
    BY <2>1 DEF Values
  <2>3. t \in [1..Len(t) -> Values(t)]
    BY <2>1, <2>2
  <2> QED BY <2>1, <2>3
<1> QED BY <1>2, <1>3 DEF t

----------------------------------------------------------------------------
(* What a process relies on, when another one takes a step.                *)
LEMMA OthersStay ==
  ASSUME IInv, NEW p \in Procs, NEW q \in Procs, p # q, job'[q] = job[q],
         count'.saves = count.saves,
         \/ UNCHANGED <<vault, repo>> /\ (lock' = lock \/ (lock = None /\ lock' = p))
         \/ lock = p /\ lock' \in {p, None}
  PROVE  JobInv(q)'
<1>1. JobInv(q) /\ q # None
  BY UpkeepAssumption DEF IInv
<1>2. Excludes(q)'
  BY <1>1 DEF JobInv, Excludes, Unlocked
<1>3. SyncInv(q)'
  BY <1>1 DEF JobInv, SyncInv, Content, Known
<1>4. PlanInv(q)'
  <2>1. CASE lock = p
    <3>1. job[q].at \in Unlocked
      BY <1>1, <2>1 DEF JobInv, Excludes
    <3> QED BY <3>1 DEF PlanInv, Planned, Unlocked
  <2>2. CASE UNCHANGED <<vault, repo>>
    BY <1>1, <2>2 DEF JobInv, PlanInv, PlanShape, AsFiled, Files, Known, Content
  <2> QED BY <2>1, <2>2
<1> QED BY <1>2, <1>3, <1>4 DEF JobInv

LEMMA StepConcludes ==
  ASSUME IInv, NEW p \in Procs, Only(p), Shapes', Trees', JobInv(p)', count'.saves = count.saves,
         \/ UNCHANGED <<vault, repo>> /\ (lock' = lock \/ (lock = None /\ lock' = p))
         \/ lock = p /\ lock' \in {p, None}
  PROVE  IInv'
<1>1. ASSUME NEW q \in Procs PROVE JobInv(q)'
  BY OthersStay DEF Only
<1>2. lock' \in Procs \union {None}
  BY DEF IInv
<1> QED BY <1>1, <1>2 DEF IInv

LEMMA Counting ==
  ASSUME Shapes, NEW what \in {"runs", "incoming", "failures", "faults"}, NEW bound,
         UNCHANGED count \/ Tally(what, bound)
  PROVE  count' \in [{"runs", "saves", "incoming", "failures", "faults"} -> Nat] /\ count'.saves = count.saves
BY DEF Shapes, Tally

(* A step outside the lock that changes no file and no commit.             *)
LEMMA QuietStep ==
  ASSUME IInv, NEW p \in Procs, Only(p), UNCHANGED <<vault, repo, lock>>, lock # p,
         job'[p].at \in Unlocked, job'[p].at = "sync: lock" => Content(job'[p].read),
         NEW what \in {"runs", "incoming", "failures", "faults"}, NEW bound,
         UNCHANGED count \/ Tally(what, bound)
  PROVE  IInv'
<1>1. count' \in [{"runs", "saves", "incoming", "failures", "faults"} -> Nat] /\ count'.saves = count.saves
  BY Counting DEF IInv
<1>2. Shapes'
  BY <1>1 DEF IInv, Shapes, Only
<1>3. Trees'
  BY <1>1 DEF IInv, Trees, Whole, Known, Content
<1>4. JobInv(p)'
  BY <1>1 DEF JobInv, Excludes, PlanInv, SyncInv, Planned, Unlocked, Content
<1> QED BY <1>1, <1>2, <1>3, <1>4, StepConcludes

LEMMA Holding ==
  ASSUME IInv, NEW p \in Procs
  PROVE  /\ p # None /\ (lock = p <=> job[p].at \notin Unlocked)
         /\ Shapes /\ PlanInv(p) /\ SyncInv(p)
BY UpkeepAssumption DEF IInv, JobInv, Excludes

(* A step under the lock: p goes on, or comes out.                         *)
LEMMA InsideStep ==
  ASSUME IInv, NEW p \in Procs, job[p].at \notin Unlocked, Only(p), Shapes', Trees',
         count'.saves = count.saves,
         \/ lock' = lock /\ job'[p].at \notin Unlocked /\ PlanInv(p)' /\ SyncInv(p)'
         \/ lock' = None /\ job'[p].at = "idle"
  PROVE  IInv'
<1>1. lock = p /\ p # None
  BY Holding
<1>2. JobInv(p)'
  <2>1. CASE lock' = lock /\ job'[p].at \notin Unlocked /\ PlanInv(p)' /\ SyncInv(p)'
    BY <1>1, <2>1 DEF JobInv, Excludes, Unlocked
  <2>2. CASE lock' = None /\ job'[p].at = "idle"
    BY <1>1, <2>2 DEF JobInv, Excludes, Unlocked, PlanInv, SyncInv, Planned
  <2> QED BY <2>1, <2>2
<1> QED BY <1>1, <1>2, StepConcludes

(* What does not change keeps its shape.                                   *)
LEMMA SameFiles ==
  ASSUME IInv, NEW p \in Procs, Only(p), UNCHANGED <<vault, repo>>,
         NEW what \in {"runs", "incoming", "failures", "faults"}, NEW bound,
         UNCHANGED count \/ Tally(what, bound)
  PROVE  Shapes' /\ Trees' /\ count'.saves = count.saves
<1>1. count' \in [{"runs", "saves", "incoming", "failures", "faults"} -> Nat] /\ count'.saves = count.saves
  BY Counting DEF IInv
<1>2. Shapes'
  BY <1>1 DEF IInv, Shapes, Only
<1>3. Trees'
  BY <1>1 DEF IInv, Trees, Whole, Known, Content
<1> QED BY <1>1, <1>2, <1>3

LEMMA EndingQuietly ==
  ASSUME IInv, NEW p \in Procs, job[p].at \in Unlocked, Finish(p), UNCHANGED <<vault, repo, lock, count>>
  PROVE  IInv'
<1>1. Only(p) /\ job'[p].at = "idle"
  BY Finishing DEF IInv
<1> QED BY <1>1, Holding, QuietStep DEF Unlocked

(* A command of Maintenance takes the lock, or gives up.                   *)
LEMMA EnterStep ==
  ASSUME IInv, NEW p \in Procs, job[p].at \in Unlocked, NEW may, NEW there, Enter(p, may, there),
         there \in {"check: rows", "sync: write", "bases: write"},
         there = "sync: write" => job[p].at = "sync: lock",
         UNCHANGED repo
  PROVE  IInv'
<1>1. CASE lock = None /\ may
  <2>1. lock' = p /\ Goto(p, there)
    BY <1>1 DEF Enter
  <2>2. Only(p) /\ job'[p].at = there /\ job'[p].read = job[p].read
    BY <2>1, Going DEF IInv
  <2>3. UNCHANGED <<vault, repo, count>>
    BY DEF Enter, Keep
  <2>4. Shapes' /\ Trees' /\ count'.saves = count.saves
    BY <2>2, <2>3, SameFiles
  <2>5. JobInv(p)'
    BY <2>1, <2>2, <2>3, Holding DEF JobInv, Excludes, PlanInv, SyncInv, Planned, Unlocked, Content
  <2> QED BY <1>1, <2>1, <2>2, <2>3, <2>4, <2>5, StepConcludes
<1>2. CASE ~(lock = None /\ may)
  BY <1>2, EndingQuietly DEF Enter, Keep
<1> QED BY <1>1, <1>2

----------------------------------------------------------------------------
(* The steps of Maintenance that read.                                     *)
LEMMA CheckReads ==
  ASSUME IInv, NEW p \in Procs, UNCHANGED repo,
         CheckDiscover(p) \/ CheckTopology(p) \/ CheckHash(p) \/ CheckRules(p)
  PROVE  IInv'
<1>1. CASE CheckDiscover(p)
  <2>1. Only(p) /\ job'[p].at = "check: topology"
    BY <1>1, Reads DEF CheckDiscover, Discover, IInv, JobFields
  <2> QED BY <1>1, <2>1, Holding, QuietStep DEF CheckDiscover, Discover, MayRun, At, Keep, Unlocked
<1>2. CASE CheckTopology(p)
  <2>1. Only(p) /\ job'[p].at = "check: hash"
    BY <1>2, Reads DEF CheckTopology, HashMarkers, IInv, JobFields
  <2> QED BY <1>2, <2>1, Holding, QuietStep DEF CheckTopology, HashMarkers, At, Keep, Unlocked
<1>3. CASE CheckHash(p)
  <2>1. Only(p) /\ job'[p].at = "check: rules"
    BY <1>3, Reads DEF CheckHash, HashDocuments, IInv, JobFields
  <2> QED BY <1>3, <2>1, Holding, QuietStep DEF CheckHash, HashDocuments, At, Keep, Unlocked
<1>4. CASE CheckRules(p)
  <2>1. CASE Finish(p)
    BY <1>4, <2>1, EndingQuietly DEF CheckRules, At, Keep, Unlocked
  <2>2. CASE ReadText(p, "check: lock", Texts(DOMAIN job[p].hashed))
    <3>1. Only(p) /\ job'[p].at = "check: lock"
      BY <2>2, ReadingText DEF IInv
    <3> QED BY <1>4, <3>1, Holding, QuietStep DEF CheckRules, At, Keep, Unlocked
  <2> QED BY <1>4, <2>1, <2>2 DEF CheckRules
<1> QED BY <1>1, <1>2, <1>3, <1>4

LEMMA SyncReads ==
  ASSUME IInv, NEW p \in Procs, UNCHANGED repo,
         SyncDiscover(p) \/ SyncTopology(p) \/ SyncBlocked(p) \/ SyncHash(p) \/ SyncNotes(p)
  PROVE  IInv'
<1>1. CASE SyncDiscover(p)
  <2>1. Only(p) /\ job'[p].at = "sync: topology"
    BY <1>1, Reads DEF SyncDiscover, Discover, IInv, JobFields
  <2> QED BY <1>1, <2>1, Holding, QuietStep DEF SyncDiscover, Discover, MayRun, At, Keep, Unlocked
<1>2. CASE SyncTopology(p)
  <2>1. Only(p) /\ job'[p].at = "sync: hash"
    BY <1>2, Reads DEF SyncTopology, HashMarkers, IInv, JobFields
  <2> QED BY <1>2, <2>1, Holding, QuietStep DEF SyncTopology, HashMarkers, At, Keep, Unlocked
<1>3. CASE SyncBlocked(p)
  BY <1>3, EndingQuietly DEF SyncBlocked, At, Keep, Unlocked
<1>4. CASE SyncHash(p)
  <2>1. Only(p) /\ job'[p].at = "sync: notes"
    BY <1>4, Reads DEF SyncHash, HashDocuments, IInv, JobFields
  <2> QED BY <1>4, <2>1, Holding, QuietStep DEF SyncHash, HashDocuments, At, Keep, Unlocked
<1>5. CASE SyncNotes(p)
  <2>1. Only(p) /\ job'[p].at = "sync: moc"
    BY <1>5, Reads DEF SyncNotes, IInv, JobFields
  <2> QED BY <1>5, <2>1, Holding, QuietStep DEF SyncNotes, At, Unlocked
<1> QED BY <1>1, <1>2, <1>3, <1>4, <1>5

(* What sync writes is the text of the MOC with another region.            *)
LEMMA SyncMocStep ==
  ASSUME IInv, NEW p \in Procs, UNCHANGED repo, SyncMoc(p)
  PROVE  IInv'
<1>1. CASE Finish(p)
  BY <1>1, EndingQuietly DEF SyncMoc, At, Keep, Unlocked
<1>2. CASE ~Finish(p)
  <2> DEFINE region == Generated(job[p].notes, job[p].topology)
             text == [vault[Moc] EXCEPT !.region = region]
  <2>1. ReadText(p, "sync: lock", text) /\ vault[Moc] # None
    BY <1>2 DEF SyncMoc
  <2>2. Content(vault[Moc])
    BY <2>1, UpkeepAssumption DEF IInv, Trees, Whole, Known
  <2> HIDE DEF region
  <2>3. Content(text)
    BY <2>2 DEF Content
  <2> HIDE DEF text
  <2>4. Only(p) /\ job'[p].at = "sync: lock" /\ job'[p].read = text
    BY <2>1, ReadingText DEF IInv
  <2> QED BY <2>3, <2>4, Holding, QuietStep DEF SyncMoc, At, Keep, Unlocked
<1> QED BY <1>1, <1>2

LEMMA LockSteps ==
  ASSUME IInv, NEW p \in Procs, UNCHANGED repo, CheckLock(p) \/ SyncLock(p) \/ BaseLock(p)
  PROVE  IInv'
<1>1. CASE CheckLock(p)
  BY <1>1, EnterStep DEF CheckLock, At, Unlocked
<1>2. CASE SyncLock(p)
  BY <1>2, EnterStep DEF SyncLock, At, Unlocked
<1>3. CASE BaseLock(p)
  BY <1>3, EnterStep DEF BaseLock, At, Unlocked
<1> QED BY <1>1, <1>2, <1>3

(* Under the lock.                                                         *)
LEMMA CheckWrites ==
  ASSUME IInv, NEW p \in Procs, UNCHANGED repo, CheckRows(p) \/ CheckIndex(p) \/ CheckReport(p)
  PROVE  IInv'
<1>1. CASE CheckRows(p) \/ CheckIndex(p)
  <2>1. Only(p) /\ job'[p].at \in {"check: index", "check: report"} /\ UNCHANGED <<vault, lock, count>>
    BY <1>1, Going DEF CheckRows, CheckIndex, IInv
  <2>2. PlanInv(p)' /\ SyncInv(p)'
    BY <2>1 DEF PlanInv, SyncInv, Planned
  <2> QED BY <1>1, <2>1, <2>2, SameFiles, InsideStep DEF CheckRows, CheckIndex, At, Unlocked
<1>2. CASE CheckReport(p)
  <2>1. Only(p) /\ job'[p].at = "idle" /\ lock' = None
    BY <1>2, Finishing DEF CheckReport, Unlock, IInv
  <2> QED BY <1>2, <2>1, SameFiles, InsideStep DEF CheckReport, At, Unlocked
<1> QED BY <1>1, <1>2

(* One file of the work tree changes.                                      *)
LEMMA FileWritten ==
  ASSUME IInv, NEW p \in Procs, NEW f, NEW c, Known(c), vault' = [vault EXCEPT ![f] = c], UNCHANGED repo,
         Only(p), UNCHANGED count \/ Tally("failures", MaxFailures)
  PROVE  Shapes' /\ Trees' /\ count'.saves = count.saves
<1>1. count' \in [{"runs", "saves", "incoming", "failures", "faults"} -> Nat] /\ count'.saves = count.saves
  BY Counting DEF IInv
<1>2. Shapes'
  BY <1>1 DEF IInv, Shapes, Only
<1>3. Whole(vault)'
  BY <1>1 DEF IInv, Trees, Whole, Known, Content
<1>4. Trees'
  BY <1>1, <1>3 DEF IInv, Trees, Whole, Known, Content
<1> QED BY <1>1, <1>2, <1>4

LEMMA SyncWriteStep ==
  ASSUME IInv, NEW p \in Procs, UNCHANGED repo, SyncWrite(p)
  PROVE  IInv'
<1>1. Only(p) /\ job'[p].at = "sync: rows" /\ job'[p].expected = vault[Moc]
  BY Reads DEF SyncWrite, IInv, JobFields
<1>2. Known(job[p].read)
  BY Holding DEF SyncWrite, SyncInv, At, Known
<1>3. Shapes' /\ Trees' /\ count'.saves = count.saves
  BY <1>1, <1>2, FileWritten DEF SyncWrite
<1>4. Known(vault[Moc])
  BY UpkeepAssumption DEF IInv, Trees, Whole
<1>5. PlanInv(p)' /\ SyncInv(p)'
  BY <1>1, <1>3, <1>4 DEF PlanInv, SyncInv, Planned, Known, Content
<1> QED BY <1>1, <1>3, <1>5, InsideStep DEF SyncWrite, At, Unlocked

LEMMA SyncRowsStep ==
  ASSUME IInv, NEW p \in Procs, UNCHANGED repo, SyncRows(p)
  PROVE  IInv'
<1>1. Only(p) /\ job'[p].at = "idle" /\ lock' = None
  BY Finishing DEF SyncRows, Unlock, IInv
<1>2. CASE UNCHANGED <<vault, count>>
  BY <1>1, <1>2, SameFiles, InsideStep DEF SyncRows, At, Unlocked
<1>3. CASE Tally("failures", MaxFailures) /\ vault' = [vault EXCEPT ![Moc] = job[p].expected]
  <2>1. Known(job[p].expected)
    BY Holding DEF SyncRows, SyncInv, At
  <2> QED BY <1>1, <1>3, <2>1, FileWritten, InsideStep DEF SyncRows, At, Unlocked
<1> QED BY <1>2, <1>3 DEF SyncRows

LEMMA BaseSteps ==
  ASSUME IInv, NEW p \in Procs, UNCHANGED repo, BaseRead(p) \/ BaseHash(p) \/ BaseWrite(p)
  PROVE  IInv'
<1>1. CASE BaseRead(p)
  <2>1. Only(p) /\ job'[p].at = "bases: hash"
    BY <1>1, Going DEF BaseRead, IInv
  <2> QED BY <1>1, <2>1, Holding, QuietStep DEF BaseRead, MayRun, At, Keep, Unlocked
<1>2. CASE BaseHash(p)
  <2>1. Only(p) /\ job'[p].at = "bases: lock"
    BY <1>2, Reads DEF BaseHash, IInv, JobFields
  <2> QED BY <1>2, <2>1, Holding, QuietStep DEF BaseHash, At, Keep, Unlocked
<1>3. CASE BaseWrite(p)
  <2>1. Only(p) /\ job'[p].at = "idle" /\ lock' = None
    BY <1>3, Finishing DEF BaseWrite, Unlock, IInv
  <2>2. Known([text |-> 0, region |-> None])
    BY DEF Known, Content, IInv, Shapes
  <2> QED BY <1>3, <2>1, <2>2, FileWritten, InsideStep DEF BaseWrite, At, Unlocked
<1> QED BY <1>1, <1>2, <1>3

LEMMA MaintenanceKeepsInv ==
  ASSUME IInv, NEW p \in Procs, MaintenanceStep(p), UNCHANGED repo
  PROVE  IInv'
BY CheckReads, SyncReads, SyncMocStep, LockSteps, CheckWrites, SyncWriteStep, SyncRowsStep, BaseSteps
   DEF MaintenanceStep
----------------------------------------------------------------------------
(* Git sync uses the desk of Maintenance.                                  *)
LEMMA SameDesk ==
  ASSUME NEW p, NEW there
  PROVE  /\ Git!At(p, there) <=> At(p, there)
         /\ Git!Goto(p, there) <=> Goto(p, there)
         /\ Git!Finish(p) <=> Finish(p)
BY DEF Git!At, At, Git!Goto, Goto, Git!Finish, Finish, Git!Idle, Idle

LEMMA RepoWritten ==
  ASSUME IInv, NEW p \in Procs, Only(p),
         NEW what \in {"runs", "incoming", "failures", "faults"}, NEW bound,
         UNCHANGED count \/ Tally(what, bound),
         DOMAIN repo' = RepoFields,
         \/ repo'.commits = repo.commits
         \/ \E e : repo'.commits = Append(repo.commits, e) /\ DOMAIN e = {"tree", "past"} /\ Whole(e.tree),
         {repo'.head, repo'.tracking, repo'.remote} \subseteq DOMAIN repo'.commits,
         Whole(vault'), Whole(repo'.index)
  PROVE  Shapes' /\ Trees' /\ count'.saves = count.saves
<1>1. count' \in [{"runs", "saves", "incoming", "failures", "faults"} -> Nat] /\ count'.saves = count.saves
  BY Counting DEF IInv
<1>0. /\ repo.commits \in Seq(Values(repo.commits))
      /\ \A c \in DOMAIN repo.commits : DOMAIN repo.commits[c] = {"tree", "past"} /\ Whole(repo.commits[c].tree)
  BY DEF IInv, Shapes, Trees
<1>2. repo'.commits \in Seq(Values(repo'.commits))
  <2>1. CASE repo'.commits = repo.commits
    BY <1>0, <2>1
  <2>2. ASSUME NEW e, repo'.commits = Append(repo.commits, e)
        PROVE  repo'.commits \in Seq(Values(repo'.commits))
    BY <1>0, <2>2, Appending
  <2> QED BY <2>1, <2>2
<1>3. \A c \in DOMAIN repo'.commits : DOMAIN repo'.commits[c] = {"tree", "past"} /\ Whole(repo'.commits[c].tree)
  <2>1. CASE repo'.commits = repo.commits
    BY <1>0, <2>1
  <2>2. ASSUME NEW e, repo'.commits = Append(repo.commits, e), DOMAIN e = {"tree", "past"}, Whole(e.tree)
        PROVE  \A c \in DOMAIN repo'.commits : DOMAIN repo'.commits[c] = {"tree", "past"} /\ Whole(repo'.commits[c].tree)
    <3> DEFINE n == Len(repo.commits) + 1
               s == Append(repo.commits, e)
    <3>1. /\ \A c \in DOMAIN s : c \in DOMAIN repo.commits \/ c = n
          /\ s[n] = e /\ \A c \in DOMAIN repo.commits : s[c] = repo.commits[c]
      BY <1>0, Appending
    <3> HIDE DEF n, s
    <3>2. \A c \in DOMAIN s : DOMAIN s[c] = {"tree", "past"} /\ Whole(s[c].tree)
      BY <3>1, <1>0, <2>2
    <3> QED BY <3>2, <2>2 DEF s
  <2> QED BY <2>1, <2>2
<1>4. Shapes'
  BY <1>1, <1>2 DEF IInv, Shapes, Only
<1>5. Trees'
  BY <1>1, <1>3 DEF Trees, Whole, Known, Content
<1> QED BY <1>1, <1>4, <1>5

(* What stays when a Git step only goes on.                                *)
LEMMA GitTrees ==
  ASSUME IInv
  PROVE  /\ Whole(vault) /\ Whole(repo.index) /\ DOMAIN repo = RepoFields
         /\ Whole(Git!Tree(repo.head)) /\ Whole(Git!Tree(repo.tracking)) /\ Whole(Git!Tree(repo.remote))
         /\ {repo.head, repo.tracking, repo.remote} \subseteq DOMAIN repo.commits
         /\ Git!Newest = Len(repo.commits) + 1
         /\ \A e : /\ DOMAIN repo.commits \subseteq DOMAIN Append(repo.commits, e)
                   /\ Len(repo.commits) + 1 \in DOMAIN Append(repo.commits, e)
BY Appending DEF IInv, Shapes, Trees, Git!Tree, Git!Newest

LEMMA PreviewStep ==
  ASSUME IInv, NEW p \in Procs, Git!Preview(p)
  PROVE  IInv'
<1>1. Only(p) /\ job'[p].at = "confirm"
  BY Going, SameDesk DEF Git!Preview, IInv
<1>2. /\ job[p].at = "idle" /\ Tally("runs", MaxRuns) /\ UNCHANGED <<vault, repo, lock>>
  BY DEF Git!Preview, Git!MayRun, Git!At, Git!Still, Git!Tally, Tally
<1> QED BY <1>1, <1>2, Holding, QuietStep DEF Unlocked

LEMMA ChooseStep ==
  ASSUME IInv, NEW p \in Procs, Git!Choose(p)
  PROVE  IInv'
<1>1. PICK expected : job' = [job EXCEPT ![p] = [@ EXCEPT !.at = "enter", !.expected = expected]]
  BY DEF Git!Choose
<1> DEFINE r == [job[p] EXCEPT !.at = "enter", !.expected = expected]
<1>2. DOMAIN r = JobFields /\ r.at = "enter" /\ job' = [job EXCEPT ![p] = r]
  BY <1>1 DEF IInv, Shapes, JobFields
<1> HIDE DEF r
<1>3. Only(p) /\ job'[p].at = "enter"
  BY <1>2, Moves DEF IInv
<1>4. job[p].at = "confirm" /\ UNCHANGED <<vault, repo, lock, count>>
  BY DEF Git!Choose, Git!At, Git!Still
<1> QED BY <1>3, <1>4, Holding, QuietStep DEF Unlocked

(* A plan that is carried on.                                              *)
LEMMA PlanKept ==
  ASSUME IInv, NEW p \in Procs, job[p].at \in Planned, job'[p].plan = job[p].plan, UNCHANGED count
  PROVE  PlanShape(p)' /\ Files(p)' = Files(p)
<1>1. Files(p)' = Files(p) /\ PlanShape(p)
  BY Holding DEF Files, PlanInv
<1>2. \A c : Known(c) => Known(c)'
  BY DEF Known, Content
<1> QED BY <1>1, <1>2 DEF PlanShape

LEMMA GitEnterStep ==
  ASSUME IInv, NEW p \in Procs, Git!Enter(p)
  PROVE  IInv'
<1>0. job[p].at = "enter" /\ UNCHANGED <<vault, repo, count>>
  BY DEF Git!Enter, Git!At, Git!Still
<1>1. CASE Finish(p) /\ UNCHANGED lock
  BY <1>0, <1>1, EndingQuietly DEF Unlocked
<1>2. CASE lock = None /\ lock' = p /\ job' = [job EXCEPT ![p] = [@ EXCEPT !.at = "fetch", !.plan = Git!Snapshot]]
  <2> DEFINE r == [job[p] EXCEPT !.at = "fetch", !.plan = Git!Snapshot]
  <2>1. DOMAIN r = JobFields /\ r.at = "fetch" /\ r.plan = Git!Snapshot /\ job' = [job EXCEPT ![p] = r]
    BY <1>2 DEF IInv, Shapes, JobFields
  <2> HIDE DEF r
  <2>2. Only(p) /\ job'[p].at = "fetch" /\ job'[p].plan = Git!Snapshot
    BY <2>1, Moves DEF IInv
  <2>3. Shapes' /\ Trees' /\ count'.saves = count.saves
    BY <1>0, <2>2, SameFiles
  <2>4. \A f \in DOMAIN Git!Snapshot.files : f \in DOMAIN Start /\ Known(Git!Snapshot.files[f])
    BY DEF Git!Snapshot, Git!Look, Git!Listed, IInv, Trees, Whole
  <2>5. PlanShape(p)'
    BY <1>0, <2>2, <2>4 DEF PlanShape, Files, Known, Content
  <2>6. PlanInv(p)' /\ SyncInv(p)'
    BY <2>2, <2>5 DEF PlanInv, SyncInv
  <2>7. JobInv(p)'
    BY <1>2, <2>2, <2>6 DEF JobInv, Excludes, Unlocked
  <2> QED BY <1>0, <1>2, <2>2, <2>3, <2>7, StepConcludes
<1> QED BY <1>1, <1>2, SameDesk DEF Git!Enter

LEMMA FetchStep ==
  ASSUME IInv, NEW p \in Procs, Git!Fetch(p)
  PROVE  IInv'
<1>1. job[p].at = "fetch" /\ UNCHANGED <<vault, lock, count>> /\ repo' = [repo EXCEPT !.tracking = repo.remote]
  BY DEF Git!Fetch, Git!Fetched, Git!At
<1>2. Only(p) /\ job'[p].at = "again" /\ job'[p].plan = job[p].plan
  BY Going, SameDesk DEF Git!Fetch, IInv
<1>3. /\ repo'.commits = repo.commits /\ repo'.index = repo.index /\ DOMAIN repo' = RepoFields
      /\ {repo'.head, repo'.tracking, repo'.remote} \subseteq DOMAIN repo'.commits
  BY <1>1, GitTrees DEF RepoFields
<1>4. Shapes' /\ Trees' /\ count'.saves = count.saves
  BY <1>1, <1>2, <1>3, GitTrees, RepoWritten
<1>5. PlanInv(p)' /\ SyncInv(p)'
  BY <1>1, <1>2, PlanKept DEF PlanInv, SyncInv, Planned
<1> QED BY <1>1, <1>2, <1>4, <1>5, InsideStep DEF Unlocked

(* Going on without having changed a file or the index.                    *)
LEMMA GitGoesOn ==
  ASSUME IInv, NEW p \in Procs, job[p].at \notin Unlocked, NEW there, Git!Goto(p, there),
         there \in {"add", "staged", "status", "merge"},
         there = "add" => job[p].at \in Planned, there = "staged" => job[p].at = "diff",
         UNCHANGED <<vault, repo, lock, count>>
  PROVE  IInv'
<1>1. Only(p) /\ job'[p].at = there /\ job'[p].plan = job[p].plan
  BY Going, SameDesk DEF IInv
<1>2. Shapes' /\ Trees' /\ count'.saves = count.saves
  BY <1>1, SameFiles
<1>3. CASE there \in {"add", "staged"}
  <2>1. PlanShape(p)' /\ Files(p)' = Files(p)
    BY <1>1, <1>3, PlanKept DEF Planned
  <2>2. there = "staged" => AsFiled(p)'
    BY <1>1, <2>1, Holding DEF PlanInv, AsFiled
  <2>3. PlanInv(p)' /\ SyncInv(p)'
    BY <1>1, <1>3, <2>1, <2>2 DEF PlanInv, SyncInv
  <2> QED BY <1>1, <1>2, <1>3, <2>3, InsideStep DEF Unlocked
<1>4. CASE there \in {"status", "merge"}
  <2>1. PlanInv(p)' /\ SyncInv(p)'
    BY <1>1, <1>4 DEF PlanInv, SyncInv, Planned
  <2> QED BY <1>1, <1>2, <1>4, <2>1, InsideStep DEF Unlocked
<1> QED BY <1>3, <1>4

LEMMA GitStops ==
  ASSUME IInv, NEW p \in Procs, job[p].at \notin Unlocked, Git!Stop(p),
         NEW what \in {"runs", "incoming", "failures", "faults"}, NEW bound,
         UNCHANGED count \/ Tally(what, bound),
         DOMAIN repo' = RepoFields,
         \/ repo'.commits = repo.commits
         \/ \E e : repo'.commits = Append(repo.commits, e) /\ DOMAIN e = {"tree", "past"} /\ Whole(e.tree),
         {repo'.head, repo'.tracking, repo'.remote} \subseteq DOMAIN repo'.commits,
         Whole(vault'), Whole(repo'.index)
  PROVE  IInv'
<1>1. Only(p) /\ job'[p].at = "idle" /\ lock' = None
  BY Finishing, SameDesk DEF Git!Stop, IInv
<1>2. Shapes' /\ Trees' /\ count'.saves = count.saves
  BY <1>1, RepoWritten
<1> QED BY <1>1, <1>2, InsideStep

LEMMA GitStopsAsItIs ==
  ASSUME IInv, NEW p \in Procs, job[p].at \notin Unlocked, Git!Stop(p),
         NEW what \in {"runs", "incoming", "failures", "faults"}, NEW bound,
         UNCHANGED count \/ Tally(what, bound),
         UNCHANGED <<vault, repo>>
  PROVE  IInv'
BY GitTrees, GitStops

LEMMA GitResets ==
  ASSUME IInv, NEW p \in Procs, job[p].at \notin Unlocked, Git!ResetAndStop(p),
         NEW what \in {"runs", "incoming", "failures", "faults"}, NEW bound,
         UNCHANGED count \/ Tally(what, bound)
  PROVE  IInv'
<1>1. Git!Stop(p) /\ vault' = vault /\ repo' = [repo EXCEPT !.index = Git!Tree(repo.head)]
  BY DEF Git!ResetAndStop, Git!Reset
<1>2. /\ repo'.commits = repo.commits /\ repo'.index = Git!Tree(repo.head) /\ DOMAIN repo' = RepoFields
      /\ {repo'.head, repo'.tracking, repo'.remote} \subseteq DOMAIN repo'.commits
  BY <1>1, GitTrees DEF RepoFields
<1> QED BY <1>1, <1>2, GitTrees, GitStops

LEMMA AgainStep ==
  ASSUME IInv, NEW p \in Procs, Git!Again(p)
  PROVE  IInv'
<1>1. job[p].at = "again"
  BY DEF Git!Again, Git!At
<1>2. CASE Git!Blocked(p)
  BY <1>1, <1>2, GitStopsAsItIs DEF Git!Blocked, Git!Still, Unlocked
<1>3. CASE ~Git!Blocked(p)
  <2>1. UNCHANGED <<vault, repo, lock, count>> /\ \E there \in {"status", "add"} : Git!Goto(p, there)
    BY <1>3 DEF Git!Again, Git!Still
  <2> QED BY <1>1, <2>1, GitGoesOn DEF Unlocked, Planned
<1> QED BY <1>2, <1>3

(* What is added is like the plan, or the work tree is not.                *)
LEMMA AddStep ==
  ASSUME IInv, NEW p \in Procs, Git!Add(p)
  PROVE  IInv'
<1>1. job[p].at = "add" /\ UNCHANGED <<vault, lock, count>> /\ repo' = [repo EXCEPT !.index = vault]
  BY DEF Git!Add, Git!At
<1>2. Only(p) /\ job'[p].at = "diff" /\ job'[p].plan = job[p].plan
  BY Going, SameDesk DEF Git!Add, IInv
<1>3. /\ repo'.commits = repo.commits /\ repo'.index = vault /\ DOMAIN repo' = RepoFields
      /\ {repo'.head, repo'.tracking, repo'.remote} \subseteq DOMAIN repo'.commits
  BY <1>1, GitTrees DEF RepoFields
<1>4. Shapes' /\ Trees' /\ count'.saves = count.saves
  BY <1>1, <1>2, <1>3, GitTrees, RepoWritten
<1>5. PlanShape(p)' /\ AsFiled(p)'
  BY <1>1, <1>2, <1>3, PlanKept DEF AsFiled, Planned
<1>6. PlanInv(p)' /\ SyncInv(p)'
  BY <1>2, <1>5 DEF PlanInv, SyncInv
<1> QED BY <1>1, <1>2, <1>4, <1>6, InsideStep DEF Unlocked

LEMMA DiffStep ==
  ASSUME IInv, NEW p \in Procs, Git!Diff(p)
  PROVE  IInv'
<1>1. job[p].at = "diff"
  BY DEF Git!Diff, Git!At
<1>2. CASE Git!ResetAndStop(p) /\ UNCHANGED count
  BY <1>1, <1>2, GitResets DEF Unlocked
<1>3. CASE Git!Goto(p, "staged") /\ UNCHANGED <<vault, repo, lock, count>>
  BY <1>1, <1>3, GitGoesOn DEF Unlocked
<1> QED BY <1>2, <1>3 DEF Git!Diff, Git!Still

(* The third inspection: now the index is the plan.                        *)
LEMMA StagedStep ==
  ASSUME IInv, NEW p \in Procs, Git!Staged(p)
  PROVE  IInv'
<1>1. job[p].at = "staged"
  BY DEF Git!Staged, Git!At
<1>2. CASE Git!ResetAndStop(p) /\ UNCHANGED count
  BY <1>1, <1>2, GitResets DEF Unlocked
<1>3. CASE Git!Snapshot = job[p].plan /\ Git!Goto(p, "commit") /\ UNCHANGED <<vault, repo, lock, count>>
  <2>1. Only(p) /\ job'[p].at = "commit" /\ job'[p].plan = job[p].plan
    BY <1>3, Going, SameDesk DEF IInv
  <2>2. Shapes' /\ Trees' /\ count'.saves = count.saves
    BY <1>3, <2>1, SameFiles
  <2>3. /\ DOMAIN Files(p) = Git!Listed /\ \A f \in Git!Listed : Files(p)[f] = vault[f]
        /\ DOMAIN vault = DOMAIN Start
    BY <1>3 DEF Files, Git!Snapshot, Git!Look, IInv, Trees, Whole
  <2>4. ASSUME NEW f \in DOMAIN Start
        PROVE  IF f \in DOMAIN Files(p) THEN repo.index[f] = Files(p)[f] \/ Files(p)[f] = None ELSE repo.index[f] = None
    <3>1. CASE f \in Git!Listed
      BY <1>1, <2>3, <3>1, Holding DEF PlanInv, AsFiled
    <3>2. CASE f \notin Git!Listed
      BY <2>3, <3>2 DEF Git!Listed
    <3> QED BY <2>3, <3>1, <3>2
  <2>5. PlanInv(p)' /\ SyncInv(p)'
    BY <1>3, <2>1, <2>4 DEF PlanInv, SyncInv, Planned, Files
  <2> QED BY <1>1, <1>3, <2>1, <2>2, <2>5, InsideStep DEF Unlocked
<1> QED BY <1>2, <1>3 DEF Git!Staged, Git!Still

(* A commit of whole trees, and a step after which no plan counts.         *)
LEMMA NewCommits ==
  ASSUME IInv, NEW tree, NEW past, Whole(tree)
  PROVE  \E e : /\ Git!NewCommit(tree, past) = Append(repo.commits, e)
                /\ DOMAIN e = {"tree", "past"} /\ Whole(e.tree)
<1> DEFINE e == [tree |-> tree, past |-> past \union {Git!Newest}]
<1>1. Git!NewCommit(tree, past) = Append(repo.commits, e)
  BY DEF Git!NewCommit
<1>2. DOMAIN e = {"tree", "past"} /\ e.tree = tree
  OBVIOUS
<1> QED BY <1>1, <1>2

LEMMA GitChanges ==
  ASSUME IInv, NEW p \in Procs, job[p].at \notin Unlocked, NEW there, Git!Goto(p, there),
         there \in {"status", "push", "abort"}, UNCHANGED lock,
         NEW what \in {"runs", "incoming", "failures", "faults"}, NEW bound,
         UNCHANGED count \/ Tally(what, bound),
         DOMAIN repo' = RepoFields,
         \/ repo'.commits = repo.commits
         \/ \E e : repo'.commits = Append(repo.commits, e) /\ DOMAIN e = {"tree", "past"} /\ Whole(e.tree),
         {repo'.head, repo'.tracking, repo'.remote} \subseteq DOMAIN repo'.commits,
         Whole(vault'), Whole(repo'.index)
  PROVE  IInv'
<1>1. Only(p) /\ job'[p].at = there
  BY Going, SameDesk DEF IInv
<1>2. Shapes' /\ Trees' /\ count'.saves = count.saves
  BY <1>1, RepoWritten
<1>3. PlanInv(p)' /\ SyncInv(p)'
  BY <1>1 DEF PlanInv, SyncInv, Planned
<1> QED BY <1>1, <1>2, <1>3, InsideStep DEF Unlocked

LEMMA Committing ==
  ASSUME IInv, repo' = Git!Committed
  PROVE  /\ DOMAIN repo' = RepoFields /\ repo'.index = repo.index
         /\ \E e : repo'.commits = Append(repo.commits, e) /\ DOMAIN e = {"tree", "past"} /\ Whole(e.tree)
         /\ {repo'.head, repo'.tracking, repo'.remote} \subseteq DOMAIN repo'.commits
<1> DEFINE made == Git!NewCommit(repo.index, Git!Past(repo.head))
<1>1. PICK e : made = Append(repo.commits, e) /\ DOMAIN e = {"tree", "past"} /\ Whole(e.tree)
  BY NewCommits, GitTrees
<1> HIDE DEF made
<1>2. repo' = [repo EXCEPT !.commits = made, !.head = Git!Newest]
  BY DEF Git!Committed, made
<1>3. /\ DOMAIN repo' = RepoFields /\ repo'.index = repo.index /\ repo'.commits = made
      /\ repo'.head = Len(repo.commits) + 1 /\ repo'.tracking = repo.tracking /\ repo'.remote = repo.remote
  BY <1>2, GitTrees DEF RepoFields
<1> QED BY <1>1, <1>3, GitTrees

LEMMA CommitStep ==
  ASSUME IInv, NEW p \in Procs, Git!Commit(p)
  PROVE  IInv'
<1>1. job[p].at = "commit" /\ Git!Goto(p, "status") /\ repo' = Git!Committed /\ UNCHANGED <<vault, lock, count>>
  BY DEF Git!Commit, Git!At
<1> QED BY <1>1, Committing, GitTrees, GitChanges DEF Unlocked

LEMMA StatusStep ==
  ASSUME IInv, NEW p \in Procs, Git!Status(p)
  PROVE  IInv'
<1>1. job[p].at = "status"
  BY DEF Git!Status, Git!At
<1>2. CASE Git!Blocked(p)
  BY <1>1, <1>2, GitStopsAsItIs DEF Git!Blocked, Git!Still, Unlocked
<1>3. CASE Git!Goto(p, "merge") /\ UNCHANGED <<vault, repo, lock, count>>
  BY <1>1, <1>3, GitGoesOn DEF Unlocked
<1> QED BY <1>2, <1>3 DEF Git!Status, Git!Still

(* What a merge leaves, finished or not, is made of whole trees.           *)
Sound(r) ==
  /\ DOMAIN r = RepoFields /\ Whole(r.index)
  /\ \/ r.commits = repo.commits
     \/ \E e : r.commits = Append(repo.commits, e) /\ DOMAIN e = {"tree", "past"} /\ Whole(e.tree)
  /\ {r.head, r.tracking, r.remote} \subseteq DOMAIN r.commits

LEMMA MergeTrees ==
  ASSUME IInv
  PROVE  /\ Whole(Git!Ours) /\ Whole(Git!Upstream) /\ Whole(Git!Merged)
         /\ \A S : Whole(Git!InWorkTree(S))
<1>1. Whole(Git!Ours) /\ Whole(Git!Upstream) /\ Whole(vault)
  BY GitTrees DEF Git!Ours, Git!Upstream
<1>2. Known(Git!Conflict)
  BY DEF Git!Conflict, Known, Content, IInv, Shapes
<1>3. Whole(Git!Merged)
  BY <1>1 DEF Git!Merged, Whole
<1>4. ASSUME NEW S PROVE Whole(Git!InWorkTree(S))
  BY <1>1, <1>2 DEF Git!InWorkTree, Whole
<1> QED BY <1>1, <1>3, <1>4

LEMMA IndexSound ==
  ASSUME IInv
  PROVE  Sound(Git!InIndex) /\ \A b : Sound([Git!InIndex EXCEPT !.merging = b])
<1> DEFINE r == Git!InIndex
<1>1. /\ DOMAIN r = RepoFields /\ r.index = Git!Merged /\ r.commits = repo.commits
      /\ r.head = repo.head /\ r.tracking = repo.tracking /\ r.remote = repo.remote
  BY GitTrees DEF Git!InIndex, RepoFields
<1> HIDE DEF r
<1>2. Sound(r)
  BY <1>1, GitTrees, MergeTrees DEF Sound
<1>3. ASSUME NEW b PROVE Sound([r EXCEPT !.merging = b])
  BY <1>2 DEF Sound, RepoFields
<1> QED BY <1>2, <1>3 DEF r

LEMMA JoinedSound ==
  ASSUME IInv
  PROVE  Sound(Git!Joined) /\ \A b : Sound([Git!Joined EXCEPT !.merging = b])
<1> DEFINE r == Git!Joined
<1>1. ASSUME r = repo PROVE Sound(r)
  BY <1>1, GitTrees DEF Sound
<1>2. ASSUME r = [repo EXCEPT !.head = repo.tracking, !.index = Git!Upstream]
      PROVE  Sound(r)
  <2>1. /\ r.commits = repo.commits /\ r.index = Git!Upstream /\ DOMAIN r = RepoFields
        /\ r.head = repo.tracking /\ r.tracking = repo.tracking /\ r.remote = repo.remote
    BY <1>2, GitTrees DEF RepoFields
  <2> HIDE DEF r
  <2> QED BY <2>1, GitTrees, MergeTrees DEF Sound
<1>3. ASSUME NEW past, r = [repo EXCEPT !.commits = Git!NewCommit(Git!Merged, past),
                                        !.head = Git!Newest, !.index = Git!Merged]
      PROVE  Sound(r)
  <2> DEFINE made == Git!NewCommit(Git!Merged, past)
  <2>1. PICK e : made = Append(repo.commits, e) /\ DOMAIN e = {"tree", "past"} /\ Whole(e.tree)
    BY MergeTrees, NewCommits
  <2>2. r = [repo EXCEPT !.commits = made, !.head = Git!Newest, !.index = Git!Merged]
    BY <1>3
  <2> HIDE DEF made, r
  <2>3. /\ DOMAIN r = RepoFields /\ r.index = Git!Merged /\ r.commits = made
        /\ r.head = Len(repo.commits) + 1 /\ r.tracking = repo.tracking /\ r.remote = repo.remote
    BY <2>2, GitTrees DEF RepoFields
  <2>4. {r.head, r.tracking, r.remote} \subseteq DOMAIN r.commits
    BY <2>1, <2>3, GitTrees
  <2> QED BY <2>1, <2>3, <2>4, MergeTrees DEF Sound
<1>4. Sound(r)
  BY <1>1, <1>2, <1>3 DEF Git!Joined
<1> HIDE DEF r
<1>5. ASSUME NEW b PROVE Sound([r EXCEPT !.merging = b])
  BY <1>4 DEF Sound, RepoFields
<1> QED BY <1>4, <1>5 DEF r

LEMMA MergeStep ==
  ASSUME IInv, NEW p \in Procs, Git!Merge(p)
  PROVE  IInv'
<1>1. job[p].at \notin Unlocked
  BY DEF Git!Merge, Git!At, Unlocked
<1>2. CASE Git!Blocked(p)
  BY <1>1, <1>2, GitStopsAsItIs DEF Git!Blocked, Git!Still
<1>3. ASSUME NEW there \in {"push", "abort"}, Git!Goto(p, there), UNCHANGED <<lock, count>>,
             vault' = Git!InWorkTree(Git!Taken), Sound(repo')
      PROVE  IInv'
  BY <1>1, <1>3, MergeTrees, GitChanges DEF Sound
<1>4. CASE ~Git!Blocked(p)
  <2>1. /\ UNCHANGED <<lock, count>> /\ vault' = Git!InWorkTree(Git!Taken)
        /\ \E there \in {"push", "abort"} : Git!Goto(p, there)
        /\ repo' = Git!Joined \/ repo' = [Git!InIndex EXCEPT !.merging = TRUE]
    BY <1>4 DEF Git!Merge
  <2>2. Sound(repo')
    BY <2>1, IndexSound, JoinedSound
  <2> QED BY <1>3, <2>1, <2>2
<1> QED BY <1>2, <1>4

(* A merge that has done part of its work.                                 *)
LEMMA MergeStoppedAt ==
  ASSUME NEW p, Git!MergeFails(p)
  PROVE  job[p].at = "merge" /\ Tally("failures", MaxFailures)
BY DEF Git!MergeFails, Git!MergePart, Git!MergeHalf, Git!MergeUnfinished, Git!MergeDone, Git!MergeStops,
       Git!At, Git!Tally, Tally

LEMMA MergeFailsStep ==
  ASSUME IInv, NEW p \in Procs, Git!MergeFails(p)
  PROVE  IInv'
<1>1. job[p].at \notin Unlocked /\ Tally("failures", MaxFailures)
  BY MergeStoppedAt DEF Unlocked
<1>2. Whole(vault')
  BY MergeTrees DEF Git!MergeFails, Git!MergePart, Git!MergeHalf, Git!MergeUnfinished, Git!MergeDone
<1>3. Sound(repo')
  <2>1. Sound(repo)
    BY GitTrees DEF Sound
  <2> QED BY <2>1, IndexSound, JoinedSound
          DEF Git!MergeFails, Git!MergePart, Git!MergeHalf, Git!MergeUnfinished, Git!MergeDone
<1>4. CASE Git!MergeUnfinished(p)
  <2>1. Git!Goto(p, "abort") /\ UNCHANGED lock
    BY <1>4 DEF Git!MergeUnfinished
  <2> QED BY <1>1, <1>2, <1>3, <2>1, GitChanges DEF Sound
<1>5. CASE Git!Stop(p)
  BY <1>1, <1>2, <1>3, <1>5, GitStops DEF Sound
<1> QED BY <1>4, <1>5 DEF Git!MergeFails, Git!MergePart, Git!MergeHalf, Git!MergeDone

LEMMA AbortStep ==
  ASSUME IInv, NEW p \in Procs, Git!Abort(p)
  PROVE  IInv'
<1>1. job[p].at = "abort" /\ Git!Stop(p) /\ UNCHANGED count
  BY DEF Git!Abort, Git!At
<1>2. CASE UNCHANGED <<vault, repo>>
  BY <1>1, <1>2, GitStopsAsItIs DEF Unlocked
<1>3. CASE /\ vault' = [f \in DOMAIN vault |-> IF f \in Git!Differing THEN Git!Ours[f] ELSE vault[f]]
           /\ repo' = [repo EXCEPT !.merging = FALSE, !.unmerged = {}, !.index = Git!Ours]
  <2>1. Whole(vault') /\ Whole(Git!Ours)
    BY <1>3, GitTrees, MergeTrees DEF Whole
  <2>2. /\ repo'.commits = repo.commits /\ repo'.index = Git!Ours /\ DOMAIN repo' = RepoFields
        /\ {repo'.head, repo'.tracking, repo'.remote} \subseteq DOMAIN repo'.commits
    BY <1>3, GitTrees DEF RepoFields
  <2> QED BY <1>1, <2>1, <2>2, GitStops DEF Unlocked
<1> QED BY <1>2, <1>3 DEF Git!Abort, Git!Still

LEMMA PushStep ==
  ASSUME IInv, NEW p \in Procs, Git!Push(p)
  PROVE  IInv'
<1>1. job[p].at = "push"
  BY DEF Git!Push, Git!At
<1>2. CASE Git!Blocked(p)
  BY <1>1, <1>2, GitStopsAsItIs DEF Git!Blocked, Git!Still, Unlocked
<1>3. CASE /\ repo' = [repo EXCEPT !.remote = repo.head, !.tracking = repo.head]
           /\ Git!Stop(p) /\ UNCHANGED <<vault, count>>
  <2>1. /\ repo'.commits = repo.commits /\ repo'.index = repo.index /\ DOMAIN repo' = RepoFields
        /\ {repo'.head, repo'.tracking, repo'.remote} \subseteq DOMAIN repo'.commits
    BY <1>3, GitTrees DEF RepoFields
  <2> QED BY <1>1, <1>3, <2>1, GitTrees, GitStops DEF Unlocked
<1> QED BY <1>2, <1>3 DEF Git!Push

LEMMA FailStep ==
  ASSUME IInv, NEW p \in Procs, Git!Fail(p)
  PROVE  IInv'
<1>0. Tally("failures", MaxFailures)
  BY DEF Git!Fail, Git!Tally, Tally
<1>1. CASE job[p].at \in {"fetch", "again", "merge", "push", "status"} /\ Git!Stop(p) /\ Git!Still
  BY <1>0, <1>1, GitStopsAsItIs DEF Git!Still, Unlocked
<1>2. CASE job[p].at \in {"add", "diff", "staged", "commit"} /\ Git!ResetAndStop(p)
  BY <1>0, <1>2, GitResets DEF Unlocked
<1>3. CASE Git!At(p, "commit") /\ Git!Stop(p) /\ repo' = Git!Committed /\ UNCHANGED vault
  <2>1. job[p].at \notin Unlocked
    BY <1>3 DEF Git!At, Unlocked
  <2> QED BY <1>0, <1>3, <2>1, Committing, GitTrees, GitStops
<1>4. CASE Git!At(p, "push") /\ Git!Stop(p) /\ repo' = [repo EXCEPT !.remote = repo.head] /\ UNCHANGED vault
  <2>1. job[p].at \notin Unlocked
    BY <1>4 DEF Git!At, Unlocked
  <2>2. /\ repo'.commits = repo.commits /\ repo'.index = repo.index /\ DOMAIN repo' = RepoFields
        /\ {repo'.head, repo'.tracking, repo'.remote} \subseteq DOMAIN repo'.commits
    BY <1>4, GitTrees DEF RepoFields
  <2> QED BY <1>0, <1>4, <2>1, <2>2, GitTrees, GitStops
<1>5. CASE Git!At(p, "fetch") /\ Git!Stop(p) /\ repo' = Git!Fetched /\ UNCHANGED vault
  <2>1. job[p].at \notin Unlocked
    BY <1>5 DEF Git!At, Unlocked
  <2>2. /\ repo'.commits = repo.commits /\ repo'.index = repo.index /\ DOMAIN repo' = RepoFields
        /\ {repo'.head, repo'.tracking, repo'.remote} \subseteq DOMAIN repo'.commits
    BY <1>5, GitTrees DEF RepoFields, Git!Fetched
  <2> QED BY <1>0, <1>5, <2>1, <2>2, GitTrees, GitStops
<1> QED BY <1>1, <1>2, <1>3, <1>4, <1>5 DEF Git!Fail

LEMMA UnreadableStep ==
  ASSUME IInv, NEW p \in Procs, Git!Unreadable(p)
  PROVE  IInv'
<1>1. Tally("failures", MaxFailures) /\ job[p].at \notin Unlocked /\ Git!Stop(p) /\ UNCHANGED <<vault, repo>>
  BY DEF Git!Unreadable, Git!Still, Git!At, Git!Tally, Tally, Unlocked
<1> QED BY <1>1, GitStopsAsItIs

LEMMA LeaveBehindStep ==
  ASSUME IInv, NEW p \in Procs, Git!LeaveBehind(p)
  PROVE  IInv'
<1>1. Tally("faults", MaxFaults) /\ job[p].at \notin Unlocked /\ Git!Stop(p) /\ UNCHANGED <<vault, repo>>
  BY DEF Git!LeaveBehind, Git!Still, Git!Tally, Tally, Unlocked
<1> QED BY <1>1, GitStopsAsItIs

LEMMA GitKeepsInv ==
  ASSUME IInv, NEW p \in Procs, Git!GitStep(p)
  PROVE  IInv'
BY PreviewStep, ChooseStep, GitEnterStep, FetchStep, AgainStep, AddStep, DiffStep, StagedStep, CommitStep,
   StatusStep, MergeStep, MergeFailsStep, AbortStep, PushStep, FailStep, UnreadableStep, LeaveBehindStep DEF Git!GitStep

----------------------------------------------------------------------------
(* Another device pushes: no run of git sync reads that before it fetches. *)
LEMMA ReceiveStep ==
  ASSUME IInv, Git!Receive
  PROVE  IInv'
<1>1. PICK push \in Incoming :
        LET tree == [f \in DOMAIN vault |-> IF f \in DOMAIN push THEN [text |-> push[f], region |-> None]
                                             ELSE Git!Tree(repo.remote)[f]]
        IN  repo' = [repo EXCEPT !.commits = Git!NewCommit(tree, Git!Past(repo.remote)), !.remote = Git!Newest]
  BY DEF Git!Receive
<1> DEFINE tree == [f \in DOMAIN vault |-> IF f \in DOMAIN push THEN [text |-> push[f], region |-> None]
                                            ELSE Git!Tree(repo.remote)[f]]
           made == Git!NewCommit(tree, Git!Past(repo.remote))
<1>2. UNCHANGED <<vault, lock, job>> /\ Tally("incoming", MaxIncoming)
  BY DEF Git!Receive, Git!Tally, Tally
<1>3. count' \in [{"runs", "saves", "incoming", "failures", "faults"} -> Nat] /\ count'.saves = count.saves
  BY <1>2, Counting DEF IInv
<1>4. Whole(tree)
  <2>1. ASSUME NEW f \in DOMAIN push PROVE Known([text |-> push[f], region |-> None])
    <3>1. push[f] \in 0..(9 + count.saves)
      BY UpkeepAssumption DEF IInv, Shapes
    <3> QED BY <3>1 DEF Known, Content
  <2> QED BY <2>1, GitTrees DEF Whole
<1>5. PICK e : made = Append(repo.commits, e) /\ DOMAIN e = {"tree", "past"} /\ Whole(e.tree)
  BY <1>4, NewCommits
<1>6. repo' = [repo EXCEPT !.commits = made, !.remote = Git!Newest]
  BY <1>1
<1> HIDE DEF tree, made
<1>7. /\ DOMAIN repo' = RepoFields /\ repo'.index = repo.index /\ repo'.commits = made
      /\ repo'.remote = Len(repo.commits) + 1 /\ repo'.tracking = repo.tracking /\ repo'.head = repo.head
  BY <1>6, GitTrees DEF RepoFields
<1>8. {repo'.head, repo'.tracking, repo'.remote} \subseteq DOMAIN repo'.commits
  BY <1>5, <1>7, GitTrees
<1>9. made \in Seq(Values(made)) /\ \A c \in DOMAIN made : DOMAIN made[c] = {"tree", "past"} /\ Whole(made[c].tree)
  <2> DEFINE n == Len(repo.commits) + 1
  <2>1. repo.commits \in Seq(Values(repo.commits))
    BY DEF IInv, Shapes
  <2>2. /\ made \in Seq(Values(made)) /\ made[n] = e
        /\ \A c \in DOMAIN made : c \in DOMAIN repo.commits \/ c = n
        /\ \A c \in DOMAIN repo.commits : made[c] = repo.commits[c]
    BY <1>5, <2>1, Appending
  <2> HIDE DEF n
  <2> QED BY <2>2, <1>5 DEF IInv, Trees
<1>10. Shapes'
  BY <1>2, <1>3, <1>7, <1>8, <1>9 DEF IInv, Shapes
<1>11. \A c : Known(c) => Known(c)'
  BY <1>3 DEF Known, Content
<1>12. Trees'
  BY <1>2, <1>3, <1>7, <1>9, <1>11, GitTrees DEF Trees, Whole
<1>13. ASSUME NEW p \in Procs PROVE JobInv(p)'
  <2>1. JobInv(p)
    BY DEF IInv
  <2>2. Excludes(p)' /\ SyncInv(p)'
    BY <1>2, <1>3, <2>1 DEF JobInv, Excludes, SyncInv, Known, Content
  <2>3. PlanInv(p)'
    BY <1>2, <1>7, <1>11, <2>1 DEF JobInv, PlanInv, PlanShape, AsFiled, Files
  <2> QED BY <2>2, <2>3 DEF JobInv
<1>14. lock' \in Procs \union {None}
  BY <1>2 DEF IInv
<1> QED BY <1>10, <1>12, <1>13, <1>14 DEF IInv

(* The editor saves a text that nobody knows.                              *)
LEMMA SaveStep ==
  ASSUME IInv, Save, UNCHANGED repo
  PROVE  IInv'
<1>1. UNCHANGED <<lock, job, repo>> /\ count' = [count EXCEPT !.saves = @ + 1]
  BY DEF Save, Tally
<1>2. /\ count' \in [{"runs", "saves", "incoming", "failures", "faults"} -> Nat]
      /\ count'.saves = count.saves + 1 /\ count.saves \in Nat
  BY <1>1 DEF IInv, Shapes
<1>3. \A c : Content(c) => Content(c)'
  BY <1>2 DEF Content
<1>4. \A c : Known(c) => Known(c)'
  BY <1>3 DEF Known
<1>5. PICK g, c : /\ vault' = [vault EXCEPT ![g] = c]
                  /\ c = None \/ (DOMAIN c = {"text", "region"} /\ c.text = 10 + count.saves)
  <2>1. ASSUME NEW g \in Present(Removed), vault' = [vault EXCEPT ![g] = None]
        PROVE  \E c : vault' = [vault EXCEPT ![g] = c] /\ c = None
    BY <2>1
  <2>2. ASSUME NEW g \in Saved, NEW region, vault' = [vault EXCEPT ![g] = [text |-> Fresh, region |-> region]]
        PROVE  \E c : vault' = [vault EXCEPT ![g] = c] /\ DOMAIN c = {"text", "region"} /\ c.text = 10 + count.saves
    <3> DEFINE new == [text |-> Fresh, region |-> region]
    <3>1. DOMAIN new = {"text", "region"} /\ new.text = 10 + count.saves /\ vault' = [vault EXCEPT ![g] = new]
      BY <2>2 DEF Fresh
    <3> QED BY <3>1
  <2>3. \/ \E g \in Present(Removed) : vault' = [vault EXCEPT ![g] = None]
        \/ \E g \in Saved : \E region : vault' = [vault EXCEPT ![g] = [text |-> Fresh, region |-> region]]
    BY DEF Save
  <2> QED BY <2>1, <2>2, <2>3
<1>6. Known(c)'
  BY <1>2, <1>5 DEF Known, Content
<1>7. ASSUME NEW d, Known(d), d # None PROVE d # c
  BY <1>2, <1>5, <1>7 DEF Known, Content
<1>8. DOMAIN vault' = DOMAIN vault /\ \A f \in DOMAIN vault : vault'[f] = vault[f] \/ vault'[f] = c
  BY <1>5
<1>9. Shapes'
  BY <1>1, <1>2 DEF IInv, Shapes
<1>10. Trees'
  BY <1>1, <1>4, <1>6, <1>8 DEF IInv, Trees, Whole
<1>11. ASSUME NEW p \in Procs PROVE JobInv(p)'
  <2>1. JobInv(p)
    BY DEF IInv
  <2>2. Excludes(p)' /\ SyncInv(p)'
    BY <1>1, <1>3, <1>4, <2>1 DEF JobInv, Excludes, SyncInv
  <2>3. Files(p)' = Files(p)
    BY <1>1 DEF Files
  <2>4. PlanShape(p) => PlanShape(p)'
    BY <1>4, <2>3 DEF PlanShape
  <2>5. PlanShape(p) /\ AsFiled(p) => AsFiled(p)'
    <3>1. SUFFICES ASSUME PlanShape(p), AsFiled(p), NEW f \in DOMAIN Files(p),
                          Files(p)[f] # None, repo.index[f] # Files(p)[f]
                   PROVE  vault'[f] # Files(p)[f]
      BY <1>1, <2>3 DEF AsFiled
    <3>2. vault[f] # Files(p)[f] /\ f \in DOMAIN vault /\ Known(Files(p)[f])
      BY <3>1 DEF AsFiled, PlanShape, IInv, Trees, Whole
    <3> QED BY <1>7, <1>8, <3>1, <3>2
  <2>6. PlanInv(p)'
    BY <1>1, <2>1, <2>3, <2>4, <2>5 DEF JobInv, PlanInv, Planned
  <2> QED BY <2>2, <2>6 DEF JobInv
<1>12. lock' \in Procs \union {None}
  BY <1>1 DEF IInv
<1> QED BY <1>9, <1>10, <1>11, <1>12 DEF IInv

----------------------------------------------------------------------------
LEMMA Starting ==
  ASSUME Init
  PROVE  IInv
<1>1. /\ vault = Start /\ lock = None /\ job = [p \in Procs |-> Idle]
      /\ count = [runs |-> 0, saves |-> 0, incoming |-> 0, failures |-> 0, faults |-> 0]
  BY DEF Init, DeskInit
<1> DEFINE first == [tree |-> Start, past |-> {1}]
<1>2. repo = [commits |-> <<first>>, head |-> 1, tracking |-> 1, remote |-> 1, index |-> Start,
             unmerged |-> {}, merging |-> FALSE]
  BY DEF Init, Git!GitInit
<1>3. Whole(Start)
  BY <1>1, UpkeepAssumption DEF Whole, Known, Content
<1>4. DOMAIN Idle = JobFields /\ Idle.at = "idle"
  BY DEF Idle, JobFields
<1>5. <<first>> \in Seq(Values(<<first>>))
  <2>1. <<first>> \in Seq({first})
    OBVIOUS
  <2>2. Values(<<first>>) = {first}
    BY DEF Values
  <2> QED BY <2>1, <2>2
<1>6. /\ repo.commits = <<first>> /\ repo.head = 1 /\ repo.tracking = 1 /\ repo.remote = 1 /\ repo.index = Start
      /\ DOMAIN repo = RepoFields
  BY <1>2 DEF RepoFields
<1>7. Shapes
  BY <1>1, <1>4, <1>5, <1>6 DEF Shapes
<1>8. Trees
  BY <1>1, <1>3, <1>6 DEF Trees
<1>9. ASSUME NEW p \in Procs PROVE JobInv(p)
  BY <1>1, <1>4, UpkeepAssumption DEF JobInv, Excludes, PlanInv, SyncInv, Planned, Unlocked
<1> QED BY <1>1, <1>7, <1>8, <1>9 DEF IInv

LEMMA StepKeepsInv ==
  ASSUME IInv, [Next]_vars
  PROVE  IInv'
<1>1. CASE UNCHANGED vars
  <2>1. UNCHANGED <<vault, lock, job, count, repo>>
    BY <1>1 DEF vars
  <2>2. Shapes' /\ Trees'
    BY <2>1 DEF IInv, Shapes, Trees, Whole, Known, Content
  <2>3. ASSUME NEW p \in Procs PROVE JobInv(p)'
    BY <2>1 DEF IInv, JobInv, Excludes, PlanInv, PlanShape, AsFiled, Files, SyncInv, Known, Content
  <2> QED BY <2>1, <2>2, <2>3 DEF IInv
<1>2. CASE Next
  BY <1>2, MaintenanceKeepsInv, GitKeepsInv, ReceiveStep, SaveStep DEF Next
<1> QED BY <1>1, <1>2

(* The types, and that nobody is past its comparison without the lock.     *)
THEOREM TypesHold == Spec => []TypeOK
<1>1. ASSUME IInv PROVE TypeOK
  <2>1. \A f \in DOMAIN vault : vault[f] # None => vault[f].text \in Nat
    BY <1>1 DEF IInv, Shapes, Trees, Whole, Known, Content
  <2> QED BY <1>1, <2>1 DEF TypeOK, IInv, Shapes, JobInv, Excludes
<1> QED BY <1>1, Starting, StepKeepsInv, PTL DEF Spec

(* HEAD moves in a commit and in a merge.                                  *)
LEMMA HeadMoves ==
  ASSUME IInv, NEW p \in Procs, Git!GitStep(p), repo'.head # repo.head
  PROVE  job[p].at = "merge" \/ (job[p].at = "commit" /\ repo' = Git!Committed)
<1>0. /\ DOMAIN repo = RepoFields /\ repo' # repo
      /\ \A x : [repo EXCEPT !.index = x].head = repo.head
  BY GitTrees DEF RepoFields
<1>1. ~(Git!Preview(p) \/ Git!Choose(p) \/ Git!Enter(p) \/ Git!Again(p) \/ Git!Status(p) \/ Git!Unreadable(p)
        \/ Git!LeaveBehind(p))
  BY <1>0 DEF Git!Unreadable, Git!Preview, Git!Choose, Git!Enter, Git!Again, Git!Status, Git!LeaveBehind, Git!Blocked, Git!Still
<1>2. ~(Git!Add(p) \/ Git!Diff(p) \/ Git!Staged(p))
  BY <1>0 DEF Git!Add, Git!Diff, Git!Staged, Git!ResetAndStop, Git!Reset, Git!Still
<1>3. ~Git!Fetch(p)
  BY <1>0 DEF Git!Fetch, Git!Fetched, RepoFields
<1>4. ~Git!Abort(p)
  BY <1>0 DEF Git!Abort, RepoFields, Git!Still
<1>5. ~Git!Push(p)
  BY <1>0 DEF Git!Push, RepoFields, Git!Blocked, Git!Still
<1>6. CASE Git!Fail(p)
  <2>1. ~Git!Still /\ ~Git!ResetAndStop(p)
    BY <1>0 DEF Git!Still, Git!ResetAndStop, Git!Reset
  <2>2. repo' # [repo EXCEPT !.remote = repo.head] /\ repo' # Git!Fetched
    BY <1>0 DEF RepoFields, Git!Fetched
  <2> QED BY <1>6, <2>1, <2>2 DEF Git!Fail, Git!At
<1>7. CASE Git!Commit(p) \/ Git!Merge(p) \/ Git!MergeFails(p)
  BY <1>7, MergeStoppedAt DEF Git!Commit, Git!Merge, Git!At
<1> QED BY <1>1, <1>2, <1>3, <1>4, <1>5, <1>6, <1>7 DEF Git!GitStep

(* A commit is what was inspected before the fetch: a file that the add    *)
(* took otherwise than planned would still differ from the plan at the     *)
(* third inspection, and the lock keeps every other command out.           *)
THEOREM CommitsAreInspected == Spec => CommitsWhatWasInspected
<1> DEFINE Committed(p) ==
      /\ \A f \in DOMAIN vault :
           LET files == job[p].plan.files
               committed == repo'.commits[repo'.head].tree[f]
           IN  IF f \in DOMAIN files THEN committed = files[f] \/ files[f] = None ELSE committed = None
      /\ \A q \in Procs : ~At(q, "sync: rows")
<1>1. ASSUME IInv, [Next]_vars, NEW p \in Procs, At(p, "commit"), repo'.head # repo.head
      PROVE  Committed(p)
  <2>1. lock = p /\ job[p].at = "commit" /\ p # None /\ PlanInv(p)
    BY <1>1, Holding DEF At, Unlocked
  <2>2. ASSUME NEW q \in Procs PROVE ~At(q, "sync: rows")
    BY <1>1, <2>1, <2>2, Holding DEF At, Unlocked
  <2>3. repo' = Git!Committed
    <3>1. PICK q \in Procs : Git!GitStep(q)
      <4>1. ~Git!Receive
        BY <1>1, GitTrees DEF Git!Receive, RepoFields
      <4> QED BY <1>1, <4>1 DEF Next, vars
    <3>2. job[q].at = "merge" \/ (job[q].at = "commit" /\ repo' = Git!Committed)
      BY <1>1, <3>1, HeadMoves
    <3>3. lock = q
      BY <1>1, <3>2, Holding DEF Unlocked
    <3> QED BY <2>1, <3>2, <3>3
  <2> DEFINE e == [tree |-> repo.index, past |-> Git!Past(repo.head) \union {Git!Newest}]
             made == Append(repo.commits, e)
  <2>4. repo'.commits[repo'.head].tree = repo.index
    <3>1. repo' = [repo EXCEPT !.commits = made, !.head = Len(repo.commits) + 1]
      BY <1>1, <2>3, GitTrees DEF Git!Committed, Git!NewCommit
    <3>2. repo.commits \in Seq(Values(repo.commits)) /\ e.tree = repo.index
      BY <1>1 DEF IInv, Shapes
    <3> HIDE DEF e
    <3>3. made[Len(repo.commits) + 1] = e
      BY <3>2, Appending
    <3> HIDE DEF made
    <3>4. repo'.commits = made /\ repo'.head = Len(repo.commits) + 1
      BY <1>1, <3>1, GitTrees DEF RepoFields
    <3> QED BY <3>2, <3>3, <3>4
  <2>5. DOMAIN vault = DOMAIN Start
    BY <1>1 DEF IInv, Trees, Whole
  <2> QED BY <2>1, <2>2, <2>4, <2>5 DEF PlanInv, Files
<1>2. IInv /\ [Next]_vars => [\A p \in Procs : At(p, "commit") /\ repo'.head # repo.head => Committed(p)]_vars
  BY <1>1
<1> HIDE DEF Committed
<1>3. Spec => [][\A p \in Procs : At(p, "commit") /\ repo'.head # repo.head => Committed(p)]_vars
  BY <1>2, Starting, StepKeepsInv, PTL DEF Spec
<1> QED BY <1>3 DEF CommitsWhatWasInspected, Committed

----------------------------------------------------------------------------
(* A run finds nothing staged when it starts, and fills the index only     *)
(* between its add and its commit, or in a conflict.                       *)
Settled(p) ==
  /\ job[p].at \in {"fetch", "again", "add", "status", "merge", "push"} => Git!CanInspect
  /\ job[p].at \in {"diff", "staged", "commit"} => Git!NoMerge
GitInv == IInv /\ \A p \in Procs : Settled(p)

(* An index that is HEAD's again.                                          *)
LEMMA Emptied ==
  ASSUME IInv, NEW p \in Procs, Git!NoMerge, Git!ResetAndStop(p)
  PROVE  Git!CanInspect'
<1>1. DOMAIN repo = RepoFields /\ repo' = [repo EXCEPT !.index = Git!Tree(repo.head)]
  BY GitTrees DEF Git!ResetAndStop, Git!Reset
<1>2. /\ repo'.merging = repo.merging /\ repo'.unmerged = repo.unmerged /\ repo'.index = Git!Tree(repo.head)
      /\ repo'.head = repo.head /\ repo'.commits = repo.commits
  BY <1>1 DEF RepoFields
<1> QED BY <1>2 DEF Git!CanInspect, Git!NoMerge, Git!Tree

(* A commit of the index.                                                  *)
LEMMA Appended ==
  ASSUME IInv, NEW tree, NEW past
  PROVE  LET made == Git!NewCommit(tree, past) IN
         /\ made[Git!Newest].tree = tree
         /\ made[Git!Newest].past = past \union {Git!Newest}
         /\ \A c \in DOMAIN repo.commits : made[c] = repo.commits[c]
<1> DEFINE e == [tree |-> tree, past |-> past \union {Git!Newest}]
<1>1. repo.commits \in Seq(Values(repo.commits)) /\ Git!NewCommit(tree, past) = Append(repo.commits, e)
  BY DEF Git!NewCommit, IInv, Shapes
<1>2. e.tree = tree /\ e.past = past \union {Git!Newest}
  OBVIOUS
<1> HIDE DEF e
<1> QED BY <1>1, <1>2, Appending, GitTrees

LEMMA CommittedIsIndex ==
  ASSUME IInv, Git!NoMerge, repo' = Git!Committed
  PROVE  Git!CanInspect'
<1> DEFINE made == Git!NewCommit(repo.index, Git!Past(repo.head))
<1>1. made[Git!Newest].tree = repo.index
  BY Appended
<1> HIDE DEF made
<1>2. DOMAIN repo = RepoFields /\ repo' = [repo EXCEPT !.commits = made, !.head = Git!Newest]
  BY GitTrees DEF Git!Committed, made
<1>3. /\ repo'.merging = repo.merging /\ repo'.unmerged = repo.unmerged
      /\ repo'.index = repo.index /\ repo'.head = Git!Newest /\ repo'.commits = made
  BY <1>2 DEF RepoFields
<1> QED BY <1>1, <1>3 DEF Git!CanInspect, Git!NoMerge, Git!Tree

(* The three outcomes of a merge that is done.                             *)
LEMMA MergedIsHead ==
  ASSUME IInv, Git!CanInspect, repo' = Git!Joined
  PROVE  Git!CanInspect'
<1>0. DOMAIN repo = RepoFields /\ Git!NoMerge
  BY GitTrees DEF Git!CanInspect
<1>1. CASE repo' = repo
  BY <1>1 DEF Git!CanInspect, Git!NoMerge, Git!Tree
<1>2. CASE repo' = [repo EXCEPT !.head = repo.tracking, !.index = Git!Upstream]
  <2>1. /\ repo'.merging = repo.merging /\ repo'.unmerged = repo.unmerged
        /\ repo'.index = Git!Upstream /\ repo'.head = repo.tracking /\ repo'.commits = repo.commits
    BY <1>0, <1>2 DEF RepoFields
  <2> QED BY <1>0, <2>1 DEF Git!CanInspect, Git!NoMerge, Git!Tree, Git!Upstream
<1>3. ASSUME NEW past, repo' = [repo EXCEPT !.commits = Git!NewCommit(Git!Merged, past),
                                            !.head = Git!Newest, !.index = Git!Merged]
      PROVE  Git!CanInspect'
  <2> DEFINE made == Git!NewCommit(Git!Merged, past)
  <2>1. made[Git!Newest].tree = Git!Merged
    BY Appended
  <2> HIDE DEF made
  <2>2. repo' = [repo EXCEPT !.commits = made, !.head = Git!Newest, !.index = Git!Merged]
    BY <1>3 DEF made
  <2>3. /\ repo'.merging = repo.merging /\ repo'.unmerged = repo.unmerged
        /\ repo'.index = Git!Merged /\ repo'.head = Git!Newest /\ repo'.commits = made
    BY <1>0, <2>2 DEF RepoFields
  <2> QED BY <1>0, <2>1, <2>3 DEF Git!CanInspect, Git!NoMerge, Git!Tree
<1> QED BY <1>1, <1>2, <1>3 DEF Git!Joined

(* Where a step of the run leaves it: under the lock, or out of it.        *)
Ends(p) ==
  lock' = None /\ count'.faults = count.faults =>
    \/ Git!CanInspect'
    \/ At(p, "abort") /\ ~Git!CanAbort
    \/ Git!MergeHalf(p) \/ Git!Unreadable(p)
LEMMA Stopping ==
  ASSUME IInv, NEW p \in Procs, Git!Stop(p)
  PROVE  Settled(p)'
<1>1. job'[p].at = "idle"
  BY Finishing, SameDesk DEF Git!Stop, IInv
<1> QED BY <1>1 DEF Settled

LEMMA GoingOn ==
  ASSUME GitInv, NEW p \in Procs, NEW there, Git!Goto(p, there), UNCHANGED lock, job[p].at \notin Unlocked,
         \/ there \in {"again", "add", "status", "merge", "push"} /\ Git!CanInspect'
         \/ there \in {"diff", "staged", "commit"} /\ Git!NoMerge'
         \/ there = "abort"
  PROVE  Settled(p)' /\ Ends(p)
<1>1. job'[p].at = there
  BY Going, SameDesk DEF GitInv, IInv
<1>2. lock' # None
  BY Holding DEF GitInv
<1> QED BY <1>1, <1>2 DEF Settled, Ends

LEMMA UnchangedRepo ==
  ASSUME UNCHANGED repo
  PROVE  (Git!CanInspect' <=> Git!CanInspect) /\ (Git!NoMerge' <=> Git!NoMerge)
BY DEF Git!CanInspect, Git!NoMerge, Git!Tree

(* Every step of a run that has the lock.                                  *)
LEMMA BeforeTheCommit ==
  ASSUME GitInv, NEW p \in Procs, Git!Fetch(p) \/ Git!Again(p) \/ Git!Add(p) \/ Git!Diff(p) \/ Git!Staged(p)
  PROVE  Settled(p)' /\ Ends(p)
<1>0. IInv /\ Settled(p) /\ DOMAIN repo = RepoFields
  BY GitTrees DEF GitInv
<1>1. CASE Git!Fetch(p)
  <2>1. job[p].at = "fetch" /\ Git!CanInspect /\ repo' = [repo EXCEPT !.tracking = repo.remote]
    BY <1>0, <1>1 DEF Git!Fetch, Git!Fetched, Git!At, Settled
  <2>2. /\ repo'.merging = repo.merging /\ repo'.unmerged = repo.unmerged
        /\ repo'.index = repo.index /\ repo'.head = repo.head /\ repo'.commits = repo.commits
    BY <1>0, <2>1 DEF RepoFields
  <2>3. Git!CanInspect'
    BY <2>1, <2>2 DEF Git!CanInspect, Git!NoMerge, Git!Tree
  <2> QED BY <1>1, <2>1, <2>3, GoingOn DEF Git!Fetch, Unlocked
<1>2. CASE Git!Again(p)
  <2>1. job[p].at = "again" /\ Git!CanInspect /\ UNCHANGED repo
    BY <1>0, <1>2 DEF Git!Again, Git!At, Settled, Git!Blocked, Git!Still
  <2>2. Git!CanInspect'
    BY <2>1, UnchangedRepo
  <2>3. CASE Git!Blocked(p)
    BY <1>0, <2>2, <2>3, Stopping DEF Git!Blocked, Ends
  <2>4. CASE ~Git!Blocked(p)
    <3>1. UNCHANGED lock /\ \E there \in {"status", "add"} : Git!Goto(p, there)
      BY <1>2, <2>4 DEF Git!Again
    <3> QED BY <2>1, <2>2, <3>1, GoingOn DEF Unlocked
  <2> QED BY <2>3, <2>4
<1>3. CASE Git!Add(p)
  <2>1. job[p].at = "add" /\ Git!NoMerge /\ repo' = [repo EXCEPT !.index = vault]
    BY <1>0, <1>3 DEF Git!Add, Git!At, Settled, Git!CanInspect
  <2>2. Git!NoMerge'
    BY <1>0, <2>1 DEF RepoFields, Git!NoMerge
  <2> QED BY <1>3, <2>1, <2>2, GoingOn DEF Git!Add, Unlocked
<1>4. CASE Git!Diff(p) \/ Git!Staged(p)
  <2>1. job[p].at \in {"diff", "staged"} /\ Git!NoMerge
    BY <1>0, <1>4 DEF Git!Diff, Git!Staged, Git!At, Settled
  <2>2. CASE Git!ResetAndStop(p)
    BY <1>0, <2>1, <2>2, Emptied, Stopping DEF Git!ResetAndStop, Ends
  <2>3. CASE ~Git!ResetAndStop(p)
    <3>1. UNCHANGED <<lock, repo>> /\ \E there \in {"staged", "commit"} : Git!Goto(p, there)
      BY <1>4, <2>3 DEF Git!Diff, Git!Staged, Git!Still
    <3> QED BY <2>1, <3>1, UnchangedRepo, GoingOn DEF Unlocked
  <2> QED BY <2>2, <2>3
<1> QED BY <1>1, <1>2, <1>3, <1>4

LEMMA FromTheCommit ==
  ASSUME GitInv, NEW p \in Procs, Git!Commit(p) \/ Git!Status(p) \/ Git!Merge(p) \/ Git!Abort(p) \/ Git!Push(p)
  PROVE  Settled(p)' /\ Ends(p)
<1>0. IInv /\ Settled(p) /\ DOMAIN repo = RepoFields
  BY GitTrees DEF GitInv
<1>1. CASE Git!Commit(p)
  <2>1. job[p].at = "commit" /\ Git!NoMerge /\ repo' = Git!Committed
    BY <1>0, <1>1 DEF Git!Commit, Git!At, Settled
  <2>2. Git!CanInspect'
    BY <1>0, <2>1, CommittedIsIndex
  <2> QED BY <1>1, <2>1, <2>2, GoingOn DEF Git!Commit, Unlocked
<1>2. CASE Git!Status(p)
  <2>1. job[p].at = "status" /\ Git!CanInspect /\ UNCHANGED repo
    BY <1>0, <1>2 DEF Git!Status, Git!At, Settled, Git!Blocked, Git!Still
  <2>2. Git!CanInspect'
    BY <2>1, UnchangedRepo
  <2>3. CASE Git!Blocked(p)
    BY <1>0, <2>2, <2>3, Stopping DEF Git!Blocked, Ends
  <2>4. CASE Git!Goto(p, "merge") /\ UNCHANGED lock
    BY <2>1, <2>2, <2>4, GoingOn DEF Unlocked
  <2> QED BY <1>2, <2>3, <2>4 DEF Git!Status
<1>3. CASE Git!Merge(p)
  <2>1. job[p].at = "merge" /\ Git!CanInspect
    BY <1>0, <1>3 DEF Git!Merge, Git!At, Settled
  <2>2. CASE Git!Blocked(p)
    <3>1. Git!CanInspect'
      BY <2>1, <2>2, UnchangedRepo DEF Git!Blocked, Git!Still
    <3> QED BY <1>0, <2>2, <3>1, Stopping DEF Git!Blocked, Ends
  <2>3. CASE Git!Goto(p, "abort") /\ UNCHANGED lock
    BY <2>1, <2>3, GoingOn DEF Unlocked
  <2>4. CASE ~Git!Blocked(p) /\ ~(Git!Goto(p, "abort") /\ UNCHANGED lock)
    <3>1. Git!Goto(p, "push") /\ UNCHANGED lock
      BY <1>3, <2>4 DEF Git!Merge
    <3>2. Git!CanInspect'
      BY <1>0, <1>3, <2>1, <2>4, MergedIsHead DEF Git!Merge
    <3> QED BY <2>1, <3>1, <3>2, GoingOn DEF Unlocked
  <2> QED BY <2>2, <2>3, <2>4
<1>4. CASE Git!Abort(p)
  <2>1. At(p, "abort") /\ Git!Stop(p)
    BY <1>4, SameDesk DEF Git!Abort
  <2>2. CASE Git!CanAbort
    <3>1. repo' = [repo EXCEPT !.merging = FALSE, !.unmerged = {}, !.index = Git!Ours]
      BY <1>4, <2>2 DEF Git!Abort
    <3>2. /\ repo'.merging = FALSE /\ repo'.unmerged = {} /\ repo'.index = Git!Ours
          /\ repo'.head = repo.head /\ repo'.commits = repo.commits
      BY <1>0, <3>1 DEF RepoFields
    <3>3. Git!CanInspect'
      BY <3>2 DEF Git!CanInspect, Git!NoMerge, Git!Tree, Git!Ours
    <3> QED BY <1>0, <2>1, <3>3, Stopping DEF Ends
  <2> QED BY <1>0, <2>1, <2>2, Stopping DEF Ends
<1>5. CASE Git!Push(p)
  <2>1. job[p].at = "push" /\ Git!CanInspect /\ Git!Stop(p)
    BY <1>0, <1>5 DEF Git!Push, Git!At, Settled, Git!Blocked
  <2>2. repo' = repo \/ repo' = [repo EXCEPT !.remote = repo.head, !.tracking = repo.head]
    BY <1>5 DEF Git!Push, Git!Blocked, Git!Still
  <2>3. /\ repo'.merging = repo.merging /\ repo'.unmerged = repo.unmerged
        /\ repo'.index = repo.index /\ repo'.head = repo.head /\ repo'.commits = repo.commits
    BY <1>0, <2>2 DEF RepoFields
  <2>4. Git!CanInspect'
    BY <2>1, <2>3 DEF Git!CanInspect, Git!NoMerge, Git!Tree
  <2> QED BY <1>0, <2>1, <2>4, Stopping DEF Ends
<1> QED BY <1>1, <1>2, <1>3, <1>4, <1>5

(* What a merge that was stopped has done is all of it, or nothing that    *)
(* the next inspection sees, or taken back if MERGE_HEAD exists.           *)
LEMMA FromAMerge ==
  ASSUME GitInv, NEW p \in Procs, Git!MergeFails(p)
  PROVE  Settled(p)' /\ Ends(p)
<1>0. IInv /\ Git!CanInspect /\ job[p].at \notin Unlocked
  BY MergeStoppedAt DEF GitInv, Settled, Unlocked
<1>1. CASE Git!MergeUnfinished(p)
  BY <1>0, <1>1, GoingOn DEF Git!MergeUnfinished
<1>2. CASE Git!MergePart(p)
  <2>1. Git!CanInspect'
    BY <1>0, <1>2, UnchangedRepo DEF Git!MergePart
  <2> QED BY <1>0, <1>2, <2>1, Stopping DEF Git!MergePart, Ends
<1>3. CASE Git!MergeDone(p)
  <2>1. Git!CanInspect'
    BY <1>0, <1>3, MergedIsHead DEF Git!MergeDone
  <2> QED BY <1>0, <1>3, <2>1, Stopping DEF Git!MergeDone, Ends
<1>4. CASE Git!MergeHalf(p)
  <2>1. Git!Stop(p)
    BY <1>4 DEF Git!MergeHalf
  <2> QED BY <1>0, <1>4, <2>1, Stopping DEF Ends
<1> QED BY <1>1, <1>2, <1>3, <1>4 DEF Git!MergeFails

(* A git process that fails is made good; a file that cannot be read and a *)
(* process that is killed are not.                                         *)
LEMMA FromAFailure ==
  ASSUME GitInv, NEW p \in Procs, Git!Fail(p) \/ Git!Unreadable(p) \/ Git!LeaveBehind(p)
  PROVE  Settled(p)' /\ Ends(p)
<1>0. IInv /\ Settled(p) /\ DOMAIN repo = RepoFields
  BY GitTrees DEF GitInv
<1>1. Git!Stop(p) /\ Settled(p)'
  BY <1>0, Stopping DEF Git!Fail, Git!Unreadable, Git!LeaveBehind, Git!ResetAndStop
<1>2. CASE job[p].at \in {"fetch", "again", "merge", "push", "status"} /\ Git!Still
  BY <1>0, <1>1, <1>2, UnchangedRepo DEF Git!Still, Settled, Ends
<1>3. CASE job[p].at \in {"add", "diff", "staged", "commit"} /\ Git!ResetAndStop(p)
  BY <1>0, <1>1, <1>3, Emptied DEF Settled, Ends, Git!CanInspect
<1>4. CASE Git!At(p, "commit") /\ repo' = Git!Committed
  BY <1>0, <1>1, <1>4, CommittedIsIndex DEF Settled, Ends, Git!At
<1>5. CASE \/ Git!At(p, "push") /\ repo' = [repo EXCEPT !.remote = repo.head]
           \/ Git!At(p, "fetch") /\ repo' = Git!Fetched
  <2>1. /\ repo'.merging = repo.merging /\ repo'.unmerged = repo.unmerged
        /\ repo'.index = repo.index /\ repo'.head = repo.head /\ repo'.commits = repo.commits
    BY <1>0, <1>5 DEF RepoFields, Git!Fetched
  <2>2. Git!CanInspect'
    BY <1>0, <1>5, <2>1 DEF Git!CanInspect, Git!NoMerge, Git!Tree, Settled, Git!At
  <2> QED BY <1>1, <2>2 DEF Ends
<1>6. CASE Git!LeaveBehind(p)
  <2>1. count'.faults # count.faults
    BY <1>0, <1>6 DEF Git!LeaveBehind, Git!Tally, IInv, Shapes
  <2> QED BY <1>1, <2>1 DEF Ends
<1>7. CASE Git!Unreadable(p)
  BY <1>1, <1>7 DEF Ends
<1> QED BY <1>2, <1>3, <1>4, <1>5, <1>6, <1>7 DEF Git!Fail

(* Before the lock: what is inspected there still holds when it is taken.  *)
LEMMA UpToTheLock ==
  ASSUME GitInv, NEW p \in Procs, Git!Preview(p) \/ Git!Choose(p) \/ Git!Enter(p)
  PROVE  Settled(p)' /\ UNCHANGED repo /\ job[p].at \in Unlocked
<1>0. IInv /\ UNCHANGED repo /\ job[p].at \in Unlocked
  BY DEF GitInv, Git!Preview, Git!Choose, Git!Enter, Git!Still, Git!MayRun, Git!At, Unlocked
<1>1. CASE Git!Preview(p)
  <2>1. job'[p].at = "confirm"
    BY <1>0, <1>1, Going, SameDesk DEF Git!Preview, IInv
  <2> QED BY <1>0, <2>1 DEF Settled
<1>2. CASE Git!Choose(p)
  <2>1. job'[p].at = "enter"
    BY <1>0, <1>2 DEF Git!Choose, IInv, Shapes, JobFields
  <2> QED BY <1>0, <2>1 DEF Settled
<1>3. CASE Git!Enter(p)
  <2>1. CASE Git!Finish(p)
    <3>1. job'[p].at = "idle"
      BY <1>0, <2>1, Finishing, SameDesk DEF IInv
    <3> QED BY <1>0, <3>1 DEF Settled
  <2>2. CASE Git!CanInspect /\ job' = [job EXCEPT ![p] = [@ EXCEPT !.at = "fetch", !.plan = Git!Snapshot]]
    <3>1. job'[p].at = "fetch"
      BY <1>0, <2>2 DEF IInv, Shapes, JobFields
    <3> QED BY <1>0, <2>2, <3>1, UnchangedRepo DEF Settled
  <2> QED BY <1>3, <2>1, <2>2 DEF Git!Enter
<1> QED BY <1>1, <1>2, <1>3

(* The others are where they were, and Maintenance is somewhere else.      *)
LEMMA OthersRest ==
  ASSUME IInv, NEW p \in Procs, MaintenanceStep(p) \/ Git!GitStep(p), NEW q \in Procs, q # p
  PROVE  job'[q] = job[q]
<1>1. \A r : job' = [job EXCEPT ![p] = r] => job'[q] = job[q]
  BY DEF IInv, Shapes
<1>2. CASE MaintenanceStep(p)
  BY <1>1, <1>2
     DEF MaintenanceStep, CheckDiscover, CheckTopology, CheckHash, CheckRules, CheckLock, CheckRows, CheckIndex, CheckReport,
         SyncDiscover, SyncTopology, SyncBlocked, SyncHash, SyncNotes, SyncMoc, SyncLock, SyncWrite, SyncRows,
         BaseRead, BaseHash, BaseLock, BaseWrite, Discover, HashMarkers, HashDocuments, Enter, Unlock,
         Read, ReadText, Goto, Finish
<1>3. CASE Git!GitStep(p)
  BY <1>1, <1>3
     DEF Git!GitStep, Git!Preview, Git!Choose, Git!Enter, Git!Fetch, Git!Again, Git!Add, Git!Diff, Git!Staged, Git!Commit,
         Git!Status, Git!Merge, Git!MergeFails, Git!MergePart, Git!MergeHalf, Git!MergeUnfinished, Git!MergeDone,
         Git!Abort, Git!Push, Git!Fail, Git!Unreadable, Git!LeaveBehind, Git!Blocked, Git!ResetAndStop, Git!Stop,
         Git!Goto, Git!Finish
<1> QED BY <1>2, <1>3

LEMMA OtherPlaces ==
  ASSUME IInv, NEW p \in Procs, MaintenanceStep(p)
  PROVE  job[p].at \notin Syncing /\ job'[p].at \notin Syncing
<1>1. job[p].at \notin Syncing
  BY DEF MaintenanceStep, CheckDiscover, CheckTopology, CheckHash, CheckRules, CheckLock, CheckRows, CheckIndex, CheckReport,
         SyncDiscover, SyncTopology, SyncBlocked, SyncHash, SyncNotes, SyncMoc, SyncLock, SyncWrite, SyncRows,
         BaseRead, BaseHash, BaseLock, BaseWrite, MayRun, At, Syncing
<1>2. CASE Finish(p)
  BY <1>1, <1>2, Finishing DEF Syncing, IInv
<1>3. CASE \E there : there \notin Syncing /\ Goto(p, there)
  BY <1>1, <1>3, Going DEF IInv
<1>4. CASE \E there : there \notin Syncing /\ \E field \in JobFields \ {"at"} : \E value : Read(p, there, field, value)
  BY <1>1, <1>4, Reads DEF IInv
<1>5. CASE \E there : there \notin Syncing /\ \E value : ReadText(p, there, value)
  BY <1>1, <1>5, ReadingText DEF IInv
<1>6. \/ Finish(p)
      \/ \E there : /\ there \notin Syncing
                    /\ \/ Goto(p, there)
                       \/ \E field \in JobFields \ {"at"} : \E value : Read(p, there, field, value)
                       \/ \E value : ReadText(p, there, value)
  <2>1. CASE CheckDiscover(p) \/ CheckTopology(p) \/ CheckHash(p) \/ SyncDiscover(p) \/ SyncTopology(p) \/ SyncHash(p)
             \/ SyncNotes(p) \/ SyncWrite(p) \/ BaseHash(p)
    BY <2>1 DEF CheckDiscover, CheckTopology, CheckHash, SyncDiscover, SyncTopology, SyncHash, SyncNotes, SyncWrite, BaseHash,
                Discover, HashMarkers, HashDocuments, Syncing, JobFields
  <2>2. CASE CheckRules(p) \/ SyncMoc(p)
    BY <2>2 DEF CheckRules, SyncMoc, Syncing
  <2>3. CASE CheckLock(p) \/ SyncLock(p) \/ BaseLock(p)
    BY <2>3 DEF CheckLock, SyncLock, BaseLock, Enter, Syncing
  <2>4. CASE CheckRows(p) \/ CheckIndex(p) \/ CheckReport(p) \/ SyncBlocked(p) \/ SyncRows(p) \/ BaseRead(p) \/ BaseWrite(p)
    BY <2>4 DEF CheckRows, CheckIndex, CheckReport, SyncBlocked, SyncRows, BaseRead, BaseWrite, Unlock, Syncing
  <2> QED BY <2>1, <2>2, <2>3, <2>4 DEF MaintenanceStep
<1> QED BY <1>1, <1>2, <1>3, <1>4, <1>5, <1>6

LEMMA PushedBeside ==
  ASSUME IInv, Git!Receive
  PROVE  (Git!NoMerge => Git!NoMerge') /\ (Git!CanInspect => Git!CanInspect')
<1>1. PICK tree : repo' = [repo EXCEPT !.commits = Git!NewCommit(tree, Git!Past(repo.remote)), !.remote = Git!Newest]
  BY DEF Git!Receive
<1> DEFINE made == Git!NewCommit(tree, Git!Past(repo.remote))
<1>2. \A c \in DOMAIN repo.commits : made[c] = repo.commits[c]
  BY Appended
<1>3. DOMAIN repo = RepoFields /\ repo.head \in DOMAIN repo.commits
  BY GitTrees
<1> HIDE DEF made
<1>4. repo' = [repo EXCEPT !.commits = made, !.remote = Git!Newest]
  BY <1>1 DEF made
<1>5. /\ repo'.merging = repo.merging /\ repo'.unmerged = repo.unmerged
      /\ repo'.index = repo.index /\ repo'.head = repo.head /\ repo'.commits = made
  BY <1>3, <1>4 DEF RepoFields
<1> QED BY <1>2, <1>3, <1>5 DEF Git!CanInspect, Git!NoMerge, Git!Tree

LEMMA RunStep ==
  ASSUME GitInv, NEW p \in Procs, (MaintenanceStep(p) /\ UNCHANGED repo) \/ Git!GitStep(p)
  PROVE  Settled(p)' /\ (job[p].at \in Syncing => Ends(p)) /\ (job[p].at \in Unlocked => UNCHANGED repo)
<1>0. IInv
  BY DEF GitInv
<1>1. CASE MaintenanceStep(p) /\ UNCHANGED repo
  <2>1. job[p].at \notin Syncing /\ job'[p].at \notin Syncing
    BY <1>0, <1>1, OtherPlaces
  <2> QED BY <1>1, <2>1 DEF Settled, Syncing
<1>2. CASE Git!GitStep(p)
  <2>1. CASE Git!Preview(p) \/ Git!Choose(p) \/ Git!Enter(p)
    BY <2>1, UpToTheLock DEF Syncing, Unlocked
  <2>2. CASE ~(Git!Preview(p) \/ Git!Choose(p) \/ Git!Enter(p))
    <3>1. job[p].at \notin Unlocked
      BY <1>2, <2>2, MergeStoppedAt DEF Git!GitStep, Git!Fetch, Git!Again, Git!Add, Git!Diff, Git!Staged, Git!Commit, Git!Status, Git!Merge,
                        Git!Abort, Git!Push, Git!Fail, Git!Unreadable, Git!LeaveBehind, Git!At, Unlocked
    <3> QED BY <1>2, <2>2, <3>1, BeforeTheCommit, FromTheCommit, FromAMerge, FromAFailure DEF Git!GitStep
  <2> QED BY <2>1, <2>2
<1> QED BY <1>1, <1>2

LEMMA GitInvStays == GitInv /\ [Next]_vars => GitInv'
<1> SUFFICES ASSUME GitInv, [Next]_vars PROVE GitInv'
  OBVIOUS
<1>1. IInv /\ IInv'
  BY StepKeepsInv DEF GitInv
<1>2. SUFFICES ASSUME NEW q \in Procs PROVE Settled(q)'
  BY <1>1 DEF GitInv
<1>3. Settled(q)
  BY DEF GitInv
<1>4. CASE UNCHANGED <<job, repo>>
  BY <1>3, <1>4, UnchangedRepo DEF Settled
<1>5. ASSUME NEW p \in Procs, (MaintenanceStep(p) /\ UNCHANGED repo) \/ Git!GitStep(p) PROVE Settled(q)'
  <2>1. CASE p = q
    BY <1>5, <2>1, RunStep
  <2>2. CASE p # q
    <3>1. job'[q] = job[q]
      BY <1>1, <1>5, <2>2, OthersRest
    <3>2. CASE job[p].at \in Unlocked
      BY <1>3, <1>5, <3>1, <3>2, RunStep, UnchangedRepo DEF Settled
    <3>3. CASE job[q].at \in Unlocked
      BY <3>1, <3>3 DEF Settled, Unlocked
    <3>4. job[p].at \in Unlocked \/ job[q].at \in Unlocked
      BY <1>1, <2>2, Holding
    <3> QED BY <3>2, <3>3, <3>4
  <2> QED BY <2>1, <2>2
<1>6. CASE Git!Receive
  <2>1. UNCHANGED job
    BY <1>6 DEF Git!Receive
  <2> QED BY <1>1, <1>3, <1>6, <2>1, PushedBeside DEF Settled
<1>7. CASE Save /\ UNCHANGED repo
  BY <1>4, <1>7 DEF Save
<1> QED BY <1>4, <1>5, <1>6, <1>7 DEF Next, vars

(* However a run of git sync ends, refused, failed or done, the index is   *)
(* HEAD's and no merge is unfinished, unless the process is killed or what *)
(* takes back fails, a merged file was saved before the abort, the merge   *)
(* was stopped between filling the index and MERGE_HEAD, or a staged file  *)
(* could not be read.                                                      *)
THEOREM NothingStaysStaged == Spec => NothingLeftStaged
<1> DEFINE Ended(p) == job[p].at \in Syncing /\ lock' = None /\ count'.faults = count.faults =>
                         \/ Git!CanInspect'
                         \/ At(p, "abort") /\ ~Git!CanAbort
                         \/ Git!MergeHalf(p) \/ Git!Unreadable(p)
<1>1. ASSUME GitInv, GitInv', [Next]_vars, NEW p \in Procs PROVE Ended(p) \/ UNCHANGED vars
  <2> SUFFICES ASSUME job[p].at \in Syncing, lock' = None, ~UNCHANGED vars PROVE Ends(p)
    BY DEF Ends
  <2>1. lock = p /\ p # None /\ job'[p].at \in Unlocked
    BY <1>1, Holding DEF GitInv, IInv, JobInv, Excludes, Syncing, Unlocked
  <2>2. job'[p] # job[p]
    BY <2>1 DEF Syncing, Unlocked
  <2>3. PICK q \in Procs : (MaintenanceStep(q) /\ UNCHANGED repo) \/ Git!GitStep(q)
    BY <1>1, <2>2 DEF Next, vars, Git!Receive, Save
  <2>4. q = p
    BY <1>1, <2>2, <2>3, OthersRest DEF GitInv
  <2> QED BY <1>1, <2>3, <2>4, RunStep
<1>2. GitInv /\ GitInv' /\ [Next]_vars => [\A p \in Procs : Ended(p)]_vars
  BY <1>1
<1>3. Init => GitInv
  <2> SUFFICES ASSUME Init PROVE GitInv
    OBVIOUS
  <2>1. \A p \in Procs : job[p].at = "idle"
    BY DEF Init, DeskInit, Idle
  <2> QED BY <2>1, Starting DEF GitInv, Settled
<1> HIDE DEF Ended
<1>4. Spec => [][\A p \in Procs : Ended(p)]_vars
  BY <1>2, <1>3, GitInvStays, PTL DEF Spec
<1> QED BY <1>4 DEF NothingLeftStaged, Ended
=============================================================================
