------------------------- MODULE DistributionProofs -------------------------
(***************************************************************************)
(* Whatever the package brings, whatever is on the disk and however many   *)
(* commands, saves and kills there are: align writes only while it holds   *)
(* the locks of what it writes, and what it writes over is its own.  The   *)
(* plan is the reason: a change is only planned for a file that the ledger *)
(* owned or that SKILL.md named, or keeps the text around the block; the   *)
(* comparison before each write is with the content that was planned from. *)
(***************************************************************************)
EXTENDS Distribution, TLAPS

JobFields == {"at", "cmd", "version", "sign", "todo", "now", "locks", "ok", "touched", "round"}
Inside    == {"again", "compare", "write"}
Busy      == Inside \union {"lock"}
Starting  == {"job", "marker", "spawn"}
Away      == {"idle", "gone", "dead"}

(* What a plan may do to a file that is not the ledger.                    *)
Harmless(f, change, plan) ==
  IF f = Hint THEN change.before # None => change.content.text = change.before.text
  ELSE change.before # None /\ change.before.text # 0 => f \in Owned(plan) \/ Named(plan)

Types ==
  /\ disk \in Disks
  /\ lock \in Actors \union {None} /\ held \subseteq Paths
  /\ installed \in 1 .. Latest /\ marker \in Procs \union {None}
  /\ record \in [Procs -> Results \union {None}]
Shapes == DOMAIN job = Actors /\ \A a \in Actors : DOMAIN job[a] = JobFields

PlanInv(a) ==
  job[a].at \in Busy =>
    /\ Targets(a) \subseteq Paths
    /\ \A f \in Targets(a) : Holds(f, job[a].todo[f].content)
    /\ \A f \in Targets(a) \ {Ledger} : Harmless(f, job[a].todo[f], job[a].sign[2])
    /\ job[a].at = "write" => job[a].now \in Targets(a)
LockInv(a) ==
  /\ job[a].at \in Inside \union Starting => lock = a
  /\ job[a].at \in Inside => job[a].locks \subseteq held /\ Targets(a) \subseteq job[a].locks
RecordInv(a) ==
  /\ a[2] = "run" /\ job[a].at # "idle" => record[a[1]] # None
  /\ job[a].at \in {"marker", "spawn"} => record[a[1]] # None
  /\ a[2] = "cli" /\ job[a].at \notin Away => job[a].version \in 1 .. Latest
JobInv(a) == PlanInv(a) /\ LockInv(a) /\ RecordInv(a)

IInv == Types /\ Shapes /\ \A a \in Actors : JobInv(a)

----------------------------------------------------------------------------
(* A step of one actor.                                                    *)
Only(a) ==
  /\ DOMAIN job' = Actors
  /\ \A b \in Actors : DOMAIN job'[b] = JobFields /\ (b # a => job'[b] = job[b])
RecordsKept == \A p \in Procs : record[p] # None => record'[p] # None
LocksKept(a) == (lock' = lock /\ held \subseteq held') \/ lock \in {a, None}
Step(a) ==
  /\ Types' /\ Only(a) /\ RecordsKept /\ LocksKept(a) /\ JobInv(a)'
  /\ At(a, "write") /\ At(a, "compare")' => Write(a)

LEMMA ActorsAre ==
  /\ \A p \in Procs : /\ Cli(p) \in Actors /\ Cli(p)[1] = p /\ Cli(p)[2] = "cli"
                      /\ Run(p) \in Actors /\ Run(p)[1] = p /\ Run(p)[2] = "run"
  /\ \A p, q \in Procs : Cli(p) # Run(q)
  /\ \A a \in Actors : a[1] \in Procs
BY DEF Actors, Cli, Run

LEMMA Stepping ==
  ASSUME IInv, NEW a \in Actors, Step(a)
  PROVE  IInv' /\ \A b \in Actors : At(b, "write") /\ At(b, "compare")' => Write(b)
<1>1. Types' /\ Shapes'
  BY DEF Step, Shapes, Only
<1>2. ASSUME NEW b \in Actors, b # a
      PROVE  JobInv(b)' /\ ~(At(b, "write") /\ At(b, "compare")')
  <2>1. job'[b] = job[b] /\ JobInv(b) /\ RecordsKept /\ LocksKept(a)
    BY <1>2 DEF Step, Only, IInv
  <2>2. PlanInv(b)'
    BY <2>1 DEF JobInv, PlanInv, Targets
  <2>3. LockInv(b)'
    <3>1. CASE job[b].at \in Inside \union Starting
      <4>1. lock = b /\ b # None
        BY <2>1, <3>1, DistributionAssumption DEF JobInv, LockInv
      <4>2. lock' = lock /\ held \subseteq held'
        BY <4>1, <2>1, <1>2 DEF LocksKept
      <4> QED BY <4>1, <4>2, <2>1 DEF JobInv, LockInv, Targets
    <3>2. CASE job[b].at \notin Inside \union Starting
      BY <2>1, <3>2 DEF LockInv
    <3> QED BY <3>1, <3>2
  <2>4. RecordInv(b)'
    BY <2>1, ActorsAre DEF JobInv, RecordInv, RecordsKept
  <2>5. ~(At(b, "write") /\ At(b, "compare")')
    BY <2>1 DEF At
  <2> QED BY <2>2, <2>3, <2>4, <2>5 DEF JobInv
<1> QED BY <1>1, <1>2 DEF IInv, Step

(* The ways an actor moves on.                                             *)
LEMMA Moves ==
  ASSUME Shapes, NEW a \in Actors, NEW r, DOMAIN r = JobFields, job' = [job EXCEPT ![a] = r]
  PROVE  Only(a) /\ job'[a] = r
BY DEF Shapes, Only

LEMMA IdleIs == DOMAIN Idle = JobFields /\ DOMAIN Nothing = {}
BY DEF Idle, JobFields, Nothing

LEMMA Quitting ==
  ASSUME Shapes, NEW a \in Actors, NEW there, Quit(a, there)
  PROVE  Only(a) /\ job'[a].at = there
<1> DEFINE r == [Idle EXCEPT !.at = there]
<1>1. DOMAIN r = JobFields /\ r.at = there
  BY IdleIs DEF JobFields
<1>2. job' = [job EXCEPT ![a] = r]
  BY DEF Quit
<1> HIDE DEF r
<1> QED BY <1>1, <1>2, Moves

LEMMA Going ==
  ASSUME Shapes, NEW a \in Actors, NEW there, Goto(a, there)
  PROVE  /\ Only(a) /\ job'[a].at = there
         /\ \A f \in JobFields \ {"at"} : job'[a][f] = job[a][f]
<1> DEFINE r == [job[a] EXCEPT !.at = there]
<1>1. DOMAIN r = JobFields /\ job' = [job EXCEPT ![a] = r]
  BY DEF Goto, Shapes
<1>2. r.at = there /\ \A f \in JobFields \ {"at"} : r[f] = job[a][f]
  BY DEF Shapes, JobFields
<1> HIDE DEF r
<1> QED BY <1>1, <1>2, Moves

LEMMA Ending ==
  ASSUME Shapes, NEW a \in Actors, NEW ok, End(a, ok)
  PROVE  Only(a) /\ job'[a].at = "aligned" /\ job'[a].version = job[a].version
<1> DEFINE r == [job[a] EXCEPT !.at = "aligned", !.ok = ok, !.todo = Nothing,
                               !.now = None, !.sign = None, !.locks = {}]
<1>1. DOMAIN r = JobFields /\ job' = [job EXCEPT ![a] = r]
  BY DEF End, Shapes
<1>2. r.at = "aligned" /\ r.version = job[a].version
  BY DEF Shapes, JobFields
<1> HIDE DEF r
<1> QED BY <1>1, <1>2, Moves

LEMMA Resting ==
  ASSUME IInv, NEW a \in Actors, Only(a), RecordsKept,
         job'[a].at \notin Busy \union Starting,
         a[2] = "run" => job[a].at # "idle",
         a[2] = "cli" => job'[a].at \in Away \/ job'[a].version \in 1 .. Latest
  PROVE  JobInv(a)'
<1>1. RecordInv(a) /\ a[1] \in Procs
  BY ActorsAre DEF IInv, JobInv
<1>2. PlanInv(a)' /\ LockInv(a)'
  BY DEF PlanInv, LockInv, Busy, Inside, Starting
<1>3. RecordInv(a)'
  BY <1>1 DEF RecordInv, RecordsKept, Starting
<1> QED BY <1>2, <1>3 DEF JobInv

----------------------------------------------------------------------------
(* The plan.                                                               *)
LEMMA DiskIs ==
  ASSUME NEW d \in Disks
  PROVE  /\ d[Ledger] = None \/ d[Ledger] = Unreadable \/ \E S \in SUBSET Files : d[Ledger] = Owning(S)
         /\ \A f \in Files : f # Ledger /\ d[f] \in Contents
BY DistributionAssumption DEF Disks, Paths, Holds, Ledgers

LEMMA OwnedAre ==
  ASSUME NEW d \in Disks, d[Ledger] # Unreadable
  PROVE  Owned(d) \subseteq Files
<1>1. CASE d[Ledger] = None
  BY <1>1 DEF Owned
<1>2. ASSUME NEW S \in SUBSET Files, d[Ledger] = Owning(S), d[Ledger] # None
      PROVE  Owned(d) \subseteq Files
  <2>1. d[Ledger].owned = S
    BY <1>2 DEF Owning
  <2> QED BY <2>1, <1>2 DEF Owned
<1> QED BY <1>1, <1>2, DiskIs

LEMMA PackagesAre ==
  ASSUME NEW v \in 1 .. Latest, NEW hints \in BOOLEAN
  PROVE  Wanted(v, hints) \subseteq Files /\ Anchor \in Wanted(v, hints)
<1>1. Packaged[v] \subseteq Files
  BY DistributionAssumption DEF Latest
<1> QED BY <1>1, DistributionAssumption DEF Wanted

LEMMA AlignedIs ==
  ASSUME NEW d \in Disks, NEW v \in 1 .. Latest, NEW f \in Files
  PROVE  Aligned(d, f, v) \in Contents
<1>1. d[f] \in Contents
  BY DiskIs
<1>2. d[f] # None => d[f].text \in 0 .. 2
  BY <1>1 DEF Contents
<1>3. \A t \in 0 .. 2 : Text(v, t) \in Contents
  BY DEF Text, Contents
<1>4. Text(v, 0) \in Contents /\ None \in Contents
  BY <1>3 DEF Contents
<1> QED BY <1>2, <1>3, <1>4 DEF Aligned

LEMMA Planning ==
  ASSUME NEW d \in Disks, NEW v \in 1 .. Latest, NEW hints \in BOOLEAN, ~Blocked(d, v, hints),
         NEW f \in DOMAIN Changes(d, v, hints)
  PROVE  /\ f \in Paths
         /\ Holds(f, Changes(d, v, hints)[f].content)
         /\ f # Ledger => Harmless(f, Changes(d, v, hints)[f], Signature(d, v, hints)[2])
<1> DEFINE change  == Changes(d, v, hints)[f]
           content == IF f = Ledger THEN NewLedger(d, v, hints) ELSE Aligned(d, f, v)
           plan    == Signature(d, v, hints)[2]
<1>1. Readable(d, hints) /\ Conflicts(d, v, hints) = {}
  BY DEF Blocked
<1>2. Owned(d) \subseteq Files /\ Wanted(v, hints) \subseteq Files /\ Anchor \in Wanted(v, hints)
  BY <1>1, OwnedAre, PackagesAre DEF Readable
<1>3. /\ (f \in Looked(d, v, hints) /\ d[f] # Aligned(d, f, v)) \/ f = Ledger
      /\ change.before = d[f] /\ change.content = content
  BY DEF Changes, Change
<1>4. Looked(d, v, hints) \subseteq Files
  BY <1>2 DEF Looked
<1>5. f \in Paths
  BY <1>3, <1>4 DEF Paths
<1>6. Holds(f, content)
  <2>1. CASE f = Ledger
    <3>1. Wanted(v, hints) \union (Owned(d) \intersect {Hint}) \in SUBSET Files
      BY <1>2
    <3> QED BY <2>1, <3>1 DEF NewLedger, Holds, Ledgers
  <2>2. CASE f # Ledger
    BY <2>2, <1>3, <1>4, AlignedIs DEF Holds
  <2> QED BY <2>1, <2>2
<1>7. ASSUME f # Ledger
      PROVE  Harmless(f, change, plan)
  <2>1. f \in Looked(d, v, hints) /\ f \in Files /\ d[f] # Aligned(d, f, v) /\ change.content = Aligned(d, f, v)
    BY <1>3, <1>4, <1>7
  <2>2. CASE f = Hint
    BY <2>1, <2>2, <1>3 DEF Harmless, Aligned, Text
  <2>3. CASE f # Hint /\ d[f] # None
    <3>1. f \in Owned(d) \/ Named(d)
      <4>1. f \in Owned(d) \/ f \in Wanted(v, hints) \ Owned(d)
        BY <2>1 DEF Looked
      <4>2. Managed(d, f)
        BY <2>3 DEF Managed
      <4>3. f \in Wanted(v, hints) \ Owned(d) => Legacy(d, f)
        BY <1>1, <2>1, <4>2 DEF Conflicts
      <4> QED BY <4>1, <4>3, <2>3 DEF Legacy
    <3>2. plan = [g \in Looked(d, v, hints) \union {Ledger} |-> d[g]]
      BY DEF Signature
    <3>3. plan[Ledger] = d[Ledger] /\ plan[Anchor] = d[Anchor]
      BY <3>2, <1>2 DEF Looked
    <3> QED BY <3>1, <3>3, <2>3 DEF Harmless, Owned, Named
  <2>4. CASE f # Hint /\ d[f] = None
    BY <2>4, <1>3 DEF Harmless
  <2> QED BY <2>2, <2>3, <2>4
<1> QED BY <1>3, <1>5, <1>6, <1>7

----------------------------------------------------------------------------
(* align.                                                                  *)
LEMMA HintsAre == \A a \in Actors : Hints(a) \in BOOLEAN
BY DEF Hints

LEMMA PlanStep ==
  ASSUME IInv, NEW a \in Actors, Plan(a)
  PROVE  Step(a)
<1> DEFINE hints   == Hints(a)
           changes == Changes(disk, installed, hints)
<1>1. /\ Types /\ Shapes /\ JobInv(a) /\ At(a, "plan")
      /\ UNCHANGED <<disk, lock, held, installed, record, marker, mine, faults>>
  BY DEF IInv, Plan, Locks, Package, Others
<1>2. Types' /\ RecordsKept /\ LocksKept(a)
  BY <1>1 DEF Types, RecordsKept, LocksKept
<1>3. CASE End(a, FALSE)
  <2>1. Only(a) /\ job'[a].at = "aligned" /\ job'[a].version = job[a].version
    BY <1>1, <1>3, Ending
  <2>2. JobInv(a)'
    BY <1>1, <1>2, <2>1, Resting DEF At, JobInv, RecordInv, Busy, Inside, Starting, Away
  <2> QED BY <1>1, <1>2, <2>1, <2>2 DEF Step, At
<1>4. CASE ~Blocked(disk, installed, hints)
  <2> DEFINE r == [job[a] EXCEPT
                     !.at = IF DOMAIN changes = {} THEN "aligned" ELSE "lock", !.todo = changes, !.ok = TRUE,
                     !.sign = IF DOMAIN changes = {} THEN None ELSE Signature(disk, installed, hints),
                     !.touched = DOMAIN changes # {}]
  <2>1. job' = [job EXCEPT ![a] = r]
    BY <1>4 DEF Plan
  <2>2. DOMAIN r = JobFields /\ r.version = job[a].version /\ r.todo = changes
    BY <1>1 DEF Shapes, JobFields
  <2>3. r.at = IF DOMAIN changes = {} THEN "aligned" ELSE "lock"
    BY <1>1 DEF Shapes, JobFields
  <2>4. r.at = "lock" => r.sign = Signature(disk, installed, hints)
    <3>1. DOMAIN changes # {} => r.sign = Signature(disk, installed, hints)
      BY <1>1 DEF Shapes, JobFields
    <3> QED BY <3>1, <2>3
  <2> HIDE DEF r
  <2>5. Only(a) /\ job'[a] = r
    BY <1>1, <2>1, <2>2, Moves
  <2>6. CASE r.at = "aligned"
    <3>1. JobInv(a)'
      BY <1>1, <1>2, <2>2, <2>5, <2>6, Resting DEF At, JobInv, RecordInv, Busy, Inside, Starting, Away
    <3> QED BY <1>1, <1>2, <2>5, <2>6, <3>1 DEF Step, At
  <2>7. CASE r.at = "lock"
    <3>1. disk \in Disks /\ installed \in 1 .. Latest /\ hints \in BOOLEAN
      BY <1>1, HintsAre DEF Types
    <3>2. \A f \in DOMAIN changes :
            /\ f \in Paths /\ Holds(f, changes[f].content)
            /\ f # Ledger => Harmless(f, changes[f], Signature(disk, installed, hints)[2])
      BY <3>1, <1>4, Planning
    <3>3. PlanInv(a)'
      BY <3>2, <2>2, <2>4, <2>5, <2>7 DEF PlanInv, Targets
    <3>4. LockInv(a)' /\ RecordInv(a)'
      BY <1>1, <1>2, <2>2, <2>5, <2>7, ActorsAre
      DEF LockInv, RecordInv, JobInv, RecordsKept, At, Inside, Starting, Away
    <3> QED BY <1>1, <1>2, <2>5, <2>7, <3>3, <3>4 DEF Step, JobInv, At
  <2> QED BY <2>3, <2>6, <2>7
<1> QED BY <1>3, <1>4 DEF Plan

LEMMA LockStep ==
  ASSUME IInv, NEW a \in Actors, Lock(a)
  PROVE  Step(a)
<1>1. /\ Types /\ Shapes /\ JobInv(a) /\ At(a, "lock")
      /\ UNCHANGED <<disk, installed, record, marker, mine, faults>>
  BY DEF IInv, Lock, Package, Others
<1>2. CASE lock = None /\ held \intersect Targets(a) = {}
  <2> DEFINE r == [job[a] EXCEPT !.at = "again", !.locks = Targets(a)]
  <2>1. lock' = a /\ held' = held \union Targets(a) /\ job' = [job EXCEPT ![a] = r]
    BY <1>2 DEF Lock
  <2>2. /\ DOMAIN r = JobFields /\ r.at = "again" /\ r.locks = Targets(a)
        /\ r.version = job[a].version /\ r.todo = job[a].todo /\ r.sign = job[a].sign
    BY <1>1 DEF Shapes, JobFields
  <2> HIDE DEF r
  <2>3. Only(a) /\ job'[a] = r
    BY <1>1, <2>1, <2>2, Moves
  <2>4. PlanInv(a) /\ Targets(a) \subseteq Paths
    BY <1>1 DEF JobInv, PlanInv, At, Busy
  <2>5. PlanInv(a)'
    BY <1>1, <2>2, <2>3, <2>4 DEF PlanInv, Targets, At, Busy
  <2>6. Types' /\ RecordsKept /\ LocksKept(a)
    BY <1>1, <1>2, <2>1, <2>4 DEF Types, RecordsKept, LocksKept
  <2>7. LockInv(a)' /\ RecordInv(a)'
    BY <1>1, <2>1, <2>2, <2>3 DEF LockInv, RecordInv, JobInv, Targets, At, Inside, Starting, Away
  <2> QED BY <1>1, <2>2, <2>3, <2>5, <2>6, <2>7 DEF Step, JobInv, At
<1>3. CASE End(a, FALSE) /\ UNCHANGED Locks
  <2>1. Only(a) /\ job'[a].at = "aligned" /\ job'[a].version = job[a].version
    BY <1>1, <1>3, Ending
  <2>2. Types' /\ RecordsKept /\ LocksKept(a)
    BY <1>1, <1>3 DEF Types, RecordsKept, LocksKept, Locks
  <2>3. JobInv(a)'
    BY <1>1, <2>1, <2>2, Resting DEF At, JobInv, RecordInv, Busy, Inside, Starting, Away
  <2> QED BY <1>1, <2>1, <2>2, <2>3 DEF Step, At
<1> QED BY <1>2, <1>3 DEF Lock

(* align ends inside the locks.                                            *)
LEMMA Leaving ==
  ASSUME IInv, NEW a \in Actors, NEW ok, job[a].at \in Inside, End(a, ok), Unlock(a),
         UNCHANGED <<disk, Package, Others>>
  PROVE  Step(a)
<1>1. Types /\ Shapes /\ JobInv(a) /\ lock = a
  BY DEF IInv, JobInv, LockInv
<1>2. Only(a) /\ job'[a].at = "aligned" /\ job'[a].version = job[a].version
  BY <1>1, Ending
<1>3. Types' /\ RecordsKept /\ LocksKept(a)
  BY <1>1 DEF Types, RecordsKept, LocksKept, Unlock, Package
<1>4. JobInv(a)'
  BY <1>1, <1>2, <1>3, Resting DEF JobInv, RecordInv, Busy, Inside, Starting, Away
<1> QED BY <1>2, <1>3, <1>4 DEF Step, At

(* align goes on inside the locks.                                         *)
LEMMA Continuing ==
  ASSUME IInv, NEW a \in Actors, NEW r, DOMAIN r = JobFields, job[a].at \in Inside, job' = [job EXCEPT ![a] = r],
         r.at \in Inside, r.sign = job[a].sign, r.locks = job[a].locks, r.version = job[a].version,
         DOMAIN r.todo \subseteq Targets(a), \A f \in DOMAIN r.todo : r.todo[f] = job[a].todo[f],
         r.at = "write" => r.now \in DOMAIN r.todo,
         disk' \in Disks, UNCHANGED <<Locks, Package>>, At(a, "write") => Write(a)
  PROVE  Step(a)
<1>1. Types /\ Shapes /\ JobInv(a) /\ Only(a) /\ job'[a] = r
  BY Moves DEF IInv
<1>2. Types' /\ RecordsKept /\ LocksKept(a)
  BY <1>1 DEF Types, RecordsKept, LocksKept, Locks, Package
<1>3. PlanInv(a)'
  BY <1>1 DEF JobInv, PlanInv, Targets, Busy
<1>4. LockInv(a)'
  BY <1>1 DEF JobInv, LockInv, Targets, Locks
<1>5. RecordInv(a)'
  BY <1>1 DEF JobInv, RecordInv, Inside, Away, Package
<1> QED BY <1>1, <1>2, <1>3, <1>4, <1>5 DEF Step, JobInv, At

LEMMA Storing ==
  ASSUME NEW f \in Paths, NEW content, disk \in Disks, Holds(f, content)
  PROVE  [disk EXCEPT ![f] = content] \in Disks
<1>1. content \in Contents \union Ledgers
  BY DEF Holds
<1> QED BY <1>1 DEF Disks

LEMMA AgainStep ==
  ASSUME IInv, NEW a \in Actors, PlanAgain(a)
  PROVE  Step(a)
<1>1. /\ Types /\ Shapes /\ job[a].at = "again" /\ UNCHANGED <<disk, Package, Others>>
  BY DEF IInv, PlanAgain, At
<1>2. CASE Goto(a, "compare") /\ UNCHANGED Locks
  <2> DEFINE r == [job[a] EXCEPT !.at = "compare"]
  <2>1. job' = [job EXCEPT ![a] = r]
    BY <1>1, <1>2 DEF Goto, Shapes
  <2>2. /\ DOMAIN r = JobFields /\ r.at = "compare" /\ r.sign = job[a].sign /\ r.locks = job[a].locks
        /\ r.version = job[a].version /\ r.todo = job[a].todo
    BY <1>1 DEF Shapes, JobFields
  <2> HIDE DEF r
  <2> QED BY <1>1, <1>2, <2>1, <2>2, Continuing DEF Targets, Inside, Types, At, Locks, Package
<1>3. CASE End(a, FALSE) /\ Unlock(a)
  <2>1. job[a].at \in Inside
    BY <1>1 DEF Inside
  <2> QED BY <1>1, <1>3, <2>1, Leaving
<1> QED BY <1>2, <1>3 DEF PlanAgain

LEMMA CompareStep ==
  ASSUME IInv, NEW a \in Actors, Compare(a)
  PROVE  Step(a)
<1>1. /\ Types /\ Shapes /\ job[a].at = "compare" /\ UNCHANGED <<disk, Package, Others>>
  BY DEF IInv, Compare, At
<1>2. ASSUME NEW f \in Targets(a), job' = [job EXCEPT ![a] = [@ EXCEPT !.at = "write", !.now = f]], UNCHANGED Locks
      PROVE  Step(a)
  <2> DEFINE r == [job[a] EXCEPT !.at = "write", !.now = f]
  <2>1. job' = [job EXCEPT ![a] = r]
    BY <1>2
  <2>2. /\ DOMAIN r = JobFields /\ r.at = "write" /\ r.sign = job[a].sign /\ r.locks = job[a].locks
        /\ r.version = job[a].version /\ r.todo = job[a].todo /\ r.now = f
    BY <1>1 DEF Shapes, JobFields
  <2> HIDE DEF r
  <2> QED BY <1>1, <1>2, <2>1, <2>2, Continuing DEF Targets, Inside, Types, At, Locks, Package
<1>3. CASE End(a, FALSE) /\ Unlock(a)
  <2>1. job[a].at \in Inside
    BY <1>1 DEF Inside
  <2> QED BY <1>1, <1>3, <2>1, Leaving
<1> QED BY <1>2, <1>3 DEF Compare

LEMMA WriteStep ==
  ASSUME IInv, NEW a \in Actors, Write(a)
  PROVE  Step(a)
<1> DEFINE f    == job[a].now
           rest == [g \in Targets(a) \ {f} |-> job[a].todo[g]]
           r    == [job[a] EXCEPT !.at = "compare", !.now = None, !.todo = rest]
<1>1. /\ Types /\ Shapes /\ JobInv(a) /\ job[a].at = "write" /\ UNCHANGED <<Locks, Package>>
      /\ disk' = [disk EXCEPT ![f] = job[a].todo[f].content] /\ job' = [job EXCEPT ![a] = r]
  BY DEF IInv, Write, At
<1>2. f \in Paths /\ Holds(f, job[a].todo[f].content)
  BY <1>1 DEF JobInv, PlanInv, Busy, Inside
<1>3. disk' \in Disks
  BY <1>1, <1>2, Storing DEF Types
<1>4. /\ DOMAIN r = JobFields /\ r.at = "compare" /\ r.sign = job[a].sign /\ r.locks = job[a].locks
      /\ r.version = job[a].version /\ r.todo = rest
  BY <1>1 DEF Shapes, JobFields
<1>5. DOMAIN rest \subseteq Targets(a) /\ \A g \in DOMAIN rest : rest[g] = job[a].todo[g]
  OBVIOUS
<1> HIDE DEF r, rest
<1> QED BY <1>1, <1>3, <1>4, <1>5, Continuing DEF Inside

LEMMA AlignSteps ==
  ASSUME IInv, NEW a \in Actors, AlignStep(a)
  PROVE  Step(a)
<1>1. CASE Plan(a)
  BY <1>1, PlanStep
<1>2. CASE Lock(a)
  BY <1>2, LockStep
<1>3. CASE PlanAgain(a)
  BY <1>3, AgainStep
<1>4. CASE Compare(a)
  BY <1>4, CompareStep
<1>5. CASE Write(a)
  BY <1>5, WriteStep
<1>6. CASE WriteFails(a)
  <2>1. job[a].at \in Inside /\ End(a, FALSE) /\ Unlock(a) /\ UNCHANGED <<disk, Package, Others>>
    BY <1>6 DEF WriteFails, At, Inside
  <2> QED BY <2>1, Leaving
<1>7. CASE Written(a)
  <2>1. job[a].at \in Inside /\ End(a, TRUE) /\ Unlock(a) /\ UNCHANGED <<disk, Package, Others>>
    BY <1>7 DEF Written, At, Inside
  <2> QED BY <2>1, Leaving
<1> QED BY <1>1, <1>2, <1>3, <1>4, <1>5, <1>6, <1>7 DEF AlignStep

----------------------------------------------------------------------------
(* The command and its runner outside align: the disk is left alone.       *)
LEMMA Gone ==
  ASSUME IInv, NEW a \in Actors, Types', RecordsKept, LocksKept(a),
         Quit(a, "gone") \/ Quit(a, "dead") \/ (a[2] = "run" /\ Quit(a, "over")),
         a[2] = "run" => job[a].at # "idle"
  PROVE  Step(a)
<1>1. /\ Only(a) /\ job'[a].at \in {"gone", "over", "dead"}
      /\ a[2] = "cli" => job'[a].at \in Away
  BY Quitting DEF IInv, Away
<1>2. JobInv(a)'
  BY <1>1, Resting DEF Busy, Inside, Starting
<1> QED BY <1>1, <1>2 DEF Step, At

LEMMA Advancing ==
  ASSUME IInv, NEW a \in Actors, NEW r, DOMAIN r = JobFields, job' = [job EXCEPT ![a] = r],
         r.at \notin Busy, Types', RecordsKept, LocksKept(a),
         r.at \in Starting => lock' = a,
         r.at \in {"marker", "spawn"} => record'[a[1]] # None,
         a[2] = "run" => job[a].at # "idle",
         a[2] = "cli" => r.version \in 1 .. Latest
  PROVE  Step(a)
<1>1. Only(a) /\ job'[a] = r /\ RecordInv(a) /\ a[1] \in Procs
  BY Moves, ActorsAre DEF IInv, JobInv
<1>2. PlanInv(a)' /\ LockInv(a)'
  BY <1>1 DEF PlanInv, LockInv, Busy, Inside
<1>3. RecordInv(a)'
  BY <1>1 DEF RecordInv, RecordsKept
<1> QED BY <1>1, <1>2, <1>3 DEF Step, JobInv, At, Busy, Inside

(* Nothing but the job of one actor changes.                               *)
LEMMA Staying ==
  ASSUME IInv, NEW a \in Actors, UNCHANGED <<disk, Locks, Package>>
  PROVE  Types' /\ RecordsKept /\ LocksKept(a)
BY DEF IInv, Types, RecordsKept, LocksKept, Locks, Package

LEMMA Recording ==
  ASSUME IInv, NEW p \in Procs, NEW result \in Results, record' = [record EXCEPT ![p] = result]
  PROVE  record' \in [Procs -> Results \union {None}] /\ RecordsKept /\ record'[p] # None
BY DistributionAssumption DEF IInv, Types, RecordsKept

LEMMA ResultsAre ==
  ASSUME NEW result \in Results
  PROVE  /\ Failure(result) \in Results
         /\ [result EXCEPT !.state = "waiting"] \in Results
         /\ [result EXCEPT !.state = "running", !.package = "running"] \in Results
         /\ [result EXCEPT !.package = "completed", !.resource = "running"] \in Results
         /\ [result EXCEPT !.state = "completed", !.resource = "completed"] \in Results
         /\ [result EXCEPT !.state = "failed", !.package = "failed"] \in Results
BY DEF Results, Phases, Failure

LEMMA LatestIs == Latest \in 1 .. Latest
BY DistributionAssumption DEF Latest

LEMMA StartStep ==
  ASSUME IInv, NEW p \in Procs, Start(p)
  PROVE  Step(Cli(p))
<1> DEFINE a == Cli(p)
<1>1. /\ a \in Actors /\ a[2] = "cli" /\ Shapes /\ Types /\ UNCHANGED <<disk, Locks, Package>>
      /\ Types' /\ RecordsKept /\ LocksKept(a)
  BY ActorsAre, Staying DEF IInv, Start
<1>2. CASE Quit(a, "gone")
  BY <1>1, <1>2, Gone
<1>3. ASSUME NEW cmd, NEW there \in {"plan", "record", "start"}, NEW ok, Begin(p, cmd, there, ok)
      PROVE  Step(a)
  <2> DEFINE r == [job[a] EXCEPT !.at = there, !.cmd = cmd, !.version = installed, !.ok = ok]
  <2>1. job' = [job EXCEPT ![a] = r]
    BY <1>3 DEF Begin
  <2>2. DOMAIN r = JobFields /\ r.at = there /\ r.version \in 1 .. Latest
    BY <1>1 DEF Shapes, JobFields, Types
  <2> HIDE DEF r
  <2> QED BY <1>1, <1>3, <2>1, <2>2, Advancing DEF Busy, Inside, Starting
<1>4. \/ Quit(a, "gone")
      \/ \E cmd \in Commands, there \in {"plan", "record", "start"} :
           Begin(p, cmd, there, TRUE) \/ Begin(p, cmd, there, FALSE)
  <2>1. PICK cmd \in Commands :
          CASE cmd = "setup" -> IF Blocked(disk, installed, TRUE) THEN Quit(a, "gone") ELSE Begin(p, cmd, "plan", TRUE)
            [] cmd \in {"sync", "align"} -> Begin(p, cmd, "plan", TRUE)
            [] cmd = "upgrade" ->
                 \E can \in BOOLEAN :
                   IF ~can \/ installed = Latest THEN Begin(p, cmd, "plan", TRUE)
                   ELSE IF Blocked(disk, installed, TRUE) THEN Begin(p, cmd, "record", FALSE)
                   ELSE Begin(p, cmd, "start", TRUE)
    BY DEF Start
  <2>2. CASE cmd = "setup"
    BY <2>1, <2>2
  <2>3. CASE cmd \in {"sync", "align"}
    BY <2>1, <2>3
  <2>4. CASE cmd = "upgrade"
    BY <2>1, <2>4
  <2> QED BY <2>2, <2>3, <2>4, DistributionAssumption
<1> QED BY <1>2, <1>3, <1>4

LEMMA SummariseStep ==
  ASSUME IInv, NEW p \in Procs, Summarise(p)
  PROVE  Step(Cli(p))
<1> DEFINE a == Cli(p)
<1>1. /\ a \in Actors /\ a[2] = "cli" /\ Shapes /\ JobInv(a) /\ job[a].at = "aligned"
      /\ Types' /\ RecordsKept /\ LocksKept(a)
  BY ActorsAre, Staying DEF IInv, Summarise, At
<1>2. CASE Quit(a, "gone")
  BY <1>1, <1>2, Gone
<1>3. ASSUME NEW ok, Conclude(p, ok)
      PROVE  Step(a)
  <2> DEFINE r == [job[a] EXCEPT !.at = "record", !.ok = ok]
  <2>1. job' = [job EXCEPT ![a] = r]
    BY <1>3 DEF Conclude
  <2>2. DOMAIN r = JobFields /\ r.at = "record" /\ r.version = job[a].version
    BY <1>1 DEF Shapes, JobFields
  <2> HIDE DEF r
  <2>3. r.version \in 1 .. Latest
    BY <1>1, <2>2 DEF JobInv, RecordInv, Away
  <2> QED BY <1>1, <2>1, <2>2, <2>3, Advancing DEF Busy, Inside, Starting
<1> QED BY <1>2, <1>3 DEF Summarise

LEMMA RecordStep ==
  ASSUME IInv, NEW p \in Procs, Record(p)
  PROVE  Step(Cli(p))
<1> DEFINE a      == Cli(p)
           result == Result(Outcome(job[a].ok), "skipped", Outcome(job[a].ok), job[a].version)
<1>1. /\ a \in Actors /\ a[2] = "cli" /\ Types /\ JobInv(a) /\ job[a].at = "record" /\ Quit(a, "gone")
      /\ UNCHANGED <<disk, Locks, installed, marker, Others>>
  BY ActorsAre DEF IInv, Record, At
<1>2. result \in Results
  <2>1. job[a].version \in 1 .. Latest
    BY <1>1 DEF JobInv, RecordInv, Away
  <2>2. Outcome(job[a].ok) \in {"completed", "failed"}
    BY DEF Outcome
  <2> QED BY <2>1, <2>2 DEF Result, Results, Phases
<1> HIDE DEF result
<1>3. record' \in [Procs -> Results \union {None}] /\ RecordsKept
  <2>1. record' = record \/ record' = [record EXCEPT ![p] = result]
    BY DEF Record, result
  <2>2. CASE record' = record
    BY <1>1, <2>2 DEF Types, RecordsKept
  <2> QED BY <2>1, <2>2, <1>2, Recording
<1>4. Types' /\ LocksKept(a)
  BY <1>1, <1>3 DEF Types, LocksKept, Locks
<1> QED BY <1>1, <1>3, <1>4, Gone

LEMMA UpgradeStep ==
  ASSUME IInv, NEW p \in Procs, StartUpgrade(p)
  PROVE  Step(Cli(p))
<1> DEFINE a == Cli(p)
           r == [job[a] EXCEPT !.at = "job"]
<1>1. /\ a \in Actors /\ a[2] = "cli" /\ Types /\ Shapes /\ JobInv(a) /\ job[a].at = "start"
      /\ UNCHANGED <<disk, held, Package, Others>>
  BY ActorsAre DEF IInv, StartUpgrade, At
<1>2. CASE lock = None /\ lock' = a /\ Goto(a, "job")
  <2>1. job' = [job EXCEPT ![a] = r]
    BY <1>1, <1>2 DEF Goto, Shapes
  <2>2. DOMAIN r = JobFields /\ r.at = "job" /\ r.version = job[a].version
    BY <1>1 DEF Shapes, JobFields
  <2> HIDE DEF r
  <2>3. r.version \in 1 .. Latest
    BY <1>1, <2>2 DEF JobInv, RecordInv, Away
  <2>4. Types' /\ RecordsKept /\ LocksKept(a)
    BY <1>1, <1>2 DEF Types, RecordsKept, LocksKept, Package
  <2> QED BY <1>1, <1>2, <2>1, <2>2, <2>3, <2>4, Advancing DEF Busy, Inside
<1>3. CASE UNCHANGED lock /\ Quit(a, "gone")
  <2>1. Types' /\ RecordsKept /\ LocksKept(a)
    BY <1>1, <1>3 DEF Types, RecordsKept, LocksKept, Package
  <2> QED BY <1>1, <1>3, <2>1, Gone
<1> QED BY <1>2, <1>3 DEF StartUpgrade

LEMMA JobStep ==
  ASSUME IInv, NEW p \in Procs, SaveJob(p)
  PROVE  Step(Cli(p))
<1> DEFINE a == Cli(p)
           r == [job[a] EXCEPT !.at = "marker"]
           result == Result("scheduled", "pending", "pending", Latest)
<1>1. /\ a \in Actors /\ a[1] = p /\ a[2] = "cli" /\ Types /\ Shapes /\ JobInv(a) /\ job[a].at = "job"
      /\ Goto(a, "marker") /\ record' = [record EXCEPT ![p] = result]
      /\ UNCHANGED <<disk, Locks, installed, marker, Others>>
  BY ActorsAre DEF IInv, SaveJob, At
<1>2. result \in Results
  BY LatestIs DEF Result, Results, Phases
<1> HIDE DEF result
<1>3. record' \in [Procs -> Results \union {None}] /\ RecordsKept /\ record'[p] # None
  BY <1>1, <1>2, Recording
<1>4. job' = [job EXCEPT ![a] = r]
  BY <1>1 DEF Goto, Shapes
<1>5. DOMAIN r = JobFields /\ r.at = "marker" /\ r.version = job[a].version
  BY <1>1 DEF Shapes, JobFields
<1> HIDE DEF r
<1>6. r.version \in 1 .. Latest /\ lock' = a
  BY <1>1, <1>5 DEF JobInv, RecordInv, LockInv, Away, Starting, Locks
<1>7. Types' /\ LocksKept(a)
  BY <1>1, <1>3 DEF Types, LocksKept, Locks
<1> QED BY <1>1, <1>3, <1>4, <1>5, <1>6, <1>7, Advancing DEF Busy, Inside

LEMMA MarkerStep ==
  ASSUME IInv, NEW p \in Procs, SaveMarker(p)
  PROVE  Step(Cli(p))
<1> DEFINE a == Cli(p)
           r == [job[a] EXCEPT !.at = "spawn"]
<1>1. /\ a \in Actors /\ a[1] = p /\ a[2] = "cli" /\ Types /\ Shapes /\ JobInv(a) /\ job[a].at = "marker"
      /\ Goto(a, "spawn") /\ marker' = p /\ UNCHANGED <<disk, Locks, installed, record, Others>>
  BY ActorsAre DEF IInv, SaveMarker, At
<1>2. job' = [job EXCEPT ![a] = r]
  BY <1>1 DEF Goto, Shapes
<1>3. DOMAIN r = JobFields /\ r.at = "spawn" /\ r.version = job[a].version
  BY <1>1 DEF Shapes, JobFields
<1> HIDE DEF r
<1>4. r.version \in 1 .. Latest /\ lock' = a /\ record'[p] # None
  BY <1>1, <1>3 DEF JobInv, RecordInv, LockInv, Away, Starting, Locks
<1>5. Types' /\ RecordsKept /\ LocksKept(a)
  BY <1>1 DEF Types, RecordsKept, LocksKept, Locks
<1> QED BY <1>1, <1>2, <1>3, <1>4, <1>5, Advancing DEF Busy, Inside

(* The runner starts while the command holds the lock.                     *)
Preserved == IInv' /\ \A b \in Actors : At(b, "write") /\ At(b, "compare")' => Write(b)

LEMMA SpawnStep ==
  ASSUME IInv, NEW p \in Procs, Spawn(p)
  PROVE  Preserved
<1> DEFINE a == Cli(p)
           c == Run(p)
<1>1. /\ a \in Actors /\ a[1] = p /\ a[2] = "cli" /\ c \in Actors /\ c[1] = p /\ c[2] = "run" /\ a # c
      /\ Types /\ Shapes /\ JobInv(a) /\ JobInv(c) /\ job[a].at = "spawn"
      /\ lock' = None /\ UNCHANGED <<disk, held, installed, marker, Others>>
  BY ActorsAre DEF IInv, Spawn, At
<1>2. lock = a /\ record[p] # None /\ record[p] \in Results /\ job[a].version \in 1 .. Latest
  BY <1>1 DEF JobInv, LockInv, RecordInv, Starting, Away, Types
<1>3. CASE job' = [job EXCEPT ![a].at = "leave", ![c].at = "begin"] /\ UNCHANGED record
  <2>1. /\ job'[a].at = "leave" /\ job'[a].version = job[a].version /\ job'[c].at = "begin"
        /\ Shapes' /\ \A b \in Actors \ {a, c} : job'[b] = job[b]
    BY <1>1, <1>3 DEF Shapes, JobFields
  <2>2. Types'
    BY <1>1, <1>3 DEF Types
  <2>3. ASSUME NEW b \in Actors \ {a, c}
        PROVE  JobInv(b)' /\ ~(At(b, "write") /\ At(b, "compare")')
    <3>1. JobInv(b) /\ job'[b] = job[b]
      BY <2>1 DEF IInv
    <3>2. job[b].at \notin Inside \union Starting
      BY <3>1, <1>2 DEF JobInv, LockInv
    <3>3. PlanInv(b)' /\ LockInv(b)'
      BY <3>1, <3>2 DEF JobInv, PlanInv, LockInv, Targets
    <3>4. RecordInv(b)'
      BY <3>1, <1>3 DEF JobInv, RecordInv
    <3> QED BY <3>1, <3>2, <3>3, <3>4 DEF JobInv, At, Inside
  <2>4. JobInv(a)' /\ ~At(a, "compare")'
    BY <1>1, <1>2, <2>1 DEF JobInv, PlanInv, LockInv, RecordInv, Busy, Inside, Starting, Away, At
  <2>5. JobInv(c)' /\ ~At(c, "compare")'
    BY <1>1, <1>2, <1>3, <2>1 DEF JobInv, PlanInv, LockInv, RecordInv, Busy, Inside, Starting, At
  <2> QED BY <2>1, <2>2, <2>3, <2>4, <2>5 DEF Preserved, IInv
<1>4. CASE Quit(a, "gone") /\ record' = [record EXCEPT ![p] = [@ EXCEPT !.state = "failed", !.package = "failed"]]
  <2> DEFINE result == [record[p] EXCEPT !.state = "failed", !.package = "failed"]
  <2>1. result \in Results
    BY <1>2, ResultsAre
  <2>2. record' = [record EXCEPT ![p] = result]
    BY <1>1, <1>4 DEF Types
  <2> HIDE DEF result
  <2>3. Types' /\ RecordsKept /\ LocksKept(a)
    BY <1>1, <1>2, <2>1, <2>2, Recording DEF Types, LocksKept
  <2>4. Step(a)
    BY <1>1, <1>4, <2>3, Gone
  <2> QED BY <1>1, <2>4, Stepping DEF Preserved
<1> QED BY <1>3, <1>4 DEF Spawn

LEMMA LeaveStep ==
  ASSUME IInv, NEW p \in Procs, Leave(p)
  PROVE  Step(Cli(p))
<1>1. Cli(p) \in Actors /\ Cli(p)[2] = "cli" /\ Quit(Cli(p), "gone") /\ UNCHANGED <<disk, Locks, Package>>
  BY ActorsAre DEF Leave
<1> QED BY <1>1, Staying, Gone

----------------------------------------------------------------------------
(* The runner.                                                             *)
LEMMA RunnerHas ==
  ASSUME IInv, NEW p \in Procs, job[Run(p)].at # "idle"
  PROVE  record[p] \in Results /\ Failure(record[p]) \in Results
<1>1. Types /\ RecordInv(Run(p)) /\ Run(p)[1] = p /\ Run(p)[2] = "run"
  BY ActorsAre DEF IInv, JobInv
<1>2. record[p] \in Results
  BY <1>1 DEF Types, RecordInv
<1> QED BY <1>2, ResultsAre

LEMMA Failed ==
  ASSUME IInv, NEW p \in Procs, job[Run(p)].at # "idle", Fail(p), UNCHANGED <<disk, held, marker>>,
         lock' = lock \/ (lock = Run(p) /\ lock' = None), installed' \in {installed, Latest}
  PROVE  Step(Run(p))
<1> DEFINE a == Run(p)
<1>1. a \in Actors /\ a[2] = "run" /\ Types /\ Quit(a, "over")
  BY ActorsAre DEF IInv, Fail
<1>2. record' \in [Procs -> Results \union {None}] /\ RecordsKept
  BY RunnerHas, Recording DEF Fail, Save
<1>3. Types' /\ LocksKept(a)
  BY <1>1, <1>2, LatestIs DEF Types, LocksKept
<1> QED BY <1>1, <1>2, <1>3, Gone

LEMMA Running ==
  ASSUME IInv, NEW p \in Procs, NEW r, DOMAIN r = JobFields, job' = [job EXCEPT ![Run(p)] = r],
         job[Run(p)].at # "idle", r.at \notin Busy \union Starting,
         UNCHANGED <<disk, Locks, marker>>, installed' \in {installed, Latest},
         record' = record \/ \E result \in Results : record' = [record EXCEPT ![p] = result]
  PROVE  Step(Run(p))
<1> DEFINE a == Run(p)
<1>1. a \in Actors /\ a[2] = "run" /\ Types
  BY ActorsAre DEF IInv
<1>2. record' \in [Procs -> Results \union {None}] /\ RecordsKept
  <2>1. CASE record' = record
    BY <1>1, <2>1 DEF Types, RecordsKept
  <2> QED BY <2>1, Recording
<1>3. Types' /\ LocksKept(a)
  BY <1>1, <1>2, LatestIs DEF Types, LocksKept, Locks
<1> QED BY <1>1, <1>2, <1>3, Advancing DEF Starting

LEMMA RunnerGoing ==
  ASSUME IInv, NEW p \in Procs, NEW there \in {"wait", "install", "verify"}, Goto(Run(p), there),
         job[Run(p)].at # "idle",
         UNCHANGED <<disk, Locks, marker>>, installed' \in {installed, Latest},
         record' = record \/ \E result \in Results : record' = [record EXCEPT ![p] = result]
  PROVE  Step(Run(p))
<1> DEFINE r == [job[Run(p)] EXCEPT !.at = there]
<1>1. job' = [job EXCEPT ![Run(p)] = r] /\ DOMAIN r = JobFields /\ r.at = there
  BY ActorsAre DEF Goto, IInv, Shapes, JobFields
<1> HIDE DEF r
<1>2. r.at \notin Busy \union Starting
  BY <1>1 DEF Busy, Inside, Starting
<1> QED BY <1>1, <1>2, Running

LEMMA AnnounceStep ==
  ASSUME IInv, NEW p \in Procs, Announce(p)
  PROVE  Step(Run(p))
<1>1. job[Run(p)].at # "idle" /\ Goto(Run(p), "wait") /\ UNCHANGED <<disk, Locks, marker, installed>>
  BY DEF Announce, At
<1>2. \E result \in Results : record' = [record EXCEPT ![p] = result]
  BY <1>1, RunnerHas, ResultsAre DEF Announce, Save
<1> QED BY <1>1, <1>2, RunnerGoing

LEMMA WaitStep ==
  ASSUME IInv, NEW p \in Procs, Wait(p)
  PROVE  Step(Run(p))
<1>1. job[Run(p)].at # "idle" /\ UNCHANGED <<disk, lock, held, marker, installed>>
  BY DEF Wait, At, Locks
<1>2. CASE Goto(Run(p), "install") /\ HostGone(p)
  <2>1. \E result \in Results : record' = [record EXCEPT ![p] = result]
    BY <1>1, <1>2, RunnerHas, ResultsAre DEF Wait, Save
  <2> QED BY <1>1, <1>2, <2>1, RunnerGoing DEF Locks
<1>3. CASE Fail(p)
  BY <1>1, <1>3, Failed
<1> QED BY <1>2, <1>3 DEF Wait

LEMMA InstallStep ==
  ASSUME IInv, NEW p \in Procs, Install(p)
  PROVE  Step(Run(p))
<1>1. /\ job[Run(p)].at # "idle" /\ UNCHANGED <<disk, lock, held, marker>>
      /\ installed' \in {installed, Latest}
  BY DEF Install, At, Locks
<1>2. CASE Goto(Run(p), "verify") /\ UNCHANGED record
  BY <1>1, <1>2, RunnerGoing DEF Locks
<1>3. CASE Fail(p)
  BY <1>1, <1>3, Failed
<1> QED BY <1>2, <1>3 DEF Install

(* Another alignment begins.                                               *)
LEMMA Rounds ==
  ASSUME IInv, NEW p \in Procs, NEW n, job' = [job EXCEPT ![Run(p)] = [@ EXCEPT !.at = "plan", !.round = n]],
         job[Run(p)].at # "idle", UNCHANGED <<disk, Locks, marker, installed>>,
         record' = record \/ \E result \in Results : record' = [record EXCEPT ![p] = result]
  PROVE  Step(Run(p))
<1> DEFINE r == [job[Run(p)] EXCEPT !.at = "plan", !.round = n]
<1>1. job' = [job EXCEPT ![Run(p)] = r] /\ DOMAIN r = JobFields /\ r.at = "plan"
  BY ActorsAre DEF IInv, Shapes, JobFields
<1> HIDE DEF r
<1>2. r.at \notin Busy \union Starting
  BY <1>1 DEF Busy, Inside, Starting
<1> QED BY <1>1, <1>2, Running

LEMMA VerifyStep ==
  ASSUME IInv, NEW p \in Procs, Verify(p)
  PROVE  Step(Run(p))
<1>1. job[Run(p)].at # "idle" /\ UNCHANGED <<disk, lock, held, marker, installed>>
  BY DEF Verify, At, Locks
<1>2. CASE /\ Save(p, [record[p] EXCEPT !.package = "completed", !.resource = "running"])
           /\ job' = [job EXCEPT ![Run(p)] = [@ EXCEPT !.at = "plan", !.round = 1]]
  <2>1. \E result \in Results : record' = [record EXCEPT ![p] = result]
    BY <1>1, <1>2, RunnerHas, ResultsAre DEF Save
  <2> QED BY <1>1, <1>2, <2>1, Rounds DEF Locks
<1>3. CASE Fail(p)
  BY <1>1, <1>3, Failed
<1> QED BY <1>2, <1>3 DEF Verify

LEMMA JudgeStep ==
  ASSUME IInv, NEW p \in Procs, Judge(p)
  PROVE  Step(Run(p))
<1>1. job[Run(p)].at # "idle" /\ UNCHANGED <<disk, lock, held, marker, installed>>
  BY DEF Judge, At, Locks
<1>2. CASE job' = [job EXCEPT ![Run(p)] = [@ EXCEPT !.at = "plan", !.round = 2]] /\ UNCHANGED record
  BY <1>1, <1>2, Rounds DEF Locks
<1>3. CASE Fail(p)
  BY <1>1, <1>3, Failed
<1>4. CASE /\ Save(p, [record[p] EXCEPT !.state = "completed", !.resource = "completed"])
           /\ Quit(Run(p), "over")
  <2>1. record' \in [Procs -> Results \union {None}] /\ RecordsKept
    BY <1>1, <1>4, RunnerHas, ResultsAre, Recording DEF Save
  <2>2. Types' /\ LocksKept(Run(p))
    BY <1>1, <2>1 DEF IInv, Types, LocksKept
  <2> QED BY <1>1, <1>4, <2>1, <2>2, ActorsAre, Gone
<1> QED BY <1>2, <1>3, <1>4 DEF Judge

----------------------------------------------------------------------------
(* The user and the kills.                                                 *)
LEMMA KillStep ==
  ASSUME IInv, NEW a \in Actors, Kill(a) \/ KillAtLocks(a)
  PROVE  Step(a)
<1>1. /\ Types /\ JobInv(a) /\ Quit(a, "dead") /\ job[a].at # "idle"
      /\ lock' = (IF lock = a THEN None ELSE lock) /\ UNCHANGED <<disk, installed, marker, record>>
  BY DEF IInv, Kill, KillAtLocks, Dies, At
<1>2. held' \subseteq Paths /\ LocksKept(a)
  <2>1. CASE Kill(a)
    BY <1>1, <2>1 DEF Kill, Types, LocksKept
  <2>2. CASE KillAtLocks(a)
    <3>1. Targets(a) \subseteq Paths
      BY <1>1, <2>2 DEF KillAtLocks, JobInv, PlanInv, At, Busy
    <3>2. PICK f \in Targets(a) : held' = held \union {g \in Targets(a) : Place(g) <= Place(f)}
      BY <2>2 DEF KillAtLocks
    <3>3. lock = None
      BY <2>2 DEF KillAtLocks
    <3> QED BY <1>1, <3>1, <3>2, <3>3 DEF Types, LocksKept
  <2> QED BY <2>1, <2>2
<1>3. Types' /\ RecordsKept
  BY <1>1, <1>2 DEF Types, RecordsKept
<1> QED BY <1>1, <1>2, <1>3, Gone

LEMMA TimeoutStep ==
  ASSUME IInv, NEW p \in Procs, Timeout(p)
  PROVE  Step(Run(p))
<1>1. /\ job[Run(p)].at # "idle" /\ Fail(p) /\ UNCHANGED <<disk, held, marker, installed>>
      /\ lock' = lock \/ (lock = Run(p) /\ lock' = None)
  BY DEF Timeout, Dies, Aligning
<1> QED BY <1>1, Failed

LEMMA EditStep ==
  ASSUME IInv, Edit
  PROVE  Preserved
<1>1. Types /\ Shapes /\ UNCHANGED <<lock, held, installed, record, marker, job>>
  BY DEF IInv, Edit, Locks, Package
<1>2. disk' \in Disks
  <2>1. PICK save \in Saves : disk' = [disk EXCEPT ![save[1]] = save[2]]
    BY DEF Edit
  <2> QED BY <1>1, <2>1, Storing, DistributionAssumption DEF Types
<1>3. Types' /\ Shapes'
  BY <1>1, <1>2 DEF Types, Shapes
<1>4. ASSUME NEW b \in Actors
      PROVE  JobInv(b)' /\ ~(At(b, "write") /\ At(b, "compare")')
  BY <1>1 DEF IInv, JobInv, PlanInv, LockInv, RecordInv, Targets, At
<1> QED BY <1>3, <1>4 DEF Preserved, IInv

----------------------------------------------------------------------------
LEMMA Initially ==
  ASSUME Init
  PROVE  IInv
<1>1. disk \in Disks /\ installed \in 1 .. Latest
  BY LatestIs, DistributionAssumption DEF Init, Latest
<1>2. Types
  BY <1>1 DEF Init, Types
<1>3. Shapes /\ \A a \in Actors : job[a].at = "idle"
  BY IdleIs DEF Init, Shapes, Idle
<1>4. \A a \in Actors : JobInv(a)
  BY <1>3 DEF JobInv, PlanInv, LockInv, RecordInv, Busy, Inside, Starting, Away
<1> QED BY <1>2, <1>3, <1>4 DEF IInv

LEMMA Preserving ==
  ASSUME IInv, [Next]_vars
  PROVE  Preserved
<1>1. \A a \in Actors : Step(a) => Preserved
  BY Stepping DEF Preserved
<1>2. ASSUME NEW p \in Procs, CliStep(p)
      PROVE  Preserved
  <2>1. Cli(p) \in Actors
    BY ActorsAre
  <2>2. CASE Start(p)
    BY <1>1, <2>1, <2>2, StartStep
  <2>3. CASE AlignStep(Cli(p))
    BY <1>1, <2>1, <2>3, AlignSteps
  <2>4. CASE Summarise(p)
    BY <1>1, <2>1, <2>4, SummariseStep
  <2>5. CASE Record(p)
    BY <1>1, <2>1, <2>5, RecordStep
  <2>6. CASE StartUpgrade(p)
    BY <1>1, <2>1, <2>6, UpgradeStep
  <2>7. CASE SaveJob(p)
    BY <1>1, <2>1, <2>7, JobStep
  <2>8. CASE SaveMarker(p)
    BY <1>1, <2>1, <2>8, MarkerStep
  <2>9. CASE Spawn(p)
    BY <2>9, SpawnStep
  <2>10. CASE Leave(p)
    BY <1>1, <2>1, <2>10, LeaveStep
  <2> QED BY <1>2, <2>2, <2>3, <2>4, <2>5, <2>6, <2>7, <2>8, <2>9, <2>10 DEF CliStep
<1>3. ASSUME NEW p \in Procs, RunStep(p) \/ Timeout(p)
      PROVE  Preserved
  <2>1. Run(p) \in Actors
    BY ActorsAre
  <2>2. CASE Announce(p)
    BY <1>1, <2>1, <2>2, AnnounceStep
  <2>3. CASE Wait(p)
    BY <1>1, <2>1, <2>3, WaitStep
  <2>4. CASE Install(p)
    BY <1>1, <2>1, <2>4, InstallStep
  <2>5. CASE Verify(p)
    BY <1>1, <2>1, <2>5, VerifyStep
  <2>6. CASE AlignStep(Run(p))
    BY <1>1, <2>1, <2>6, AlignSteps
  <2>7. CASE Judge(p)
    BY <1>1, <2>1, <2>7, JudgeStep
  <2>8. CASE Timeout(p)
    BY <1>1, <2>1, <2>8, TimeoutStep
  <2> QED BY <1>3, <2>2, <2>3, <2>4, <2>5, <2>6, <2>7, <2>8 DEF RunStep
<1>4. ASSUME NEW a \in Actors, Kill(a) \/ KillAtLocks(a)
      PROVE  Preserved
  BY <1>1, <1>4, KillStep
<1>5. CASE Edit
  BY <1>5, EditStep
<1>6. CASE UNCHANGED vars
  BY <1>6 DEF vars, Preserved, IInv, Types, Shapes, JobInv, PlanInv, LockInv, RecordInv, Targets, At
<1> QED BY <1>2, <1>3, <1>4, <1>5, <1>6 DEF Next

LEMMA Writing ==
  ASSUME IInv, NEW a \in Actors, Write(a), job[a].now # Ledger
  PROVE  Kept(a)
<1> DEFINE f == job[a].now
<1>1. Types /\ JobInv(a) /\ job[a].at = "write" /\ disk' = [disk EXCEPT ![f] = job[a].todo[f].content]
  BY DEF IInv, Write, At
<1>2. f \in Paths /\ Harmless(f, job[a].todo[f], job[a].sign[2])
  BY <1>1 DEF JobInv, PlanInv, Busy, Inside
<1>3. disk'[f] = job[a].todo[f].content
  BY <1>1, <1>2 DEF Types, Disks
<1> QED BY <1>2, <1>3 DEF Kept, Unchanged, Harmless

LEMMA Typed ==
  ASSUME IInv
  PROVE  TypeOK
BY DEF IInv, Types, JobInv, LockInv, Inside, TypeOK

(* The disk, the ledger, the records and the marker always have their      *)
(* shape, and an actor that compares or writes holds the lock of           *)
(* CAMPFIRE_HOME and the lock files of all it is still to write            *)
(* (target_write_lock).                                                    *)
THEOREM LocksCoverWrites == Spec => []TypeOK
<1>1. Init => IInv
  BY Initially
<1>2. IInv /\ [Next]_vars => IInv'
  BY Preserving DEF Preserved
<1> QED BY <1>1, <1>2, Typed, PTL DEF Spec

(* Nothing the user wrote around the block of the hint file, and no Skill  *)
(* file that was never campfire's, is overwritten by a write that its      *)
(* comparison covers (AgentResourceService.plan, align).                   *)
THEOREM ForeignStays == Spec => ForeignKept
<1>1. Init => IInv
  BY Initially
<1>2. IInv /\ [Next]_vars => IInv'
  BY Preserving DEF Preserved
<1>3. IInv /\ [Next]_vars =>
        [\A a \in Actors : At(a, "write") /\ At(a, "compare")' /\ job[a].now # Ledger => Kept(a)]_vars
  BY Preserving, Writing DEF Preserved
<1> QED BY <1>1, <1>2, <1>3, PTL DEF Spec, ForeignKept

----------------------------------------------------------------------------
(***************************************************************************)
(* What many commands, runners, kills and saves one after another add up   *)
(* to.  SKILL.md is written before the other files of its Skill, so that   *)
(* whatever is interrupted, the files that are there can be taken over.    *)
(* And whoever says that it has aligned with the installed version is      *)
(* right, since nobody is still writing files of an earlier one: such a    *)
(* writer has kept the locks, and SKILL.md is no newer than its plan, so   *)
(* that nobody can meanwhile have found everything aligned.                *)
(***************************************************************************)
(* What version v of the package has at f.                                 *)
Good(content, f, v) ==
  IF f = Hint THEN content # None /\ content.pkg = v ELSE content = Text(v, 0)

(* SKILL.md as installed is not of a later version than v.                 *)
AnchorUpTo(v) == disk[Anchor] # None /\ disk[Anchor].text = 0 => disk[Anchor].pkg <= v

(* The files of the Skill can be taken over, or are not campfire's.        *)
Whole ==
  \/ Anchor \in mine \/ Named(disk)
  \/ \A f \in Files \ {Hint} : disk[f] = None \/ f \in mine

(* An align: its plan, what it need not write, and what it has written.    *)
Late      == Busy \union {"plan", "aligned"}
Writers   == {"compare", "write"}
Signed(a) == job[a].sign[1]
Fitting(a) ==
  /\ Signed(a) \in 1 .. installed
  /\ \A f \in Targets(a) \intersect Wanted(Signed(a), TRUE) : Good(job[a].todo[f].content, f, Signed(a))
Foreseen(a) == \A f \in Wanted(Signed(a), Hints(a)) \ Targets(a) : Good(job[a].sign[2][f], f, Signed(a))
Reached(a) ==
  /\ AnchorUpTo(Signed(a))
  /\ \A f \in Wanted(Signed(a), Hints(a)) \ (mine \union Targets(a)) : Good(disk[f], f, Signed(a))
AlignInv(a) ==
  /\ job[a].at \in Busy => Fitting(a)
  /\ job[a].at \in {"lock", "again"} => Foreseen(a)
  /\ job[a].at \in Writers => Reached(a)
  /\ At(a, "write") /\ Anchor \in Targets(a) => job[a].now \in {Anchor, Hint, Ledger}

(* A command, its runner and their record.                                 *)
Handed == {"leave", "gone", "dead"}
CliInv(p) ==
  /\ job[Cli(p)].at \notin Away => job[Cli(p)].version <= installed
  /\ job[Cli(p)].at \in Busy => job[Cli(p)].version <= Signed(Cli(p))
  /\ job[Cli(p)].at \in {"marker", "spawn"} => record[p].version = Latest
RunInv(p) ==
  /\ job[Run(p)].cmd = None
  /\ job[Run(p)].at # "idle" => job[Cli(p)].at \in Handed
  /\ job[Run(p)].at \in {"begin", "wait", "install", "verify"} \union Late => record[p].version = Latest
  /\ job[Run(p)].at \in Late => installed = Latest
  /\ job[Run(p)].at \in Busy => Signed(Run(p)) = Latest
Completed(p)  == record[p] # None /\ record[p].state = "completed"
RecordPast(p) == Completed(p) => record[p].version <= installed

(* Somebody says that the installed version is aligned.                    *)
CliVouches(p) ==
  /\ At(Cli(p), "record") \/ (At(Cli(p), "aligned") /\ Hints(Cli(p)))
  /\ job[Cli(p)].ok /\ job[Cli(p)].version = installed
Vouched(p) ==
  \/ Completed(p) /\ record[p].version = installed
  \/ CliVouches(p)
  \/ At(Run(p), "aligned") /\ job[Run(p)].ok
Backed ==
  /\ \A f \in Wanted(installed, TRUE) \ mine : Good(disk[f], f, installed)
  /\ \A a \in Actors : job[a].at \in Writers => Signed(a) = installed

ProcInv(p) == CliInv(p) /\ RunInv(p) /\ RecordPast(p) /\ (Vouched(p) => Backed)
Story ==
  /\ AnchorUpTo(installed) /\ Whole
  /\ \A a \in Actors : AlignInv(a)
  /\ \A p \in Procs : ProcInv(p)

----------------------------------------------------------------------------
(* What the invariants give.                                               *)
LEMMA ContentsAre ==
  ASSUME NEW d \in Disks, NEW f \in Files, d[f] # None
  PROVE  d[f].pkg \in Nat /\ d[f].text \in 0 .. 2 /\ d[f] = Text(d[f].pkg, d[f].text)
BY DiskIs, DistributionAssumption DEF Contents, Text, Broken, Latest

LEMMA VersionsAre == \A v \in 1 .. Latest : v \in Nat
BY DistributionAssumption DEF Latest

LEMMA TextIs ==
  /\ \A v, t : Text(v, t).pkg = v /\ Text(v, t).text = t
  /\ \A v \in Nat, t \in Nat : Text(v, t) # None
BY DistributionAssumption DEF Text

LEMMA GoodIsAligned ==
  ASSUME NEW d \in Disks, NEW v \in 1 .. Latest, NEW f \in Wanted(v, TRUE)
  PROVE  Good(d[f], f, v) <=> d[f] = Aligned(d, f, v)
<1>1. f \in Files /\ v \in Nat
  BY PackagesAre, VersionsAre
<1>2. CASE f = Hint /\ d[f] # None
  BY <1>1, <1>2, ContentsAre, TextIs DEF Good, Aligned
<1>3. CASE f = Hint /\ d[f] = None
  BY <1>1, <1>3, TextIs DEF Good, Aligned
<1>4. CASE f # Hint
  BY <1>4 DEF Good, Aligned, Wanted
<1> QED BY <1>2, <1>3, <1>4

LEMMA AlignedIsGood ==
  ASSUME NEW d \in Disks, NEW v \in 1 .. Latest, NEW f \in Wanted(v, TRUE)
  PROVE  Good(Aligned(d, f, v), f, v)
<1>1. f \in Files /\ v \in Nat
  BY PackagesAre, VersionsAre
<1>2. CASE f = Hint
  <2>1. d[f] # None => d[f].text \in Nat
    BY <1>1, ContentsAre
  <2>2. PICK t \in Nat : Aligned(d, f, v) = Text(v, t)
    BY <1>2, <2>1 DEF Aligned
  <2> QED BY <1>1, <1>2, <2>2, TextIs DEF Good
<1>3. CASE f # Hint
  BY <1>3 DEF Good, Aligned, Wanted
<1> QED BY <1>2, <1>3

(* A plan: what it has of the wanted files to write is good, and what it   *)
(* leaves alone is good already.                                           *)
LEMMA Intending ==
  ASSUME NEW d \in Disks, NEW v \in 1 .. Latest, NEW hints \in BOOLEAN
  PROVE  /\ \A f \in DOMAIN Changes(d, v, hints) \intersect Wanted(v, TRUE) :
              Good(Changes(d, v, hints)[f].content, f, v)
         /\ \A f \in Wanted(v, hints) \ DOMAIN Changes(d, v, hints) : Good(d[f], f, v)
<1> DEFINE changes == Changes(d, v, hints)
<1>1. Wanted(v, hints) \subseteq Wanted(v, TRUE) /\ Wanted(v, TRUE) \subseteq Files
  BY PackagesAre DEF Wanted
<1>2. ASSUME NEW f \in DOMAIN changes \intersect Wanted(v, TRUE)
      PROVE  Good(changes[f].content, f, v)
  <2>1. f # Ledger
    BY <1>1, DistributionAssumption
  <2>2. changes[f].content = Aligned(d, f, v)
    BY <2>1 DEF Changes, Change
  <2> QED BY <2>2, AlignedIsGood
<1>3. ASSUME NEW f \in Wanted(v, hints) \ DOMAIN changes
      PROVE  Good(d[f], f, v)
  <2>1. f \in Looked(d, v, hints)
    BY DEF Looked
  <2>2. d[f] = Aligned(d, f, v)
    BY <2>1 DEF Changes
  <2> QED BY <1>1, <2>2, GoodIsAligned
<1> QED BY <1>2, <1>3

(* What a signature that is met again says of the disk.                    *)
LEMMA Matching ==
  ASSUME NEW d \in Disks, NEW v \in 1 .. Latest, NEW hints \in BOOLEAN
  PROVE  /\ Signature(d, v, hints)[1] = v
         /\ \A f \in Wanted(v, hints) : Signature(d, v, hints)[2][f] = d[f]
BY DEF Signature, Looked

----------------------------------------------------------------------------
(* Steps that leave the disk alone and end no align under way but one.     *)
LEMMA ActorsOf ==
  /\ \A a \in Actors : \E p \in Procs : a = Cli(p) \/ a = Run(p)
  /\ \A p, q \in Procs : p # q => Cli(p) # Cli(q) /\ Run(p) # Run(q)
BY DEF Actors, Cli, Run

LEMMA Quietly ==
  ASSUME Story, NEW p \in Procs, UNCHANGED <<disk, mine, installed>>,
         \A q \in Procs \ {p} : job'[Cli(q)] = job[Cli(q)] /\ job'[Run(q)] = job[Run(q)] /\ record'[q] = record[q],
         \A a \in {Cli(p), Run(p)} : job'[a] = job[a] \/ job'[a].at \notin Busy,
         CliInv(p)', RunInv(p)', RecordPast(p)', Vouched(p)' => Vouched(p) \/ Backed
  PROVE  Story'
<1>1. \A a \in Actors : job'[a] = job[a] \/ job'[a].at \notin Busy
  BY ActorsOf
<1>2. AnchorUpTo(installed)' /\ Whole'
  BY DEF Story, AnchorUpTo, Whole, Named
<1>3. ASSUME NEW a \in Actors
      PROVE  AlignInv(a)'
  <2>1. AlignInv(a)
    BY DEF Story
  <2>2. CASE job'[a] = job[a]
    BY <2>1, <2>2 DEF AlignInv, Fitting, Foreseen, Reached, AnchorUpTo, Signed, Targets, Hints, At
  <2>3. CASE job'[a].at \notin Busy
    BY <2>3 DEF AlignInv, Busy, Inside, Writers, At
  <2> QED BY <1>1, <2>2, <2>3
<1>4. Backed => Backed'
  BY <1>1 DEF Backed, Writers, Busy, Inside, Signed
<1>5. ASSUME NEW q \in Procs
      PROVE  ProcInv(q)'
  <2>1. ProcInv(q)
    BY DEF Story
  <2>2. CASE q = p
    BY <1>4, <2>1, <2>2 DEF ProcInv
  <2>3. CASE q # p
    <3>1. job'[Cli(q)] = job[Cli(q)] /\ job'[Run(q)] = job[Run(q)] /\ record'[q] = record[q]
      BY <2>3
    <3>2. CliInv(q)' /\ RunInv(q)' /\ RecordPast(q)'
      BY <2>1, <3>1 DEF ProcInv, CliInv, RunInv, RecordPast, Completed, Signed
    <3>3. Vouched(q)' => Vouched(q)
      BY <3>1 DEF Vouched, CliVouches, Completed, Hints, At
    <3> QED BY <1>4, <2>1, <3>2, <3>3 DEF ProcInv
  <2> QED BY <2>2, <2>3
<1> QED BY <1>2, <1>3, <1>5 DEF Story

LEMMA CliMoves ==
  ASSUME Story, NEW p \in Procs, Only(Cli(p)), UNCHANGED <<disk, mine, installed>>,
         \A q \in Procs \ {p} : record'[q] = record[q],
         record'[p] = record[p] \/ job[Cli(p)].at \notin Handed,
         job'[Cli(p)].at \notin Busy,
         job[Cli(p)].at \notin Handed \/ job'[Cli(p)].at \in Handed,
         job'[Cli(p)].at \notin Away => job'[Cli(p)].version <= installed,
         job'[Cli(p)].at \in {"marker", "spawn"} => record'[p].version = Latest,
         RecordPast(p)', Vouched(p)' => Vouched(p) \/ Backed
  PROVE  Story'
<1>1. /\ job'[Run(p)] = job[Run(p)]
      /\ \A q \in Procs \ {p} : job'[Cli(q)] = job[Cli(q)] /\ job'[Run(q)] = job[Run(q)]
  BY ActorsAre, ActorsOf DEF Only
<1>2. CliInv(p)'
  BY DEF CliInv
<1>3. RunInv(p)'
  <2>1. RunInv(p)
    BY DEF Story, ProcInv
  <2>2. job[Run(p)].at = "idle" \/ (record'[p] = record[p] /\ job'[Cli(p)].at \in Handed)
    BY <2>1 DEF RunInv
  <2> QED BY <1>1, <2>1, <2>2 DEF RunInv, Late, Busy, Inside, Signed
<1> QED BY <1>1, <1>2, <1>3, Quietly

LEMMA RunMoves ==
  ASSUME Story, NEW p \in Procs, Only(Run(p)), UNCHANGED <<disk, mine, installed>>,
         \A q \in Procs \ {p} : record'[q] = record[q],
         job[Run(p)].at # "idle", job'[Run(p)].cmd = None, job'[Run(p)].at \notin Busy,
         job'[Run(p)].at \in {"begin", "wait", "install", "verify", "plan", "aligned"} => record'[p].version = Latest,
         job'[Run(p)].at \in {"plan", "aligned"} => installed = Latest,
         RecordPast(p)', Vouched(p)' => Vouched(p) \/ Backed
  PROVE  Story'
<1>1. /\ job'[Cli(p)] = job[Cli(p)]
      /\ \A q \in Procs \ {p} : job'[Cli(q)] = job[Cli(q)] /\ job'[Run(q)] = job[Run(q)]
  BY ActorsAre, ActorsOf DEF Only
<1>2. CliInv(p) /\ RunInv(p) /\ job[Cli(p)].at \in Handed
  BY DEF Story, ProcInv, RunInv
<1>3. CliInv(p)'
  BY <1>1, <1>2 DEF CliInv, Signed, Handed, Busy, Inside
<1>4. RunInv(p)'
  BY <1>1, <1>2 DEF RunInv, Late
<1> QED BY <1>1, <1>3, <1>4, Quietly

----------------------------------------------------------------------------
(* The command outside align.                                              *)
LEMMA Resetting ==
  ASSUME IInv, NEW a \in Actors, NEW there, Quit(a, there)
  PROVE  Only(a) /\ job'[a].at = there /\ job'[a].cmd = None
<1> DEFINE r == [Idle EXCEPT !.at = there]
<1>1. DOMAIN r = JobFields /\ r.at = there /\ r.cmd = None
  BY IdleIs DEF JobFields, Idle
<1>2. job' = [job EXCEPT ![a] = r]
  BY DEF Quit
<1> HIDE DEF r
<1> QED BY <1>1, <1>2, Moves DEF IInv

LEMMA CliIs ==
  ASSUME Story, NEW p \in Procs
  PROVE  Cli(p) \in Actors /\ Run(p) \in Actors /\ Cli(p) # Run(p) /\ CliInv(p) /\ RunInv(p) /\ RecordPast(p)
BY ActorsAre DEF Story, ProcInv

LEMMA CliRests ==
  ASSUME IInv, Story, NEW p \in Procs, NEW there \in {"gone", "dead"}, Quit(Cli(p), there),
         UNCHANGED <<disk, mine, installed>>, \A q \in Procs \ {p} : record'[q] = record[q],
         record'[p] = record[p] \/ job[Cli(p)].at \notin Handed,
         RecordPast(p)', Completed(p)' /\ record'[p].version = installed => Vouched(p)
  PROVE  Story'
<1>1. Only(Cli(p)) /\ job'[Cli(p)].at = there
  BY CliIs, Resetting
<1>2. job'[Run(p)] = job[Run(p)]
  BY <1>1, CliIs DEF Only
<1>3. Vouched(p)' => Vouched(p)
  BY <1>1, <1>2 DEF Vouched, CliVouches, At
<1> QED BY <1>1, <1>3, CliMoves DEF Busy, Inside, Handed, Away

LEMMA CliGoes ==
  ASSUME IInv, Story, NEW p \in Procs, NEW r, DOMAIN r = JobFields, job' = [job EXCEPT ![Cli(p)] = r],
         r.at \in {"plan", "start", "job", "marker", "spawn", "record"}, job[Cli(p)].at \notin Handed,
         r.version <= installed, r.at = "record" /\ r.ok => r.version # installed \/ CliVouches(p),
         UNCHANGED <<disk, mine, installed>>, \A q \in Procs \ {p} : record'[q] = record[q],
         r.at \in {"marker", "spawn"} => record'[p].version = Latest,
         record'[p] = record[p] \/ ~Completed(p)'
  PROVE  Story'
<1>1. Only(Cli(p)) /\ job'[Cli(p)] = r /\ job'[Run(p)] = job[Run(p)]
  BY CliIs, Moves DEF IInv, Only
<1>2. RecordPast(p)'
  BY CliIs DEF RecordPast, Completed
<1>3. Vouched(p)' => Vouched(p)
  BY <1>1 DEF Vouched, CliVouches, Completed, At
<1> QED BY <1>1, <1>2, <1>3, CliMoves DEF Busy, Inside, Handed

LEMMA CliStarts ==
  ASSUME IInv, Story, NEW p \in Procs, Start(p)
  PROVE  Story'
<1> DEFINE a == Cli(p)
<1>1. /\ job[a].at = "idle" /\ UNCHANGED <<disk, installed, record, mine>>
      /\ Shapes /\ a \in Actors /\ RecordPast(p) /\ installed <= installed
  BY CliIs, VersionsAre DEF IInv, Types, Start, At, Package, Others
<1>2. CASE Quit(a, "gone")
  BY <1>1, <1>2, CliRests DEF Vouched, RecordPast, Completed, Handed
<1>3. ASSUME NEW cmd, NEW there \in {"plan", "record", "start"}, NEW ok, there = "record" => ok = FALSE,
             Begin(p, cmd, there, ok)
      PROVE  Story'
  <2> DEFINE r == [job[a] EXCEPT !.at = there, !.cmd = cmd, !.version = installed, !.ok = ok]
  <2>1. job' = [job EXCEPT ![a] = r]
    BY <1>3 DEF Begin
  <2>2. DOMAIN r = JobFields /\ r.at = there /\ r.version = installed /\ r.ok = ok
    BY <1>1 DEF Shapes, JobFields
  <2> HIDE DEF r
  <2>3. ~(r.at = "record" /\ r.ok)
    BY <1>3, <2>2
  <2> QED BY <1>1, <1>3, <2>1, <2>2, <2>3, CliGoes DEF Handed
<1>4. \/ Quit(a, "gone")
      \/ \E cmd \in Commands : \/ Begin(p, cmd, "plan", TRUE) \/ Begin(p, cmd, "record", FALSE)
                               \/ Begin(p, cmd, "start", TRUE)
  <2>1. PICK cmd \in Commands :
          CASE cmd = "setup" -> IF Blocked(disk, installed, TRUE) THEN Quit(a, "gone") ELSE Begin(p, cmd, "plan", TRUE)
            [] cmd \in {"sync", "align"} -> Begin(p, cmd, "plan", TRUE)
            [] cmd = "upgrade" ->
                 \E can \in BOOLEAN :
                   IF ~can \/ installed = Latest THEN Begin(p, cmd, "plan", TRUE)
                   ELSE IF Blocked(disk, installed, TRUE) THEN Begin(p, cmd, "record", FALSE)
                   ELSE Begin(p, cmd, "start", TRUE)
    BY DEF Start
  <2>2. CASE cmd = "setup"
    BY <2>1, <2>2
  <2>3. CASE cmd \in {"sync", "align"}
    BY <2>1, <2>3
  <2>4. CASE cmd = "upgrade"
    BY <2>1, <2>4
  <2> QED BY <2>2, <2>3, <2>4, DistributionAssumption
<1> QED BY <1>2, <1>3, <1>4

LEMMA CliConcludes ==
  ASSUME IInv, Story, NEW p \in Procs, Summarise(p)
  PROVE  Story'
<1> DEFINE a == Cli(p)
<1>1. /\ job[a].at = "aligned" /\ UNCHANGED <<disk, installed, record, mine>>
      /\ Shapes /\ a \in Actors /\ CliInv(p) /\ RecordPast(p)
  BY CliIs DEF IInv, Summarise, At, Package, Others
<1>2. CASE Quit(a, "gone")
  BY <1>1, <1>2, CliRests DEF Vouched, RecordPast, Completed, Handed
<1>3. ASSUME NEW ok, ok => job[a].ok, job[a].cmd # "sync", Conclude(p, ok)
      PROVE  Story'
  <2> DEFINE r == [job[a] EXCEPT !.at = "record", !.ok = ok]
  <2>1. job' = [job EXCEPT ![a] = r]
    BY <1>3 DEF Conclude
  <2>2. DOMAIN r = JobFields /\ r.at = "record" /\ r.version = job[a].version /\ r.ok = ok
    BY <1>1 DEF Shapes, JobFields
  <2> HIDE DEF r
  <2>3. r.version <= installed
    BY <1>1, <2>2 DEF CliInv, Away
  <2>4. r.at = "record" /\ r.ok => r.version # installed \/ CliVouches(p)
    <3>1. r.ok => job[a].ok
      BY <1>3, <2>2
    <3> QED BY <1>1, <1>3, <2>2, <3>1 DEF CliVouches, At, Hints
  <2> QED BY <1>1, <2>1, <2>2, <2>3, <2>4, CliGoes DEF Handed
<1>4. ASSUME NEW others \in BOOLEAN, job[a].cmd # "sync", Conclude(p, job[a].ok /\ others)
      PROVE  Story'
  <2> DEFINE ok == job[a].ok /\ others
  <2>1. (ok => job[a].ok) /\ Conclude(p, ok)
    BY <1>4
  <2> HIDE DEF ok
  <2> QED BY <1>3, <1>4, <2>1
<1> QED BY <1>2, <1>4 DEF Summarise

LEMMA CliRecords ==
  ASSUME IInv, Story, NEW p \in Procs, Record(p)
  PROVE  Story'
<1> DEFINE a      == Cli(p)
           result == Result(Outcome(job[a].ok), "skipped", Outcome(job[a].ok), job[a].version)
<1>1. /\ job[a].at = "record" /\ Quit(a, "gone") /\ UNCHANGED <<disk, installed, mine>>
      /\ record' = record \/ record' = [record EXCEPT ![p] = result]
      /\ Types /\ CliInv(p) /\ RecordPast(p)
  BY CliIs DEF IInv, Record, At, Others
<1>2. CASE record' = record
  BY <1>1, <1>2, CliRests DEF Vouched, RecordPast, Completed
<1>3. CASE record' = [record EXCEPT ![p] = result]
  <2>1. result.state = Outcome(job[a].ok) /\ result.version = job[a].version
    BY DEF Result
  <2>2. record'[p] = result /\ \A q \in Procs \ {p} : record'[q] = record[q]
    BY <1>1, <1>3 DEF Types
  <2> HIDE DEF result
  <2>3. Completed(p)' => job[a].ok
    BY <2>1, <2>2 DEF Completed, Outcome
  <2>4. RecordPast(p)'
    BY <1>1, <2>1, <2>2 DEF RecordPast, CliInv, Away
  <2>5. Completed(p)' /\ record'[p].version = installed => Vouched(p)
    BY <1>1, <2>1, <2>2, <2>3 DEF Vouched, CliVouches, At
  <2> QED BY <1>1, <2>2, <2>4, <2>5, CliRests DEF Handed
<1> QED BY <1>1, <1>2, <1>3

(* PackageUpdater.start.                                                   *)
LEMMA CliHands ==
  ASSUME IInv, Story, NEW p \in Procs, StartUpgrade(p) \/ SaveJob(p) \/ SaveMarker(p) \/ Leave(p)
  PROVE  Story'
<1> DEFINE a == Cli(p)
<1>1. /\ UNCHANGED <<disk, installed, mine>> /\ job[a].at \in {"start", "job", "marker", "leave"}
      /\ Shapes /\ Types /\ CliInv(p) /\ RecordPast(p) /\ a \in Actors
  BY CliIs DEF IInv, StartUpgrade, SaveJob, SaveMarker, Leave, At, Package, Others
<1>2. CASE Quit(a, "gone") /\ record' = record
  BY <1>1, <1>2, CliRests DEF Vouched, RecordPast, Completed
<1>3. ASSUME NEW there \in {"job", "marker", "spawn"}, Goto(a, there), job[a].at # "leave",
             \A q \in Procs \ {p} : record'[q] = record[q], record'[p] = record[p] \/ ~Completed(p)',
             there \in {"marker", "spawn"} => record'[p].version = Latest
      PROVE  Story'
  <2> DEFINE r == [job[a] EXCEPT !.at = there]
  <2>1. job' = [job EXCEPT ![a] = r]
    BY <1>1, <1>3 DEF Goto, Shapes
  <2>2. DOMAIN r = JobFields /\ r.at = there /\ r.version = job[a].version
    BY <1>1 DEF Shapes, JobFields
  <2> HIDE DEF r
  <2>3. r.version <= installed
    BY <1>1, <2>2 DEF CliInv, Away
  <2> QED BY <1>1, <1>3, <2>1, <2>2, <2>3, CliGoes DEF Handed
<1>4. CASE StartUpgrade(p)
  BY <1>2, <1>3, <1>4 DEF StartUpgrade, At, Package
<1>5. CASE SaveJob(p)
  <2> DEFINE result == Result("scheduled", "pending", "pending", Latest)
  <2>1. result.state = "scheduled" /\ result.version = Latest
    BY DEF Result
  <2>2. record'[p] = result /\ \A q \in Procs \ {p} : record'[q] = record[q]
    BY <1>1, <1>5 DEF SaveJob, Types
  <2> HIDE DEF result
  <2>3. ~Completed(p)'
    BY <2>1, <2>2 DEF Completed
  <2> QED BY <1>3, <1>5, <2>1, <2>2, <2>3 DEF SaveJob, At
<1>6. CASE SaveMarker(p)
  BY <1>1, <1>3, <1>6 DEF SaveMarker, CliInv, At
<1>7. CASE Leave(p)
  BY <1>2, <1>7 DEF Leave, Package
<1> QED BY <1>4, <1>5, <1>6, <1>7

LEMMA CliSpawns ==
  ASSUME IInv, Story, NEW p \in Procs, Spawn(p)
  PROVE  Story'
<1> DEFINE a == Cli(p)
           c == Run(p)
<1>1. /\ job[a].at = "spawn" /\ UNCHANGED <<disk, installed, mine>>
      /\ Shapes /\ Types /\ CliInv(p) /\ RunInv(p) /\ RecordPast(p) /\ a \in Actors /\ c \in Actors /\ a # c
      /\ record[p] # None
  BY CliIs, ActorsAre DEF IInv, JobInv, RecordInv, Spawn, At, Others
<1>2. CASE job' = [job EXCEPT ![a].at = "leave", ![c].at = "begin"] /\ UNCHANGED record
  <2>1. /\ job'[a].at = "leave" /\ job'[a].version = job[a].version
        /\ job'[c].at = "begin" /\ job'[c].cmd = job[c].cmd
        /\ \A q \in Procs \ {p} : job'[Cli(q)] = job[Cli(q)] /\ job'[Run(q)] = job[Run(q)]
    <3>1. \A q \in Procs \ {p} : {Cli(q), Run(q)} \intersect {a, c} = {} /\ {Cli(q), Run(q)} \subseteq Actors
      BY ActorsOf, ActorsAre
    <3> QED BY <1>1, <1>2, <3>1 DEF Shapes, JobFields
  <2>2. CliInv(p)'
    BY <1>1, <2>1 DEF CliInv, Away, Busy, Inside
  <2>3. RunInv(p)'
    BY <1>1, <1>2, <2>1 DEF RunInv, CliInv, Handed, Late, Busy, Inside
  <2>4. RecordPast(p)'
    BY <1>1, <1>2 DEF RecordPast, Completed
  <2>5. Vouched(p)' => Vouched(p)
    BY <1>1, <1>2, <2>1 DEF Vouched, CliVouches, Completed, At
  <2> QED BY <1>1, <1>2, <2>1, <2>2, <2>3, <2>4, <2>5, Quietly DEF Busy, Inside
<1>3. CASE Quit(a, "gone") /\ record' = [record EXCEPT ![p] = [@ EXCEPT !.state = "failed", !.package = "failed"]]
  <2>1. record[p] \in Results
    BY <1>1 DEF Types
  <2>2. record'[p].state = "failed" /\ \A q \in Procs \ {p} : record'[q] = record[q]
    BY <1>1, <1>3, <2>1 DEF Types, Results
  <2>3. ~Completed(p)'
    BY <2>2 DEF Completed
  <2> QED BY <1>1, <1>3, <2>2, <2>3, CliRests DEF RecordPast, Handed
<1> QED BY <1>2, <1>3 DEF Spawn

----------------------------------------------------------------------------
(* The runner outside align.                                               *)
LEMMA RunEnds ==
  ASSUME IInv, Story, NEW p \in Procs, NEW there \in {"over", "dead"}, Quit(Run(p), there),
         job[Run(p)].at # "idle", UNCHANGED <<disk, mine, installed>>, \A q \in Procs \ {p} : record'[q] = record[q],
         RecordPast(p)', Completed(p)' /\ record'[p].version = installed => Vouched(p)
  PROVE  Story'
<1>1. Only(Run(p)) /\ job'[Run(p)].at = there /\ job'[Run(p)].cmd = None
  BY CliIs, Resetting
<1>2. job'[Cli(p)] = job[Cli(p)]
  BY <1>1, CliIs DEF Only
<1>3. Vouched(p)' => Vouched(p)
  BY <1>1, <1>2 DEF Vouched, CliVouches, At, Hints
<1> QED BY <1>1, <1>3, RunMoves DEF Busy, Inside

LEMMA Failures ==
  ASSUME IInv, NEW p \in Procs, job[Run(p)].at # "idle", Fail(p)
  PROVE  ~Completed(p)' /\ \A q \in Procs \ {p} : record'[q] = record[q]
<1>1. record[p] \in Results /\ Types
  BY RunnerHas DEF IInv
<1>2. Failure(record[p]).state = "failed"
  BY <1>1 DEF Results, Failure
<1> QED BY <1>1, <1>2 DEF Fail, Save, Types, Completed

LEMMA RunFails ==
  ASSUME IInv, Story, NEW p \in Procs, job[Run(p)].at # "idle", Fail(p), UNCHANGED <<disk, mine, installed>>
  PROVE  Story'
<1>1. ~Completed(p)' /\ \A q \in Procs \ {p} : record'[q] = record[q]
  BY Failures
<1> QED BY <1>1, RunEnds DEF Fail, RecordPast

LEMMA RunGoes ==
  ASSUME IInv, Story, NEW p \in Procs, NEW r, DOMAIN r = JobFields, job' = [job EXCEPT ![Run(p)] = r],
         job[Run(p)].at # "idle", r.cmd = None, r.at \in {"wait", "install", "verify", "plan"},
         UNCHANGED <<disk, mine, installed>>, \A q \in Procs \ {p} : record'[q] = record[q],
         record'[p].version = Latest, Completed(p)' => Completed(p) /\ record'[p].version = record[p].version,
         r.at = "plan" => installed = Latest
  PROVE  Story'
<1>1. Only(Run(p)) /\ job'[Run(p)] = r /\ job'[Cli(p)] = job[Cli(p)]
  BY CliIs, Moves DEF IInv, Only
<1>2. RecordPast(p)'
  BY CliIs DEF RecordPast, Completed
<1>3. Vouched(p)' => Vouched(p)
  BY <1>1 DEF Vouched, CliVouches, Completed, At, Hints
<1> QED BY <1>1, <1>2, <1>3, RunMoves DEF Busy, Inside

LEMMA RunBegins ==
  ASSUME IInv, Story, NEW p \in Procs, Announce(p) \/ Wait(p) \/ Verify(p)
  PROVE  Story'
<1> DEFINE a == Run(p)
<1>1. /\ UNCHANGED <<disk, installed, mine>> /\ job[a].at \in {"begin", "wait", "verify"}
      /\ Shapes /\ Types /\ RunInv(p) /\ a \in Actors /\ record[p] \in Results
      /\ record[p].version = Latest /\ job[a].cmd = None
  <2>1. UNCHANGED <<disk, installed, mine>> /\ job[a].at \in {"begin", "wait", "verify"}
    BY DEF Announce, Wait, Verify, At, Others
  <2>2. Shapes /\ Types /\ RunInv(p) /\ a \in Actors
    BY CliIs DEF IInv
  <2> QED BY <2>1, <2>2, RunnerHas DEF RunInv
<1>2. CASE Fail(p)
  BY <1>1, <1>2, RunFails
<1>3. ASSUME NEW r, DOMAIN r = JobFields, r.cmd = job[a].cmd, r.at \in {"wait", "install", "plan"},
             job' = [job EXCEPT ![a] = r], r.at = "plan" => installed = Latest,
             NEW result, result.state = "completed" => record[p].state = "completed", result.version = Latest,
             record' = [record EXCEPT ![p] = result]
      PROVE  Story'
  <2>1. record'[p] = result /\ \A q \in Procs \ {p} : record'[q] = record[q]
    BY <1>1, <1>3 DEF Types
  <2>2. Completed(p)' => Completed(p) /\ record'[p].version = record[p].version
    BY <1>1, <1>3, <2>1, DistributionAssumption DEF Completed
  <2> QED BY <1>1, <1>3, <2>1, <2>2, RunGoes
<1>4. CASE Announce(p)
  <2> DEFINE r      == [job[a] EXCEPT !.at = "wait"]
             result == [record[p] EXCEPT !.state = "waiting"]
  <2>1. job' = [job EXCEPT ![a] = r] /\ record' = [record EXCEPT ![p] = result]
    BY <1>1, <1>4 DEF Announce, Goto, Save, Shapes
  <2>2. DOMAIN r = JobFields /\ r.at = "wait" /\ r.cmd = job[a].cmd
    BY <1>1 DEF Shapes, JobFields
  <2>3. result.state = "waiting" /\ result.version = Latest
    BY <1>1 DEF Results
  <2> HIDE DEF r, result
  <2> QED BY <1>3, <2>1, <2>2, <2>3
<1>5. CASE Wait(p) /\ HostGone(p)
  <2> DEFINE r      == [job[a] EXCEPT !.at = "install"]
             result == [record[p] EXCEPT !.state = "running", !.package = "running"]
  <2>1. job' = [job EXCEPT ![a] = r] /\ record' = [record EXCEPT ![p] = result]
    BY <1>1, <1>5 DEF Wait, Goto, Save, Shapes
  <2>2. DOMAIN r = JobFields /\ r.at = "install" /\ r.cmd = job[a].cmd
    BY <1>1 DEF Shapes, JobFields
  <2>3. result.state = "running" /\ result.version = Latest
    BY <1>1 DEF Results
  <2> HIDE DEF r, result
  <2> QED BY <1>3, <2>1, <2>2, <2>3
<1>6. CASE Verify(p) /\ installed = record[p].version
  <2> DEFINE r      == [job[a] EXCEPT !.at = "plan", !.round = 1]
             result == [record[p] EXCEPT !.package = "completed", !.resource = "running"]
  <2>1. job' = [job EXCEPT ![a] = r] /\ record' = [record EXCEPT ![p] = result]
    BY <1>6 DEF Verify, Save
  <2>2. DOMAIN r = JobFields /\ r.at = "plan" /\ r.cmd = job[a].cmd
    BY <1>1 DEF Shapes, JobFields
  <2>3. result.state = record[p].state /\ result.version = Latest
    BY <1>1 DEF Results
  <2> HIDE DEF r, result
  <2> QED BY <1>1, <1>3, <1>6, <2>1, <2>2, <2>3
<1> QED BY <1>2, <1>4, <1>5, <1>6 DEF Wait, Verify

LEMMA RunJudges ==
  ASSUME IInv, Story, NEW p \in Procs, Judge(p)
  PROVE  Story'
<1> DEFINE a == Run(p)
<1>1. /\ UNCHANGED <<disk, installed, mine>> /\ job[a].at = "aligned" /\ Shapes /\ Types /\ RecordPast(p)
      /\ a \in Actors /\ record[p] \in Results /\ record[p].version = Latest /\ job[a].cmd = None /\ installed = Latest
  <2>1. UNCHANGED <<disk, installed, mine>> /\ job[a].at = "aligned"
    BY DEF Judge, At, Others
  <2>2. Shapes /\ Types /\ RunInv(p) /\ a \in Actors /\ RecordPast(p)
    BY CliIs DEF IInv
  <2> QED BY <2>1, <2>2, RunnerHas DEF RunInv, Late
<1>2. CASE Fail(p)
  BY <1>1, <1>2, RunFails
<1>3. CASE job' = [job EXCEPT ![a] = [@ EXCEPT !.at = "plan", !.round = 2]] /\ UNCHANGED record
  <2> DEFINE r == [job[a] EXCEPT !.at = "plan", !.round = 2]
  <2>1. job' = [job EXCEPT ![a] = r]
    BY <1>3
  <2>2. DOMAIN r = JobFields /\ r.at = "plan" /\ r.cmd = job[a].cmd
    BY <1>1 DEF Shapes, JobFields
  <2>3. Completed(p)' => Completed(p) /\ record'[p].version = record[p].version
    BY <1>3 DEF Completed
  <2> HIDE DEF r
  <2> QED BY <1>1, <1>3, <2>1, <2>2, <2>3, RunGoes
<1>4. CASE job[a].ok /\ Quit(a, "over") /\ Save(p, [record[p] EXCEPT !.state = "completed", !.resource = "completed"])
  <2> DEFINE result == [record[p] EXCEPT !.state = "completed", !.resource = "completed"]
  <2>1. result.version = Latest /\ record' = [record EXCEPT ![p] = result]
    BY <1>1, <1>4 DEF Save, Results
  <2> HIDE DEF result
  <2>2. record'[p].version = Latest /\ \A q \in Procs \ {p} : record'[q] = record[q]
    BY <1>1, <2>1 DEF Types
  <2>3. RecordPast(p)'
    BY <1>1, <2>2, VersionsAre DEF RecordPast, Types
  <2>4. Vouched(p)
    BY <1>1, <1>4 DEF Vouched, At
  <2> QED BY <1>1, <1>4, <2>2, <2>3, <2>4, RunEnds
<1> QED BY <1>2, <1>3, <1>4 DEF Judge, Succeeded

LEMMA Deaths ==
  ASSUME IInv, Story, NEW a \in Actors, Kill(a) \/ KillAtLocks(a)
  PROVE  Story'
<1>1. UNCHANGED <<disk, installed, mine, record>> /\ Quit(a, "dead") /\ job[a].at \notin {"idle", "gone", "over", "dead"}
  BY DEF Kill, KillAtLocks, Dies, At
<1>2. ASSUME NEW p \in Procs
      PROVE  RecordPast(p)' /\ (Completed(p)' /\ record'[p].version = installed => Vouched(p))
  BY <1>1, CliIs DEF RecordPast, Completed, Vouched
<1>3. ASSUME NEW p \in Procs, a = Cli(p)
      PROVE  Story'
  BY <1>1, <1>2, <1>3, CliRests
<1>4. ASSUME NEW p \in Procs, a = Run(p)
      PROVE  Story'
  BY <1>1, <1>2, <1>4, RunEnds
<1> QED BY <1>3, <1>4, ActorsOf

LEMMA RunTimesOut ==
  ASSUME IInv, Story, NEW p \in Procs, Timeout(p)
  PROVE  Story'
<1>1. job[Run(p)].at # "idle" /\ Fail(p) /\ UNCHANGED <<disk, installed, mine>>
  BY DEF Timeout, Dies, Aligning
<1> QED BY <1>1, RunFails

(* The package is replaced: nobody has vouched for the new version yet.    *)
LEMMA Replaced ==
  ASSUME IInv, Story, NEW p \in Procs, Install(p), installed' # installed
  PROVE  Story'
<1> DEFINE a == Run(p)
<1>1. /\ job[a].at = "install" /\ UNCHANGED <<disk, mine>> /\ installed' = Latest
      /\ Types /\ Shapes /\ a \in Actors /\ CliInv(p) /\ RunInv(p)
      /\ job[a].cmd = None /\ record[p].version = Latest /\ record[p] \in Results
  <2>1. job[a].at = "install" /\ UNCHANGED <<disk, mine>> /\ installed' = Latest
    BY DEF Install, At, Others
  <2>2. Shapes /\ Types /\ RunInv(p) /\ CliInv(p) /\ a \in Actors
    BY CliIs DEF IInv
  <2> QED BY <2>1, <2>2, RunnerHas DEF RunInv
<1>2. installed \in Nat /\ Latest \in Nat /\ installed < Latest
  BY <1>1, VersionsAre, LatestIs DEF Types
<1>3. Only(a) /\ job'[a].at \in {"verify", "over"} /\ job'[a].cmd = None /\ record' \in [Procs -> Results \union {None}]
      /\ (\A q \in Procs \ {p} : record'[q] = record[q])
      /\ (record' = record \/ ~Completed(p)') /\ (job'[a].at = "verify" => record' = record)
  <2>1. CASE Goto(a, "verify") /\ UNCHANGED record
    BY <1>1, <2>1, Going DEF JobFields, Types
  <2>2. CASE Fail(p)
    <3>1. Only(a) /\ job'[a].at = "over" /\ job'[a].cmd = None
      BY <1>1, <2>2, Resetting DEF Fail
    <3>2. record' \in [Procs -> Results \union {None}]
      BY <1>1, <2>2, RunnerHas, Recording DEF Fail, Save
    <3> QED BY <1>1, <2>2, <3>1, <3>2, Failures
  <2> QED BY <2>1, <2>2 DEF Install
<1>4. \A b \in Actors \ {a} : job'[b] = job[b]
  BY <1>3 DEF Only
<1>5. AnchorUpTo(installed)' /\ Whole'
  <2>1. AnchorUpTo(installed) /\ Whole
    BY DEF Story
  <2>2. disk[Anchor] # None => disk[Anchor].pkg \in Nat
    BY <1>1, ContentsAre, DistributionAssumption DEF Types
  <2> QED BY <1>1, <1>2, <2>1, <2>2 DEF AnchorUpTo, Whole, Named
<1>6. ASSUME NEW b \in Actors
      PROVE  AlignInv(b)'
  <2>1. AlignInv(b)
    BY DEF Story
  <2>2. CASE b = a
    BY <1>3, <2>2 DEF AlignInv, Busy, Inside, Writers, At
  <2>3. CASE b # a /\ job[b].at \in Busy
    <3>1. job'[b] = job[b] /\ Fitting(b)
      BY <1>4, <2>1, <2>3 DEF AlignInv
    <3>2. Fitting(b)'
      <4>1. Signed(b)' = Signed(b) /\ Targets(b)' = Targets(b) /\ job'[b].todo = job[b].todo
        BY <3>1 DEF Signed, Targets
      <4>2. Signed(b)' \in 1 .. installed'
        BY <1>1, <1>2, <3>1, <4>1 DEF Fitting
      <4> QED BY <3>1, <4>1, <4>2 DEF Fitting
    <3> QED BY <1>1, <2>1, <3>1, <3>2 DEF AlignInv, Foreseen, Reached, AnchorUpTo, Signed, Targets, Hints, At
  <2>4. CASE b # a /\ job[b].at \notin Busy
    BY <1>4, <2>4 DEF AlignInv, Busy, Inside, Writers, At
  <2> QED BY <2>2, <2>3, <2>4
<1>7. ASSUME NEW q \in Procs
      PROVE  ProcInv(q)'
  <2>1. ProcInv(q) /\ Cli(q) \in Actors /\ Run(q) \in Actors /\ Cli(q) # a /\ job'[Cli(q)] = job[Cli(q)]
    BY <1>4, ActorsAre DEF Story
  <2>2. CliInv(q)'
    <3>1. job[Cli(q)].at \notin Away => job[Cli(q)].version \in Nat /\ job[Cli(q)].version <= installed'
      <4>1. RecordInv(Cli(q))
        BY <2>1 DEF IInv, JobInv
      <4> QED BY <1>1, <1>2, <2>1, <4>1, ActorsAre, VersionsAre DEF RecordInv, ProcInv, CliInv
    <3>2. job[Cli(q)].at \in {"marker", "spawn"} => record'[q] = record[q]
      BY <1>1, <1>3 DEF RunInv, Handed
    <3> QED BY <2>1, <3>1, <3>2 DEF ProcInv, CliInv, Signed
  <2>3. RunInv(q)'
    <3>1. CASE q = p
      BY <1>1, <1>3, <2>1, <3>1 DEF RunInv, ProcInv, Late, Busy, Inside
    <3>2. CASE q # p
      <4>1. job'[Run(q)] = job[Run(q)] /\ record'[q] = record[q]
        BY <1>3, <1>4, <2>1, <3>2, ActorsOf
      <4> QED BY <1>1, <2>1, <4>1 DEF ProcInv, RunInv, Signed
    <3> QED BY <3>1, <3>2
  <2>4. Completed(q)' => Completed(q) /\ record'[q] = record[q]
    BY <1>3 DEF Completed
  <2>5. Completed(q) => record[q].version \in Nat /\ record[q].version <= installed
    BY <1>1, <2>1, VersionsAre DEF ProcInv, RecordPast, Completed, Types, Results
  <2>6. RecordPast(q)' /\ ~(Completed(q)' /\ record'[q].version = installed')
    BY <1>1, <1>2, <2>4, <2>5 DEF RecordPast
  <2>7. ~CliVouches(q)'
    <3>1. job[Cli(q)].at \notin Away => job[Cli(q)].version <= installed
      BY <2>1 DEF ProcInv, CliInv
    <3> QED BY <1>1, <1>2, <2>1, <3>1 DEF CliVouches, At, Away
  <2>8. ~At(Run(q), "aligned")'
    <3>1. CASE q = p
      BY <1>3, <3>1 DEF At
    <3>2. CASE q # p
      <4>1. job'[Run(q)] = job[Run(q)]
        BY <1>4, <2>1, <3>2, ActorsOf
      <4> QED BY <1>2, <2>1, <4>1 DEF ProcInv, RunInv, Late, At
    <3> QED BY <3>1, <3>2
  <2> QED BY <2>2, <2>3, <2>6, <2>7, <2>8 DEF ProcInv, Vouched
<1> QED BY <1>5, <1>6, <1>7 DEF Story

LEMMA RunInstalls ==
  ASSUME IInv, Story, NEW p \in Procs, Install(p)
  PROVE  Story'
<1> DEFINE a == Run(p)
           r == [job[a] EXCEPT !.at = "verify"]
<1>1. /\ job[a].at = "install" /\ UNCHANGED <<disk, mine>> /\ Shapes /\ Types /\ RunInv(p) /\ a \in Actors
  BY CliIs DEF IInv, Install, At, Others
<1>2. CASE installed' # installed
  BY <1>2, Replaced
<1>3. CASE installed' = installed /\ Fail(p)
  BY <1>1, <1>3, RunFails
<1>4. CASE installed' = installed /\ Goto(a, "verify") /\ UNCHANGED record
  <2>1. job' = [job EXCEPT ![a] = r]
    BY <1>1, <1>4 DEF Goto, Shapes
  <2>2. DOMAIN r = JobFields /\ r.at = "verify" /\ r.cmd = job[a].cmd
    BY <1>1 DEF Shapes, JobFields
  <2> HIDE DEF r
  <2>3. record[p].version = Latest /\ job[a].cmd = None
    BY <1>1 DEF RunInv
  <2>4. Completed(p)' => Completed(p) /\ record'[p].version = record[p].version
    BY <1>4 DEF Completed
  <2> QED BY <1>1, <1>4, <2>1, <2>2, <2>3, <2>4, RunGoes
<1> QED BY <1>2, <1>3, <1>4 DEF Install

----------------------------------------------------------------------------
(* align.  A runner, or a command whose version is still the installed     *)
(* one, has planned for the installed version.                             *)
Current(a) == \A p \in Procs : a = Cli(p) => job[a].version = installed

LEMMA SignedIs ==
  ASSUME IInv, Story, NEW a \in Actors, job[a].at \in Busy
  PROVE  /\ Signed(a) \in 1 .. Latest /\ Signed(a) <= installed
         /\ Current(a) => Signed(a) = installed
<1>1. Types /\ Fitting(a) /\ RecordInv(a)
  BY DEF IInv, JobInv, Story, AlignInv
<1>2. Signed(a) \in 1 .. installed /\ installed \in 1 .. Latest
  BY <1>1 DEF Types, Fitting
<1>3. installed \in Nat /\ Signed(a) \in Nat /\ Signed(a) <= installed /\ Signed(a) \in 1 .. Latest
  BY <1>2, VersionsAre, LatestIs
<1>4. ASSUME NEW p \in Procs, a = Run(p)
      PROVE  Signed(a) = installed
  BY <1>4, CliIs DEF RunInv, Late
<1>5. ASSUME NEW p \in Procs, a = Cli(p), Current(a)
      PROVE  Signed(a) = installed
  <2>1. job[a].version <= Signed(a) /\ job[a].version = installed
    BY <1>5, CliIs DEF CliInv, Current
  <2> QED BY <1>3, <2>1
<1> QED BY <1>3, <1>4, <1>5, ActorsOf

LEMMA Concluded ==
  ASSUME IInv, Story, NEW a \in Actors, Aligning(a), Only(a), job'[a].at = "aligned",
         job'[a].version = job[a].version, job'[a].cmd = job[a].cmd,
         UNCHANGED <<disk, mine, installed, record>>,
         job'[a].ok /\ Hints(a) /\ Current(a) => Backed
  PROVE  Story'
<1>1. job[a].at \in {"plan", "lock", "again", "compare", "write"}
  BY DEF Aligning
<1>2. ASSUME NEW p \in Procs, a = Cli(p)
      PROVE  Story'
  <2>1. CliInv(p) /\ RecordPast(p) /\ job'[Run(p)] = job[Run(p)]
    BY <1>2, CliIs DEF Only
  <2>2. CliVouches(p)' => Backed
    <3>1. CliVouches(p)' => job'[a].ok /\ Hints(a) /\ job[a].version = installed
      BY <1>2 DEF CliVouches, At, Hints
    <3>2. job[a].version = installed => Current(a)
      BY <1>2, ActorsOf DEF Current
    <3> QED BY <3>1, <3>2
  <2>3. Vouched(p)' => Vouched(p) \/ Backed
    BY <2>1, <2>2 DEF Vouched, Completed, At
  <2> QED BY <1>1, <1>2, <2>1, <2>3, CliMoves DEF CliInv, RecordPast, Completed, Busy, Inside, Handed, Away
<1>3. ASSUME NEW p \in Procs, a = Run(p)
      PROVE  Story'
  <2>1. RunInv(p) /\ RecordPast(p) /\ job'[Cli(p)] = job[Cli(p)]
    BY <1>3, CliIs DEF Only
  <2>2. job[a].cmd = None /\ record[p].version = Latest /\ installed = Latest
    BY <1>1, <1>3, <2>1 DEF RunInv, Late, Busy, Inside
  <2>3. Hints(a) /\ Current(a)
    BY <1>3, <2>2, ActorsAre, DistributionAssumption DEF Hints, Current
  <2>4. Vouched(p)' => Vouched(p) \/ Backed
    BY <1>3, <2>1, <2>3 DEF Vouched, CliVouches, Completed, At, Hints
  <2> QED BY <1>1, <1>3, <2>1, <2>2, <2>4, RunMoves DEF RecordPast, Completed, Busy, Inside
<1> QED BY <1>2, <1>3, ActorsOf

LEMMA Ends ==
  ASSUME IInv, NEW a \in Actors, NEW ok, End(a, ok)
  PROVE  /\ Only(a) /\ job'[a].at = "aligned" /\ job'[a].version = job[a].version
         /\ job'[a].cmd = job[a].cmd /\ job'[a].ok = ok
<1> DEFINE r == [job[a] EXCEPT !.at = "aligned", !.ok = ok, !.todo = Nothing,
                               !.now = None, !.sign = None, !.locks = {}]
<1>1. DOMAIN r = JobFields /\ job' = [job EXCEPT ![a] = r]
  BY DEF End, IInv, Shapes
<1>2. r.at = "aligned" /\ r.version = job[a].version /\ r.cmd = job[a].cmd /\ r.ok = ok
  BY DEF IInv, Shapes, JobFields
<1> HIDE DEF r
<1> QED BY <1>1, <1>2, Moves DEF IInv

LEMMA Refused ==
  ASSUME IInv, Story, NEW a \in Actors, Aligning(a), End(a, FALSE), UNCHANGED <<disk, mine, installed, record>>
  PROVE  Story'
<1>1. /\ Only(a) /\ job'[a].at = "aligned" /\ job'[a].version = job[a].version
      /\ job'[a].cmd = job[a].cmd /\ job'[a].ok = FALSE
  BY Ends
<1> QED BY <1>1, Concluded

(* align that has gone through all its changes.                            *)
LEMMA Finishes ==
  ASSUME IInv, Story, NEW a \in Actors, Written(a)
  PROVE  Story'
<1>1. /\ job[a].at = "compare" /\ Targets(a) = {} /\ End(a, TRUE) /\ UNCHANGED <<disk, mine, installed, record>>
      /\ Only(a) /\ job'[a].at = "aligned" /\ job'[a].version = job[a].version /\ job'[a].cmd = job[a].cmd
  <2>1. End(a, TRUE) /\ job[a].at = "compare" /\ Targets(a) = {} /\ UNCHANGED <<disk, mine, installed, record>>
    BY DEF Written, At, Package, Others
  <2> QED BY <2>1, Ends
<1>2. ASSUME Hints(a), Current(a)
      PROVE  Backed
  <2>1. Reached(a) /\ Signed(a) = installed /\ lock = a
    <3>1. job[a].at \in Busy /\ job[a].at \in Writers /\ job[a].at \in Inside
      BY <1>1 DEF Busy, Inside, Writers
    <3> QED BY <1>2, <3>1, SignedIs DEF Story, AlignInv, IInv, JobInv, LockInv
  <2>2. \A f \in Wanted(installed, TRUE) \ mine : Good(disk[f], f, installed)
    BY <1>1, <1>2, <2>1 DEF Reached, Hints
  <2>3. \A b \in Actors : job[b].at \in Writers => b = a
    BY <2>1 DEF IInv, JobInv, LockInv, Writers, Inside
  <2> QED BY <2>1, <2>2, <2>3 DEF Backed
<1> QED BY <1>1, <1>2, Concluded DEF Aligning

(* align that goes on.                                                     *)
LEMMA ProcsGo ==
  ASSUME IInv, Story, NEW a \in Actors, Aligning(a), Only(a), job'[a].at \in Busy,
         job'[a].version = job[a].version, job'[a].cmd = job[a].cmd, UNCHANGED <<installed, record>>,
         Signed(a)' = installed \/ (job[a].at \in Busy /\ Signed(a)' = Signed(a)),
         Backed => Backed', NEW p \in Procs
  PROVE  ProcInv(p)'
<1>1. ProcInv(p) /\ Cli(p) \in Actors /\ Run(p) \in Actors
  BY CliIs DEF Story
<1>2. job[a].at \in {"plan"} \union Busy
  BY DEF Aligning, Busy, Inside
<1>3. job[Cli(p)].at \notin Away => job[Cli(p)].version <= installed
  BY <1>1 DEF ProcInv, CliInv
<1>4. CliInv(p)' /\ (job[Cli(p)].at \in Handed => job'[Cli(p)].at \in Handed)
  <2>1. CASE a = Cli(p)
    <3>1. job[a].version <= Signed(a)'
      BY <1>1, <1>2, <1>3, <2>1 DEF ProcInv, CliInv, Busy, Inside, Away
    <3>2. Signed(a)' = job'[a].sign[1]
      BY DEF Signed
    <3> QED BY <1>2, <1>3, <2>1, <3>1, <3>2 DEF CliInv, Signed, Busy, Inside, Away, Handed
  <2>2. CASE a # Cli(p)
    BY <1>1, <2>2 DEF Only, ProcInv, CliInv, Signed
  <2> QED BY <2>1, <2>2
<1>5. RunInv(p)'
  <2>1. CASE a = Run(p)
    <3>1. RunInv(p) /\ installed = Latest /\ record[p].version = Latest /\ job[a].at # "idle"
      BY <1>1, <1>2, <2>1 DEF ProcInv, RunInv, Late, Busy, Inside
    <3>2. Signed(a)' = Latest
      BY <2>1, <3>1 DEF RunInv
    <3>3. Signed(a)' = job'[a].sign[1]
      BY DEF Signed
    <3> QED BY <1>4, <2>1, <3>1, <3>2, <3>3 DEF RunInv, Signed
  <2>2. CASE a # Run(p)
    BY <1>1, <1>4, <2>2 DEF Only, ProcInv, RunInv, Signed
  <2> QED BY <2>1, <2>2
<1>6. RecordPast(p)'
  BY <1>1 DEF ProcInv, RecordPast, Completed
<1>7. Vouched(p)' => Vouched(p)
  <2>1. job'[a].at \notin {"record", "aligned"}
    BY DEF Busy, Inside
  <2>2. CliVouches(p)' => CliVouches(p)
    BY <1>1, <2>1 DEF CliVouches, Only, At, Hints
  <2>3. At(Run(p), "aligned")' => job'[Run(p)] = job[Run(p)]
    BY <1>1, <2>1 DEF Only, At
  <2> QED BY <2>2, <2>3 DEF Vouched, Completed, At
<1> QED BY <1>1, <1>4, <1>5, <1>6, <1>7 DEF ProcInv

LEMMA Prepares ==
  ASSUME IInv, Story, NEW a \in Actors, Aligning(a), Only(a), job'[a].at \in Busy,
         job'[a].version = job[a].version, job'[a].cmd = job[a].cmd, UNCHANGED <<disk, mine, installed, record>>,
         Signed(a)' = installed \/ (job[a].at \in Busy /\ Signed(a)' = Signed(a)),
         job'[a].at \in Writers => Signed(a)' = installed \/ job[a].at \in Writers,
         AlignInv(a)'
  PROVE  Story'
<1>1. AnchorUpTo(installed)' /\ Whole'
  BY DEF Story, AnchorUpTo, Whole, Named
<1>2. ASSUME NEW b \in Actors, b # a
      PROVE  AlignInv(b)'
  <2>1. AlignInv(b) /\ job'[b] = job[b]
    BY <1>2 DEF Story, Only
  <2> QED BY <2>1 DEF AlignInv, Fitting, Foreseen, Reached, AnchorUpTo, Signed, Targets, Hints, At
<1>3. Backed => Backed'
  <2>1. ASSUME Backed, NEW b \in Actors, job'[b].at \in Writers
        PROVE  Signed(b)' = installed
    <3>1. CASE b = a
      BY <2>1, <3>1 DEF Backed
    <3>2. CASE b # a
      <4>1. job'[b] = job[b]
        BY <3>2 DEF Only
      <4> QED BY <2>1, <4>1 DEF Backed, Signed
    <3> QED BY <3>1, <3>2
  <2> QED BY <2>1 DEF Backed
<1>4. \A p \in Procs : ProcInv(p)'
  BY <1>3, ProcsGo
<1> QED BY <1>1, <1>2, <1>4 DEF Story

LEMMA Plans ==
  ASSUME IInv, Story, NEW a \in Actors, Plan(a)
  PROVE  Story'
<1> DEFINE hints   == Hints(a)
           changes == Changes(disk, installed, hints)
<1>1. /\ Types /\ Shapes /\ job[a].at = "plan" /\ UNCHANGED <<disk, mine, installed, record>>
      /\ disk \in Disks /\ installed \in 1 .. Latest /\ hints \in BOOLEAN /\ Aligning(a)
  BY HintsAre DEF IInv, Types, Plan, At, Package, Others, Aligning
<1>2. CASE End(a, FALSE)
  BY <1>1, <1>2, Refused
<1>3. CASE ~Blocked(disk, installed, hints)
  <2> DEFINE r == [job[a] EXCEPT
                     !.at = IF DOMAIN changes = {} THEN "aligned" ELSE "lock", !.todo = changes, !.ok = TRUE,
                     !.sign = IF DOMAIN changes = {} THEN None ELSE Signature(disk, installed, hints),
                     !.touched = DOMAIN changes # {}]
  <2>1. job' = [job EXCEPT ![a] = r]
    BY <1>3 DEF Plan
  <2>2. DOMAIN r = JobFields /\ r.version = job[a].version /\ r.cmd = job[a].cmd /\ r.todo = changes
    BY <1>1 DEF Shapes, JobFields
  <2>3. r.at = IF DOMAIN changes = {} THEN "aligned" ELSE "lock"
    BY <1>1 DEF Shapes, JobFields
  <2>4. DOMAIN changes # {} => r.sign = Signature(disk, installed, hints)
    BY <1>1 DEF Shapes, JobFields
  <2> HIDE DEF r
  <2>5. Only(a) /\ job'[a] = r
    BY <1>1, <2>1, <2>2, Moves
  <2>6. /\ \A f \in DOMAIN changes \intersect Wanted(installed, TRUE) : Good(changes[f].content, f, installed)
        /\ \A f \in Wanted(installed, hints) \ DOMAIN changes : Good(disk[f], f, installed)
    BY <1>1, Intending
  <2>7. CASE DOMAIN changes = {}
    <3>1. ASSUME hints
          PROVE  Backed
      <4>1. \A f \in Wanted(installed, TRUE) : Good(disk[f], f, installed)
        BY <2>6, <2>7, <3>1 DEF Wanted
      <4>2. disk[Anchor] = Text(installed, 0) /\ Text(installed, 0) # None /\ installed \in Nat
        BY <1>1, <4>1, PackagesAre, TextIs, VersionsAre, AnchorAssumption DEF Good
      <4>3. ASSUME NEW b \in Actors, job[b].at \in Writers
            PROVE  Signed(b) = installed
        <5>1. job[b].at \in Busy /\ Reached(b)
          BY <4>3 DEF Story, AlignInv, Writers, Busy, Inside
        <5>2. installed <= Signed(b)
          BY <4>2, <5>1, TextIs DEF Reached, AnchorUpTo
        <5>3. Signed(b) \in 1 .. Latest /\ Signed(b) <= installed
          BY <5>1, SignedIs
        <5> QED BY <4>2, <5>2, <5>3, VersionsAre
      <4> QED BY <4>1, <4>3 DEF Backed
    <3> QED BY <1>1, <2>2, <2>3, <2>5, <2>7, <3>1, Concluded
  <2>8. CASE DOMAIN changes # {}
    <3>1. r.at = "lock" /\ r.sign = Signature(disk, installed, hints) /\ Signed(a)' = installed
      BY <1>1, <2>3, <2>4, <2>5, <2>8, Matching DEF Signed
    <3>2. Targets(a)' = DOMAIN changes /\ Hints(a)' = hints
      BY <2>2, <2>5 DEF Targets, Hints
    <3>3. Fitting(a)'
      <4>1. installed \in 1 .. installed'
        BY <1>1, VersionsAre
      <4> QED BY <1>1, <2>2, <2>5, <2>6, <3>1, <3>2, <4>1 DEF Fitting
    <3>4. Foreseen(a)'
      <4>1. \A f \in Wanted(installed, hints) : job'[a].sign[2][f] = disk[f]
        BY <1>1, <2>5, <3>1, Matching
      <4> QED BY <2>6, <3>1, <3>2, <4>1 DEF Foreseen
    <3>5. AlignInv(a)'
      BY <2>5, <3>1, <3>3, <3>4 DEF AlignInv, Writers, At
    <3> QED BY <1>1, <2>2, <2>5, <3>1, <3>5, Prepares DEF Busy, Writers
  <2> QED BY <2>7, <2>8
<1> QED BY <1>2, <1>3 DEF Plan

LEMMA Stepped ==
  ASSUME IInv, NEW a \in Actors, NEW r, DOMAIN r = JobFields, job' = [job EXCEPT ![a] = r],
         r.version = job[a].version, r.cmd = job[a].cmd, r.todo = job[a].todo, r.sign = job[a].sign
  PROVE  /\ Only(a) /\ job'[a] = r /\ job'[a].version = job[a].version /\ job'[a].cmd = job[a].cmd
         /\ Targets(a)' = Targets(a) /\ Signed(a)' = Signed(a) /\ Hints(a)' = Hints(a)
         /\ installed' = installed => (Fitting(a) => Fitting(a)') /\ (Foreseen(a) => Foreseen(a)')
         /\ UNCHANGED <<disk, mine>> => (Reached(a) => Reached(a)')
<1>1. Only(a) /\ job'[a] = r
  BY Moves DEF IInv
<1>2. Targets(a)' = Targets(a) /\ Signed(a)' = Signed(a) /\ Hints(a)' = Hints(a)
  BY <1>1 DEF Targets, Signed, Hints
<1> QED BY <1>1, <1>2 DEF Fitting, Foreseen, Reached, AnchorUpTo

LEMMA Locked ==
  ASSUME IInv, Story, NEW a \in Actors, Lock(a)
  PROVE  Story'
<1>1. /\ Shapes /\ job[a].at = "lock" /\ UNCHANGED <<disk, mine, installed, record>>
      /\ Aligning(a) /\ AlignInv(a)
  BY DEF IInv, Lock, At, Package, Others, Aligning, Story
<1>2. CASE End(a, FALSE)
  BY <1>1, <1>2, Refused
<1>3. CASE job' = [job EXCEPT ![a] = [@ EXCEPT !.at = "again", !.locks = Targets(a)]]
  <2> DEFINE r == [job[a] EXCEPT !.at = "again", !.locks = Targets(a)]
  <2>1. job' = [job EXCEPT ![a] = r]
    BY <1>3
  <2>2. /\ DOMAIN r = JobFields /\ r.at = "again" /\ r.sign = job[a].sign
        /\ r.version = job[a].version /\ r.todo = job[a].todo /\ r.cmd = job[a].cmd
    BY <1>1 DEF Shapes, JobFields
  <2> HIDE DEF r
  <2>3. AlignInv(a)' /\ Only(a) /\ job'[a] = r /\ Signed(a)' = Signed(a)
    BY <1>1, <2>1, <2>2, Stepped DEF AlignInv, Busy, Inside, Writers, At
  <2> QED BY <1>1, <2>2, <2>3, Prepares DEF Busy, Inside, Writers
<1> QED BY <1>2, <1>3 DEF Lock

LEMMA PlansAgain ==
  ASSUME IInv, Story, NEW a \in Actors, PlanAgain(a)
  PROVE  Story'
<1>1. /\ Shapes /\ job[a].at = "again" /\ UNCHANGED <<disk, mine, installed, record>>
      /\ Aligning(a) /\ AlignInv(a) /\ disk \in Disks /\ installed \in 1 .. Latest /\ Hints(a) \in BOOLEAN
  BY HintsAre DEF IInv, Types, PlanAgain, At, Package, Others, Aligning, Story
<1>2. CASE End(a, FALSE)
  BY <1>1, <1>2, Refused
<1>3. CASE SamePlan(a) /\ Goto(a, "compare")
  <2> DEFINE r == [job[a] EXCEPT !.at = "compare"]
  <2>1. job' = [job EXCEPT ![a] = r]
    BY <1>1, <1>3 DEF Goto, Shapes
  <2>2. /\ DOMAIN r = JobFields /\ r.at = "compare" /\ r.sign = job[a].sign
        /\ r.version = job[a].version /\ r.todo = job[a].todo /\ r.cmd = job[a].cmd
    BY <1>1 DEF Shapes, JobFields
  <2> HIDE DEF r
  <2>3. Signed(a) = installed /\ \A f \in Wanted(installed, Hints(a)) : job[a].sign[2][f] = disk[f]
    BY <1>1, <1>3, Matching DEF SamePlan, Signed
  <2>4. Reached(a)
    <3>1. AnchorUpTo(installed)
      BY DEF Story
    <3> QED BY <1>1, <2>3, <3>1 DEF AlignInv, Foreseen, Reached
  <2>5. AlignInv(a)' /\ Only(a) /\ job'[a] = r /\ Signed(a)' = Signed(a)
    BY <1>1, <2>1, <2>2, <2>4, Stepped DEF AlignInv, Busy, Inside, Writers, At
  <2> QED BY <1>1, <2>2, <2>3, <2>5, Prepares DEF Busy, Inside, Writers
<1> QED BY <1>2, <1>3 DEF PlanAgain

LEMMA Compares ==
  ASSUME IInv, Story, NEW a \in Actors, Compare(a)
  PROVE  Story'
<1>1. /\ Shapes /\ job[a].at = "compare" /\ UNCHANGED <<disk, mine, installed, record>>
      /\ Aligning(a) /\ AlignInv(a) /\ JobInv(a)
  BY DEF IInv, Compare, At, Package, Others, Aligning, Story
<1>2. CASE End(a, FALSE)
  BY <1>1, <1>2, Refused
<1>3. ASSUME NEW f \in Targets(a), First(a, f), job' = [job EXCEPT ![a] = [@ EXCEPT !.at = "write", !.now = f]]
      PROVE  Story'
  <2> DEFINE r == [job[a] EXCEPT !.at = "write", !.now = f]
  <2>1. job' = [job EXCEPT ![a] = r]
    BY <1>3
  <2>2. /\ DOMAIN r = JobFields /\ r.at = "write" /\ r.sign = job[a].sign /\ r.now = f
        /\ r.version = job[a].version /\ r.todo = job[a].todo /\ r.cmd = job[a].cmd
    BY <1>1 DEF Shapes, JobFields
  <2> HIDE DEF r
  <2>3. Anchor \in Targets(a) => f \in {Anchor, Hint, Ledger}
    <3>1. ASSUME Anchor \in Targets(a), f \notin {Anchor, Hint, Ledger}
          PROVE  FALSE
      <4>1. f \in Files
        BY <1>1, <1>3, <3>1 DEF JobInv, PlanInv, Busy, Inside, Paths
      <4>2. Rank[Anchor] < Rank[f] /\ Rank[Anchor] \in Nat /\ Rank[f] \in Nat
        BY <4>1, <3>1, AnchorAssumption, DistributionAssumption
      <4>3. Place(f) = Rank[f] /\ Place(Anchor) = Rank[Anchor]
        BY <3>1, DistributionAssumption DEF Place
      <4>4. Place(f) <= Place(Anchor)
        BY <1>3, <3>1 DEF First
      <4> QED BY <4>2, <4>3, <4>4
    <3> QED BY <3>1
  <2>4. AlignInv(a)' /\ Only(a) /\ job'[a] = r /\ Signed(a)' = Signed(a)
    BY <1>1, <2>1, <2>2, <2>3, Stepped DEF AlignInv, Busy, Inside, Writers, At
  <2> QED BY <1>1, <2>2, <2>4, Prepares DEF Busy, Inside, Writers
<1> QED BY <1>2, <1>3 DEF Compare

(* A write: SKILL.md is written before the files that it names, and a file *)
(* of the package is as the plan foresaw it.                               *)
LEMMA Writes ==
  ASSUME IInv, Story, NEW a \in Actors, Write(a)
  PROVE  Story'
<1> DEFINE f    == job[a].now
           v    == Signed(a)
           rest == [g \in Targets(a) \ {f} |-> job[a].todo[g]]
           r    == [job[a] EXCEPT !.at = "compare", !.now = None, !.todo = rest]
<1>1. /\ Shapes /\ Types /\ job[a].at = "write" /\ UNCHANGED <<installed, record>> /\ mine' = mine \ {f}
      /\ disk' = [disk EXCEPT ![f] = job[a].todo[f].content] /\ job' = [job EXCEPT ![a] = r]
      /\ Aligning(a) /\ AlignInv(a) /\ JobInv(a)
  BY DEF IInv, Write, At, Package, Aligning, Story
<1>2. f \in Targets(a) /\ Targets(a) \subseteq Paths /\ lock = a /\ Fitting(a) /\ Reached(a)
  BY <1>1 DEF JobInv, PlanInv, LockInv, AlignInv, Busy, Inside, Writers
<1>3. v \in 1 .. Latest /\ v \in Nat /\ v <= installed /\ installed \in Nat
  BY <1>1, SignedIs, VersionsAre DEF Types, Busy, Inside
<1>4. disk'[f] = job[a].todo[f].content /\ \A g \in Paths \ {f} : disk'[g] = disk[g]
  BY <1>1, <1>2 DEF Types, Disks
<1>5. /\ DOMAIN r = JobFields /\ r.at = "compare" /\ r.sign = job[a].sign
      /\ r.version = job[a].version /\ r.todo = rest /\ r.cmd = job[a].cmd
  BY <1>1 DEF Shapes, JobFields
<1>6. DOMAIN rest = Targets(a) \ {f} /\ \A g \in DOMAIN rest : rest[g] = job[a].todo[g]
  OBVIOUS
<1> HIDE DEF r, rest
<1>7. Only(a) /\ job'[a] = r
  BY <1>1, <1>5, Moves DEF IInv
<1>8. /\ Targets(a)' = Targets(a) \ {f} /\ Signed(a)' = v /\ Hints(a)' = Hints(a)
      /\ \A g \in Targets(a)' : job'[a].todo[g] = job[a].todo[g]
  BY <1>5, <1>6, <1>7 DEF Targets, Signed, Hints
<1> HIDE DEF f, v
<1>9. Anchor \in Wanted(v, Hints(a)) /\ Anchor \in Wanted(v, TRUE) /\ Anchor \in Paths /\ Anchor # Hint
      /\ Wanted(v, Hints(a)) \subseteq Wanted(v, TRUE) /\ Wanted(v, TRUE) \subseteq Files /\ Ledger \notin Files
  BY <1>3, PackagesAre, HintsAre, AnchorAssumption, DistributionAssumption DEF Wanted, Paths
<1>10. f \in Wanted(v, TRUE) => Good(disk'[f], f, v)
  BY <1>2, <1>4 DEF Fitting, v
<1>11. f = Anchor => disk'[Anchor] = Text(v, 0)
  BY <1>9, <1>10 DEF Good
<1>12. ASSUME NEW x \in {v, installed}
       PROVE  AnchorUpTo(x) => (f = Anchor \/ disk'[Anchor] = disk[Anchor]) /\ (disk'[Anchor] # None /\ disk'[Anchor].text = 0 => disk'[Anchor].pkg <= x)
  <2>1. CASE f = Anchor
    BY <1>3, <1>11, <2>1, TextIs
  <2>2. CASE f # Anchor
    BY <1>4, <1>9, <2>2 DEF AnchorUpTo
  <2> QED BY <2>1, <2>2
<1>13. Whole'
  <2>1. Whole
    BY DEF Story
  <2>2. CASE f = Anchor
    BY <1>3, <1>11, <2>2, TextIs DEF Whole, Named
  <2>3. CASE f \in {Hint, Ledger}
    BY <1>1, <1>4, <1>9, <2>1, <2>3, DistributionAssumption DEF Whole, Named, Paths, f
  <2>4. CASE f \notin {Anchor, Hint, Ledger}
    <3>1. Anchor \notin Targets(a)
      BY <1>1, <2>4 DEF AlignInv, At, f
    <3>2. Anchor \in mine \/ disk[Anchor] = Text(v, 0)
      BY <1>2, <1>9, <3>1 DEF Reached, Good, v
    <3>3. disk'[Anchor] = disk[Anchor] /\ (Anchor \in mine => Anchor \in mine')
      BY <1>1, <1>4, <1>9, <2>4 DEF f
    <3> QED BY <1>3, <3>2, <3>3, TextIs DEF Whole, Named
  <2> QED BY <2>2, <2>3, <2>4
<1>14. Reached(a)'
  <2>1. AnchorUpTo(Signed(a))'
    BY <1>2, <1>8, <1>12 DEF Reached, AnchorUpTo, v
  <2>2. ASSUME NEW g \in Wanted(v, Hints(a)), g \notin mine', g \notin Targets(a)'
        PROVE  Good(disk'[g], g, v)
    <3>1. CASE g = f
      BY <1>9, <1>10, <3>1
    <3>2. CASE g # f
      <4>1. g \notin mine /\ g \notin Targets(a) /\ disk'[g] = disk[g]
        BY <1>1, <1>4, <1>8, <1>9, <2>2, <3>2 DEF Paths, f
      <4> QED BY <1>2, <4>1 DEF Reached, v
    <3> QED BY <3>1, <3>2
  <2> QED BY <1>8, <2>1, <2>2 DEF Reached
<1>15. AlignInv(a)'
  <2>1. Fitting(a)'
    BY <1>1, <1>2, <1>8 DEF Fitting, v
  <2> QED BY <1>5, <1>7, <1>14, <2>1 DEF AlignInv, At
<1>16. ASSUME NEW b \in Actors, b # a
       PROVE  AlignInv(b)' /\ job'[b].at \notin Writers
  <2>1. AlignInv(b) /\ LockInv(b) /\ job'[b] = job[b]
    BY <1>7, <1>16 DEF Story, IInv, JobInv, Only
  <2>2. job[b].at \notin Writers
    BY <1>2, <1>16, <2>1 DEF LockInv, Writers, Inside
  <2> QED BY <1>1, <2>1, <2>2 DEF AlignInv, Fitting, Foreseen, Signed, Targets, Hints, At, Writers
<1>17. Backed => Backed'
  <2>1. ASSUME Backed
        PROVE  v = installed
    BY <1>1, <2>1 DEF Backed, Writers, v
  <2>2. ASSUME Backed, NEW g \in Wanted(installed, TRUE), g \notin mine'
        PROVE  Good(disk'[g], g, installed)
    <3>1. CASE g = f
      BY <1>10, <2>1, <2>2, <3>1
    <3>2. CASE g # f
      <4>1. g \notin mine /\ disk'[g] = disk[g]
        BY <1>1, <1>4, <1>9, <2>1, <2>2, <3>2 DEF Paths, f
      <4> QED BY <2>2, <4>1 DEF Backed
    <3> QED BY <3>1, <3>2
  <2>3. ASSUME Backed, NEW b \in Actors, job'[b].at \in Writers
        PROVE  Signed(b)' = installed
    BY <1>8, <1>16, <2>1, <2>3
  <2> QED BY <1>1, <2>2, <2>3 DEF Backed
<1>18. \A p \in Procs : ProcInv(p)'
  BY <1>1, <1>5, <1>7, <1>8, <1>17, ProcsGo DEF Busy, Inside, v
<1>19. AnchorUpTo(installed)'
  BY <1>1, <1>12 DEF Story, AnchorUpTo
<1> QED BY <1>13, <1>15, <1>16, <1>18, <1>19 DEF Story

----------------------------------------------------------------------------
(* The user saves a file; the beginning; every step.                       *)
LEMMA Edits ==
  ASSUME IInv, Story, Edit
  PROVE  Story'
<1>1. PICK save \in Saves : disk' = [disk EXCEPT ![save[1]] = save[2]] /\ mine' = mine \union {save[1]}
  BY DEF Edit
<1> DEFINE f == save[1]
<1>2. Types /\ UNCHANGED <<installed, record, job>> /\ f \in Paths /\ Anchor \in Paths
  BY DistributionAssumption DEF IInv, Edit, Package, Paths
<1>3. disk'[f] = save[2] /\ \A g \in Paths \ {f} : disk'[g] = disk[g]
  BY <1>1, <1>2 DEF Types, Disks
<1>4. f = Anchor => disk'[Anchor] = None \/ disk'[Anchor].text # 0
  BY <1>3, AnchorAssumption
<1> HIDE DEF f
<1>5. \A x : AnchorUpTo(x) => (disk'[Anchor] # None /\ disk'[Anchor].text = 0 => disk'[Anchor].pkg <= x)
  BY <1>2, <1>3, <1>4 DEF AnchorUpTo
<1>6. AnchorUpTo(installed)'
  BY <1>2, <1>5 DEF Story, AnchorUpTo
<1>7. mine' = mine \union {f}
  BY <1>1 DEF f
<1>8. Whole'
  <2>1. Whole
    BY DEF Story
  <2>2. CASE f # Anchor
    BY <1>2, <1>3, <1>7, <2>1, <2>2 DEF Whole, Named, Paths
  <2> QED BY <1>7, <2>2 DEF Whole
<1>9. ASSUME NEW a \in Actors
      PROVE  AlignInv(a)'
  <2>1. AlignInv(a) /\ Signed(a)' = Signed(a) /\ Targets(a)' = Targets(a) /\ Hints(a)' = Hints(a)
    BY <1>2 DEF Story, Signed, Targets, Hints
  <2>2. Reached(a) /\ Signed(a) \in 1 .. Latest => Reached(a)'
    <3>1. ASSUME Reached(a), Signed(a) \in 1 .. Latest, NEW g \in Wanted(Signed(a), Hints(a)),
                 g \notin mine' \union Targets(a)
          PROVE  Good(disk'[g], g, Signed(a))
      <4>1. g \notin mine /\ g # f /\ g \in Paths
        BY <1>7, <3>1, PackagesAre, HintsAre DEF Paths
      <4> QED BY <1>3, <3>1, <4>1 DEF Reached
    <3>2. Reached(a) => AnchorUpTo(Signed(a))'
      BY <1>5, <2>1 DEF Reached, AnchorUpTo
    <3> QED BY <2>1, <3>1, <3>2 DEF Reached
  <2>3. job[a].at \in Busy => Signed(a) \in 1 .. Latest
    BY SignedIs
  <2> QED BY <1>2, <2>1, <2>2, <2>3 DEF AlignInv, Fitting, Foreseen, Writers, Busy, Inside, At
<1>10. Backed => Backed'
  <2>1. ASSUME Backed, NEW g \in Wanted(installed, TRUE) \ mine'
        PROVE  Good(disk'[g], g, installed)
    <3>1. g \notin mine /\ g # f /\ g \in Paths
      BY <1>2, <1>7, <2>1, PackagesAre DEF Paths, Types
    <3> QED BY <1>3, <2>1, <3>1 DEF Backed
  <2> QED BY <1>2, <2>1 DEF Backed, Signed
<1>11. ASSUME NEW p \in Procs
       PROVE  ProcInv(p)'
  BY <1>2, <1>10 DEF Story, ProcInv, CliInv, RunInv, RecordPast, Completed, Vouched, CliVouches, Signed, Hints, At
<1> QED BY <1>6, <1>8, <1>9, <1>11 DEF Story

LEMMA StoryBegins ==
  ASSUME Init
  PROVE  Story
<1>1. /\ disk \in Starts /\ disk \in Disks /\ installed = 1 /\ mine = {f \in Files : disk[f] # None /\ disk[f].text # 0}
      /\ \A p \in Procs : record[p] = None
  BY DistributionAssumption DEF Init
<1>2. \A a \in Actors : job[a].at = "idle" /\ job[a].cmd = None
  BY DEF Init, Idle
<1>3. AnchorUpTo(installed) /\ Whole
  <2>1. IF disk[Anchor] = None THEN \A f \in Files \ {Hint} : disk[f] = None \/ disk[f].text # 0
                               ELSE disk[Anchor].text = 0 => disk[Anchor].pkg <= 1
    BY <1>1, AnchorAssumption
  <2>2. Whole
    BY <1>1, <2>1, DistributionAssumption DEF Whole, Named
  <2> QED BY <1>1, <2>1, <2>2 DEF AnchorUpTo
<1>4. \A a \in Actors : AlignInv(a)
  BY <1>2 DEF AlignInv, Busy, Inside, Writers, At
<1>5. \A p \in Procs : ProcInv(p)
  BY <1>1, <1>2, ActorsAre
  DEF ProcInv, CliInv, RunInv, RecordPast, Completed, Vouched, CliVouches, Late, Busy, Inside, Away, At
<1> QED BY <1>3, <1>4, <1>5 DEF Story

LEMMA Aligns ==
  ASSUME IInv, Story, NEW a \in Actors, AlignStep(a)
  PROVE  Story'
<1>1. CASE WriteFails(a)
  BY <1>1, Refused DEF WriteFails, At, Aligning, Package, Others
<1> QED BY <1>1, Plans, Locked, PlansAgain, Compares, Writes, Finishes DEF AlignStep

LEMMA StoryGoesOn ==
  ASSUME IInv, Story, [Next]_vars
  PROVE  Story'
<1>1. ASSUME NEW p \in Procs, CliStep(p)
      PROVE  Story'
  <2>1. CASE AlignStep(Cli(p))
    BY <2>1, Aligns, ActorsAre
  <2> QED BY <1>1, <2>1, CliStarts, CliConcludes, CliRecords, CliHands, CliSpawns DEF CliStep
<1>2. ASSUME NEW p \in Procs, RunStep(p) \/ Timeout(p)
      PROVE  Story'
  <2>1. CASE AlignStep(Run(p))
    BY <2>1, Aligns, ActorsAre
  <2> QED BY <1>2, <2>1, RunBegins, RunInstalls, RunJudges, RunTimesOut DEF RunStep
<1>3. CASE UNCHANGED vars
  BY <1>3 DEF vars, Story, AnchorUpTo, Whole, Named, AlignInv, Fitting, Foreseen, Reached, ProcInv, CliInv, RunInv,
              RecordPast, Completed, Vouched, CliVouches, Backed, Signed, Targets, Hints, At
<1> QED BY <1>1, <1>2, <1>3, Deaths, Edits DEF Next

LEMMA Orphans ==
  ASSUME IInv, Story
  PROVE  NothingOrphaned
<1>1. Types /\ Whole
  BY DEF IInv, Story
<1>2. ASSUME NEW f \in Conflicts(disk, installed, TRUE), Anchor \notin mine
      PROVE  f \in mine
  <2>1. f \in Files /\ Managed(disk, f) /\ ~Legacy(disk, f) /\ f \notin Owned(disk)
    BY <1>1, PackagesAre DEF Conflicts, Types
  <2>2. f # Hint /\ ~Named(disk) /\ disk[f] # None
    BY <2>1 DEF Legacy, Managed
  <2> QED BY <1>1, <1>2, <2>1, <2>2 DEF Whole
<1> QED BY <1>2 DEF NothingOrphaned

LEMMA Truthful ==
  ASSUME IInv, Story
  PROVE  CompletedMeansAligned
<1>1. ASSUME NEW p \in Procs, record[p] # None, record[p].state = "completed", record[p].version = installed,
             NEW f \in Wanted(installed, TRUE) \ mine
      PROVE  disk[f] = Aligned(disk, f, installed)
  <2>1. Vouched(p) /\ ProcInv(p)
    BY <1>1 DEF Vouched, Completed, Story
  <2>2. Good(disk[f], f, installed)
    BY <1>1, <2>1 DEF ProcInv, Backed
  <2> QED BY <1>1, <2>2, GoodIsAligned DEF IInv, Types
<1> QED BY <1>1 DEF CompletedMeansAligned

(* Whatever was killed, failed or timed out half way, and in whatever      *)
(* order, a later plan never takes a file that campfire wrote for someone  *)
(* else's: SKILL.md is there, unless the user has touched it               *)
(* (AgentResourceService.plan, _legacy_skill, align).                      *)
THEOREM NoOrphans == Spec => []NothingOrphaned
<1>1. Init => IInv /\ Story
  BY Initially, StoryBegins
<1>2. IInv /\ Story /\ [Next]_vars => (IInv /\ Story)'
  BY Preserving, StoryGoesOn DEF Preserved
<1>3. IInv /\ Story => NothingOrphaned
  BY Orphans
<1> QED BY <1>1, <1>2, <1>3, PTL DEF Spec

(* A record that says `completed' for the installed version is true: what  *)
(* that version brings is on the disk, but for what the user has changed   *)
(* (PackageUpdater._run, UpgradeService.upgrade).                          *)
THEOREM CompletedIsTrue == Spec => []CompletedMeansAligned
<1>1. Init => IInv /\ Story
  BY Initially, StoryBegins
<1>2. IInv /\ Story /\ [Next]_vars => (IInv /\ Story)'
  BY Preserving, StoryGoesOn DEF Preserved
<1>3. IInv /\ Story => CompletedMeansAligned
  BY Truthful
<1> QED BY <1>1, <1>2, <1>3, PTL DEF Spec
=============================================================================
