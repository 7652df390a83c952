------------------------- MODULE RestructureProofs -------------------------
(***************************************************************************)
(* What apply guarantees when nobody changes the Vault between its         *)
(* preflight and its hashing of what it has read (~Disturb): for any       *)
(* number of processes, batches, documents and plans, with edits at any    *)
(* other moment, other commands, new configurations and kills.  The types  *)
(* at the end do not need the condition.                                   *)
(***************************************************************************)
EXTENDS Restructure, TLAPS

Moment == {"checked", "read", "hashed", "locked", "compared"}

(* A step of others that leaves the files alone.                           *)
LEMMA OthersKeepSound ==
  ASSUME NEW q \in Procs, Sound(q), pc'[q] = pc[q], job'[q] = job[q], files' = files
  PROVE  Sound(q)'
  BY DEF Sound, SourcesStand, ReadIsCurrent, ExpectedIsRead, ExpectedIsCurrent,
         AsExpected, Items, Paths, Targets, Hashed, IsText, ReadText

(* A change of the files outside the window and the comparison.            *)
LEMMA EditsKeepSound ==
  ASSUME NEW q \in Procs, Sound(q), pc'[q] = pc[q], job'[q] = job[q],
         pc[q] \notin {"checked", "read", "compared"}
  PROVE  Sound(q)'
  BY DEF Sound, SourcesStand, ReadIsCurrent, ExpectedIsRead, ExpectedIsCurrent,
         Items, Paths, Targets, Hashed, IsText, ReadText

LEMMA OutsideIsSound ==
  ASSUME NEW q \in Procs, pc'[q] \notin Moment
  PROVE  Sound(q)'
  BY DEF Sound, SourcesStand, ReadIsCurrent, ExpectedIsRead, ExpectedIsCurrent, Moment, Hashed

JobShape(j) ==
  j = [batch |-> j.batch, config |-> j.config, stamp |-> j.stamp, spec |-> j.spec,
       inv |-> j.inv, plan |-> j.plan, read |-> j.read, expected |-> j.expected]

(* A step that moves one process and neither the files nor another's lock. *)
Moves(p) ==
  /\ pc' = [pc EXCEPT ![p] = pc'[p]]
  /\ job' = [job EXCEPT ![p] = job'[p]] /\ JobShape(job'[p])
  /\ files' = files
  /\ (lock' = lock \/ (lock = p /\ lock' = NoLock))

LEMMA MovesKeepOthers ==
  ASSUME IInv, NEW p \in Procs, Moves(p)
  PROVE  /\ FilesAreTexts' /\ JobsAreRecords'
         /\ \A q \in Procs \ {p} : pc'[q] = pc[q] /\ job'[q] = job[q] /\ Sound(q)'
  <1>1. JobsAreRecords'
    BY DEF IInv, Moves, JobsAreRecords, JobShape
  <1>2. FilesAreTexts'
    BY DEF IInv, Moves, FilesAreTexts, Paths, IsText
  <1>3. ASSUME NEW q \in Procs \ {p}
        PROVE  pc'[q] = pc[q] /\ job'[q] = job[q]
    BY DEF IInv, Moves, JobsAreRecords
  <1>4. ASSUME NEW q \in Procs \ {p} PROVE Sound(q)'
    BY <1>3, OthersKeepSound DEF IInv, Moves
  <1>5. QED
    BY <1>1, <1>2, <1>3, <1>4

(* A process moves on, outside apply or to the end of its command.         *)
LEMMA QuietStep ==
  ASSUME IInv, NEW p \in Procs, Moves(p), pc'[p] \notin Moment, lock' # p
  PROVE  IInv'
  <1>1. LockIsHeld'
    BY MovesKeepOthers, NoLockAssumption DEF IInv, LockIsHeld, Moves, Moment
  <1>2. Sound(p)'
    BY OutsideIsSound
  <1>3. QED
    BY <1>1, <1>2, MovesKeepOthers DEF IInv

LEMMA NoJobShape == JobShape(NoJob)
  BY DEF JobShape, NoJob

(* A command starts or ends.                                               *)
LEMMA BeginStep ==
  ASSUME IInv, NEW p \in Procs, NEW b, NEW stage, NEW spec, Begin(p, b, stage, spec),
         stage \notin Moment
  PROVE  IInv'
  <1>1. Moves(p) /\ pc'[p] \notin Moment
    BY DEF Begin, Moves, Goto, IInv, JobsAreRecords, JobShape, NoJob
  <1>2. lock' # p
    BY DEF Begin, IInv, LockIsHeld
  <1>3. QED
    BY <1>1, <1>2, QuietStep

LEMMA EndStep ==
  ASSUME IInv, NEW p \in Procs, End(p), files' = files,
         (lock' = lock /\ lock # p) \/ (lock = p /\ lock' = NoLock)
  PROVE  IInv'
  <1>1. Moves(p) /\ pc'[p] \notin Moment
    BY NoJobShape DEF End, Moves, Goto, IInv, JobsAreRecords, Moment
  <1>2. lock' # p
    BY NoLockAssumption
  <1>3. QED
    BY <1>1, <1>2, QuietStep

LEMMA InventoryKeepsIInv ==
  ASSUME IInv, NEW p \in Procs, InventoryStep(p)
  PROVE  IInv'
  <1>1. CASE Freeze(p) \/ SaveBatch(p) \/ SaveInventory(p)
    <2>1. Moves(p) /\ pc'[p] \notin Moment
      BY <1>1 DEF Freeze, SaveBatch, SaveInventory, Moves, Goto, Moment, IInv,
                  JobsAreRecords, JobShape
    <2>2. lock' # p
      BY <1>1 DEF Freeze, SaveBatch, SaveInventory, IInv, LockIsHeld
    <2>3. QED
      BY <2>1, <2>2, QuietStep
  <1>2. CASE DropPlan(p)
    <2>1. lock # p
      BY <1>2 DEF DropPlan, IInv, LockIsHeld
    <2>2. QED
      BY <1>2, <2>1, EndStep DEF DropPlan
  <1>3. QED
    BY <1>1, <1>2 DEF InventoryStep

LEMMA PlanKeepsIInv ==
  ASSUME IInv, NEW p \in Procs, PlanStep(p)
  PROVE  IInv'
  <1>1. lock # p /\ lock' = lock /\ files' = files
    BY DEF PlanStep, LoadRow, LoadInventory, MakePlan, SavePlan, IInv, LockIsHeld
  <1>2. CASE End(p)
    BY <1>1, <1>2, EndStep
  <1>3. CASE ~End(p)
    <2>1. PICK e : \/ Goto(p, "load") /\ job' = [job EXCEPT ![p].stamp = e]
                   \/ Goto(p, "plan") /\ job' = [job EXCEPT ![p].inv = e]
                   \/ Goto(p, "save") /\ job' = [job EXCEPT ![p].plan = e]
      BY <1>3 DEF PlanStep, LoadRow, LoadInventory, MakePlan, SavePlan
    <2>2. Moves(p) /\ pc'[p] \notin Moment
      BY <1>1, <2>1 DEF Moves, Goto, Moment, IInv, JobsAreRecords, JobShape
    <2>3. QED
      BY <1>1, <2>2, QuietStep
  <1>4. QED
    BY <1>2, <1>3

(* The steps of apply up to the write.                                     *)
LEMMA CheckKeepsIInv ==
  ASSUME IInv, NEW p \in Procs, CheckPlan(p) \/ LoadPlan(p)
  PROVE  IInv'
  <1>1. lock # p /\ lock' = lock /\ files' = files
    BY DEF CheckPlan, LoadPlan, IInv, LockIsHeld
  <1>2. CASE End(p)
    BY <1>1, <1>2, EndStep
  <1>3. CASE LoadPlan(p) /\ ~End(p)
    <2>1. Moves(p) /\ pc'[p] \notin Moment
      BY <1>1, <1>3 DEF LoadPlan, Moves, Goto, Moment, IInv, JobsAreRecords, JobShape
    <2>2. QED
      BY <1>1, <2>1, QuietStep
  <1>4. CASE CheckPlan(p) /\ ~End(p)
    <2>1. pc' = [pc EXCEPT ![p] = "checked"] /\ job' = job
      BY <1>4 DEF CheckPlan, Goto
    <2>2. Moves(p) /\ pc'[p] = "checked" /\ job'[p] = job[p]
      BY <1>1, <2>1 DEF Moves, IInv, JobsAreRecords, JobShape
    <2>3. LockIsHeld'
      BY <1>1, <2>2, MovesKeepOthers DEF IInv, LockIsHeld
    <2>4. Sound(p)'
      BY <1>1, <1>4, <2>2
      DEF CheckPlan, Preflight, Sound, SourcesStand, ReadIsCurrent, ExpectedIsRead,
          ExpectedIsCurrent, Hashed, Items
    <2>5. QED
      BY <2>2, <2>3, <2>4, MovesKeepOthers DEF IInv
  <1>5. QED
    BY <1>2, <1>3, <1>4

LEMMA ReadKeepsIInv ==
  ASSUME IInv, NEW p \in Procs, ReadReferences(p)
  PROVE  IInv'
  <1>1. lock # p /\ lock' = lock /\ files' = files /\ pc[p] = "checked"
    BY DEF ReadReferences, IInv, LockIsHeld
  <1>2. CASE End(p)
    BY <1>1, <1>2, EndStep
  <1>3. CASE ~End(p)
    <2> DEFINE read == [d \in Paths(files) |-> ReadText(files[d])]
    <2>1. pc' = [pc EXCEPT ![p] = "read"] /\ job' = [job EXCEPT ![p].read = read]
      BY <1>3 DEF ReadReferences, Goto
    <2> HIDE DEF read
    <2>2. /\ Moves(p) /\ pc'[p] = "read"
          /\ job'[p].read = read /\ job'[p].plan = job[p].plan
      BY <1>1, <2>1 DEF Moves, IInv, JobsAreRecords, JobShape
    <2>3. LockIsHeld'
      BY <1>1, <2>2, MovesKeepOthers DEF IInv, LockIsHeld
    <2>4. SourcesStand(p)'
      BY <1>1, <2>2 DEF IInv, Sound, SourcesStand, Items, Paths
    <2>5. ReadIsCurrent(p)'
      BY <1>1, <2>2 DEF ReadIsCurrent, read, Paths
    <2>6. Sound(p)'
      BY <2>2, <2>4, <2>5 DEF Sound, ExpectedIsRead, ExpectedIsCurrent, Hashed
    <2>7. QED
      BY <2>2, <2>3, <2>6, MovesKeepOthers DEF IInv
  <1>4. QED
    BY <1>2, <1>3

LEMMA HashKeepsIInv ==
  ASSUME IInv, NEW p \in Procs, HashReferences(p)
  PROVE  IInv'
  <1>1. lock # p /\ lock' = lock /\ files' = files /\ pc[p] = "read"
    BY DEF HashReferences, IInv, LockIsHeld
  <1>2. CASE End(p)
    BY <1>1, <1>2, EndStep
  <1>3. CASE ~End(p)
    <2> DEFINE read  == job[p].read
               found == [d \in Paths(read) |-> files[d]]
               expected == [found |-> found, absent |-> Targets(Items(p)) \ Paths(read)]
    <2>1. pc' = [pc EXCEPT ![p] = "hashed"] /\ job' = [job EXCEPT ![p].expected = expected]
      BY <1>3 DEF HashReferences, Goto, Expected, Items
    <2>2. read = [d \in Paths(files) |-> ReadText(files[d])]
      BY <1>1 DEF IInv, Sound, ReadIsCurrent
    <2>3. Paths(read) = Paths(files)
      BY <2>2 DEF Paths
    <2>4. /\ Paths(found) = Paths(read)
          /\ \A d \in Paths(read) : IsText(found[d]) /\ read[d] = ReadText(found[d])
      <3>1. Paths(found) = Paths(read)
        BY DEF Paths
      <3>2. ASSUME NEW d \in Paths(read)
            PROVE  IsText(found[d]) /\ read[d] = ReadText(found[d])
        <4>1. found[d] = files[d]
          OBVIOUS
        <4>2. IsText(files[d])
          BY <2>3 DEF IInv, FilesAreTexts
        <4>3. read[d] = ReadText(files[d])
          BY <2>2, <2>3
        <4>4. QED
          BY <4>1, <4>2, <4>3
      <3>3. QED
        BY <3>1, <3>2
    <2>5. \A it \in Items(p) :
            /\ it.approved /\ it.source \in Paths(read) /\ found[it.source] = it.hash
            /\ it.target # it.source => it.target \notin Paths(read)
      BY <1>1, <2>3 DEF IInv, Sound, SourcesStand
    <2> HIDE DEF found, expected
    <2>6. /\ Moves(p) /\ pc'[p] = "hashed"
          /\ job'[p].read = read /\ job'[p].plan = job[p].plan
          /\ job'[p].expected = expected
      BY <1>1, <2>1 DEF Moves, IInv, JobsAreRecords, JobShape
    <2>7. Items(p)' = Items(p)
      BY <2>6 DEF Items
    <2>8. LockIsHeld'
      BY <1>1, <2>6, MovesKeepOthers DEF IInv, LockIsHeld
    <2>9. ExpectedIsRead(p)'
      BY <2>4, <2>5, <2>6, <2>7 DEF ExpectedIsRead, expected
    <2>10. Sound(p)'
      BY <2>6, <2>9 DEF Sound, SourcesStand, ReadIsCurrent, ExpectedIsCurrent
    <2>11. QED
      BY <2>6, <2>8, <2>10, MovesKeepOthers DEF IInv
  <1>4. QED
    BY <1>2, <1>3

LEMMA LockKeepsIInv ==
  ASSUME IInv, NEW p \in Procs, Lock(p)
  PROVE  IInv'
  <1>1. lock # p /\ files' = files /\ pc[p] = "hashed"
    BY DEF Lock, IInv, LockIsHeld
  <1>2. CASE lock # NoLock
    BY <1>1, <1>2, EndStep DEF Lock
  <1>3. CASE lock = NoLock
    <2>1. pc' = [pc EXCEPT ![p] = "locked"] /\ job' = job /\ lock' = p
      BY <1>3 DEF Lock, Goto
    <2>2. FilesAreTexts' /\ JobsAreRecords'
      BY <1>1, <2>1 DEF IInv, FilesAreTexts, JobsAreRecords, Paths, IsText
    <2>3. LockIsHeld'
      BY <1>3, <2>1, NoLockAssumption DEF IInv, LockIsHeld, JobsAreRecords
    <2>4. ASSUME NEW q \in Procs \ {p} PROVE Sound(q)'
      <3>1. pc'[q] = pc[q] /\ job'[q] = job[q]
        BY <2>1 DEF IInv, JobsAreRecords
      <3>2. QED
        BY <1>1, <3>1, OthersKeepSound DEF IInv
    <2>5. Sound(p)'
      <3>1. pc'[p] = "locked" /\ job'[p] = job[p]
        BY <2>1 DEF IInv, JobsAreRecords
      <3>2. ExpectedIsRead(p)'
        BY <1>1, <3>1 DEF IInv, Sound, ExpectedIsRead, Hashed, Items
      <3>3. QED
        BY <3>1, <3>2 DEF Sound, SourcesStand, ReadIsCurrent, ExpectedIsCurrent
    <2>6. QED
      BY <2>2, <2>3, <2>4, <2>5 DEF IInv
  <1>4. QED
    BY <1>2, <1>3

LEMMA CompareKeepsIInv ==
  ASSUME IInv, NEW p \in Procs, Compare(p)
  PROVE  IInv'
  <1>1. lock = p /\ files' = files /\ pc[p] = "locked"
    BY DEF Compare, IInv, LockIsHeld
  <1>2. CASE ~AsExpected(job[p].expected)
    BY <1>1, <1>2, EndStep DEF Compare
  <1>3. CASE AsExpected(job[p].expected)
    <2>1. pc' = [pc EXCEPT ![p] = "compared"] /\ job' = job /\ lock' = lock
      BY <1>3 DEF Compare, Goto
    <2>2. Moves(p) /\ pc'[p] = "compared" /\ job'[p] = job[p]
      BY <1>1, <2>1 DEF Moves, IInv, JobsAreRecords, JobShape
    <2>3. LockIsHeld'
      BY <1>1, <2>1, <2>2, MovesKeepOthers DEF IInv, LockIsHeld
    <2>4. ExpectedIsRead(p)'
      BY <1>1, <2>2 DEF IInv, Sound, ExpectedIsRead, Hashed, Items
    <2>5. AsExpected(job[p].expected)'
      BY <1>1, <1>3, <2>2 DEF AsExpected, Paths
    <2>6. Sound(p)'
      BY <2>2, <2>4, <2>5 DEF Sound, SourcesStand, ReadIsCurrent, ExpectedIsCurrent
    <2>7. QED
      BY <2>2, <2>3, <2>6, MovesKeepOthers DEF IInv
  <1>4. QED
    BY <1>2, <1>3

----------------------------------------------------------------------------
(* What the helpers return: texts, and references that are not mapped.     *)
LEMMA ReadTextFacts ==
  ASSUME NEW t, IsText(t)
  PROVE  IsText(ReadText(t)) /\ ReadText(t).ref = t.ref
  BY DEF IsText, ReadText

LEMMA RewrittenFacts ==
  ASSUME NEW t, IsText(t), NEW items,
         \A x \in Moving(items) : x.target \notin Sources(Moving(items))
  PROVE  /\ IsText(Rewritten(t, items))
         /\ Rewritten(t, items).ref \notin Sources(Moving(items))
         /\ t.ref \notin Sources(Moving(items)) => Rewritten(t, items) = t
  <1>1. CASE t.ref \in Sources(Moving(items))
    <2> DEFINE it == CHOOSE x \in Moving(items) : x.source = t.ref
    <2>1. it \in Moving(items)
      BY <1>1 DEF Sources
    <2>2. it.target \notin Sources(Moving(items))
      BY <2>1
    <2>3. Rewritten(t, items) = [t EXCEPT !.ref = it.target]
      BY <1>1 DEF Rewritten
    <2> HIDE DEF it
    <2>4. QED
      BY <1>1, <2>2, <2>3 DEF IsText
  <1>2. CASE t.ref \notin Sources(Moving(items))
    BY <1>2 DEF Rewritten
  <1>3. QED
    BY <1>1, <1>2

LEMMA PatchedIsText ==
  ASSUME NEW read, NEW it, IsText(read[it.source])
  PROVE  IsText(Patched(read, it))
  BY DEF Patched, Rendered, IsText

(* What apply relies on when it builds its change set.                     *)
Fits(read, items) ==
  /\ \A d \in Paths(read) : IsText(read[d])
  /\ \A it \in items : it.source \in Paths(read)
  /\ \A it \in items : it.target # it.source => it.target \notin Paths(read)

LEMMA ContentsFacts ==
  ASSUME NEW read, NEW items, Fits(read, items)
  PROVE  /\ Paths(Contents(read, items)) =
              (Paths(read) \ Sources(items)) \union Targets(items)
         /\ \A d \in Paths(Contents(read, items)) :
              /\ IsText(Contents(read, items)[d])
              /\ Contents(read, items)[d].ref \notin Sources(Moving(items))
         /\ \A d \in Paths(read) \ (Sources(items) \union Targets(items)) :
              read[d].ref \notin Sources(Moving(items)) =>
                Contents(read, items)[d] = read[d]
  <1> DEFINE text(d) == IF d \in Targets(items)
                          THEN Patched(read, CHOOSE it \in items : it.target = d)
                          ELSE read[d]
             dom == (Paths(read) \ Sources(items)) \union Targets(items)
  <1>1. Contents(read, items) = [d \in dom |-> Rewritten(text(d), items)]
    BY DEF Contents
  <1>2. \A x \in Moving(items) : x.target \notin Sources(Moving(items))
    BY DEF Fits, Moving, Sources
  <1>3. ASSUME NEW d \in dom PROVE IsText(text(d))
    <2>1. CASE d \in Targets(items)
      <3>1. (CHOOSE it \in items : it.target = d) \in items
        BY <2>1 DEF Targets
      <3>2. QED
        BY <2>1, <3>1, PatchedIsText DEF Fits
    <2>2. CASE d \notin Targets(items)
      BY <2>2 DEF Fits
    <2>3. QED
      BY <2>1, <2>2
  <1>4. ASSUME NEW d \in Paths(read) \ (Sources(items) \union Targets(items))
        PROVE  d \in dom /\ text(d) = read[d]
    OBVIOUS
  <1> HIDE DEF text, dom
  <1>5. \A d \in dom :
          /\ IsText(Rewritten(text(d), items))
          /\ Rewritten(text(d), items).ref \notin Sources(Moving(items))
          /\ text(d).ref \notin Sources(Moving(items)) => Rewritten(text(d), items) = text(d)
    BY <1>2, <1>3, RewrittenFacts
  <1>6. Paths(Contents(read, items)) = dom
    BY <1>1 DEF Paths
  <1>7. QED
    BY <1>1, <1>4, <1>5, <1>6 DEF dom

LEMMA ResultIsText ==
  ASSUME NEW f, NEW read, NEW items, Fits(read, items),
         \A d \in Paths(f) : IsText(f[d])
  PROVE  /\ Result(f, read, items) =
              [d \in Paths(Result(f, read, items)) |-> Result(f, read, items)[d]]
         /\ \A d \in Paths(Result(f, read, items)) : IsText(Result(f, read, items)[d])
  <1>1. \A d \in Writes(read, items) : IsText(Contents(read, items)[d])
    BY ContentsFacts DEF Writes
  <1>2. QED
    BY <1>1 DEF Result, Paths

(* The stages in which a process has a change set agree with Fits.         *)
LEMMA HashedFits ==
  ASSUME NEW p \in Procs, ExpectedIsRead(p), pc[p] \in Hashed
  PROVE  Fits(job[p].read, Items(p))
  <1>1. \A d \in Paths(job[p].read) : IsText(job[p].read[d])
    BY ReadTextFacts DEF ExpectedIsRead
  <1>2. QED
    BY <1>1 DEF ExpectedIsRead, Fits

----------------------------------------------------------------------------
(* The write, and what others do to the files.                             *)
LEMMA CommitKeepsIInv ==
  ASSUME IInv, NEW p \in Procs, ~Window, Commit(p)
  PROVE  IInv'
  <1>1. lock = p /\ pc[p] = "compared"
    BY DEF Commit, IInv, LockIsHeld
  <1>2. pc' = [pc EXCEPT ![p] = "idle"] /\ job' = [job EXCEPT ![p] = NoJob] /\ lock' = NoLock
    BY DEF Commit, End, Goto
  <1>3. JobsAreRecords'
    BY <1>2, NoJobShape DEF IInv, JobsAreRecords, JobShape
  <1>4. FilesAreTexts'
    <2>1. Fits(job[p].read, Items(p))
      BY <1>1, HashedFits DEF IInv, Sound, Hashed
    <2>2. \A d \in Paths(files) : IsText(files[d])
      BY DEF IInv, FilesAreTexts
    <2>3. files' = Result(files, job[p].read, Items(p))
      BY DEF Commit, Items
    <2>4. QED
      BY <2>1, <2>2, <2>3, ResultIsText DEF FilesAreTexts, Paths, IsText
  <1>5. LockIsHeld'
    BY <1>1, <1>2, NoLockAssumption DEF IInv, LockIsHeld, JobsAreRecords
  <1>6. ASSUME NEW q \in Procs PROVE Sound(q)'
    <2>1. CASE q = p
      BY <1>2, <2>1, OutsideIsSound DEF IInv, JobsAreRecords, Moment
    <2>2. CASE q # p
      <3>1. pc'[q] = pc[q] /\ job'[q] = job[q]
        BY <1>2, <2>2 DEF IInv, JobsAreRecords
      <3>2. pc[q] \notin {"checked", "read", "compared"}
        BY <1>1, <2>2 DEF Window, IInv, LockIsHeld
      <3>3. QED
        BY <3>1, <3>2, EditsKeepSound DEF IInv
    <2>3. QED
      BY <2>1, <2>2
  <1>7. QED
    BY <1>3, <1>4, <1>5, <1>6 DEF IInv

LEMMA EditKeepsIInv ==
  ASSUME IInv, ~Disturb, EditorMay, UNCHANGED <<lock, pc, job>>, FilesAreTexts'
  PROVE  IInv'
  <1>1. \A q \in Procs : pc[q] \notin {"checked", "read", "compared"}
    BY DEF EditorMay, Window
  <1>2. \A q \in Procs : Sound(q)'
    BY <1>1, EditsKeepSound DEF IInv
  <1>3. JobsAreRecords' /\ LockIsHeld'
    BY DEF IInv, JobsAreRecords, LockIsHeld
  <1>4. QED
    BY <1>2, <1>3 DEF IInv

LEMMA SaveKeepsIInv ==
  ASSUME IInv, ~Disturb, NEW d \in Docs, NEW text \in EditorTexts[d], Save(d, text)
  PROVE  IInv'
  <1>1. IsText(text)
    BY EditorAssumption
  <1>2. FilesAreTexts'
    BY <1>1 DEF Save, IInv, FilesAreTexts, Paths, IsText
  <1>3. QED
    BY <1>2, EditKeepsIInv DEF Save

LEMMA RemoveKeepsIInv ==
  ASSUME IInv, ~Disturb, NEW d \in Docs, Remove(d)
  PROVE  IInv'
  <1>1. FilesAreTexts'
    BY DEF Remove, IInv, FilesAreTexts, Paths, IsText
  <1>2. QED
    BY <1>1, EditKeepsIInv DEF Remove

(* Nothing that the invariant speaks of changes.                           *)
LEMMA StutterKeepsIInv ==
  ASSUME IInv, UNCHANGED <<files, lock, pc, job>>
  PROVE  IInv'
  <1>1. \A q \in Procs : Sound(q)'
    BY OthersKeepSound DEF IInv
  <1>2. FilesAreTexts' /\ JobsAreRecords' /\ LockIsHeld'
    BY DEF IInv, FilesAreTexts, JobsAreRecords, LockIsHeld, Paths, IsText
  <1>3. QED
    BY <1>1, <1>2 DEF IInv

----------------------------------------------------------------------------
LEMMA InitIInv == Init => IInv
  <1> SUFFICES ASSUME Init PROVE IInv
    OBVIOUS
  <1>1. FilesAreTexts
    BY VaultAssumption DEF Init, FilesAreTexts, Paths, IsText
  <1>2. JobsAreRecords
    BY DEF Init, JobsAreRecords, NoJob
  <1>3. LockIsHeld
    BY NoLockAssumption DEF Init, LockIsHeld
  <1>4. \A p \in Procs : Sound(p)
    BY DEF Init, Sound, SourcesStand, ReadIsCurrent, ExpectedIsRead, ExpectedIsCurrent, Hashed
  <1>5. QED
    BY <1>1, <1>2, <1>3, <1>4 DEF IInv

LEMMA ApplyKeepsIInv ==
  ASSUME IInv, ~Disturb, NEW p \in Procs, ApplyStep(p)
  PROVE  IInv'
  <1>1. CASE CommitFails(p)
    <2>1. lock = p
      BY <1>1 DEF CommitFails, IInv, LockIsHeld
    <2>2. QED
      BY <1>1, <2>1, EndStep DEF CommitFails
  <1>2. QED
    BY <1>1, CheckKeepsIInv, ReadKeepsIInv, HashKeepsIInv, LockKeepsIInv, CompareKeepsIInv,
       CommitKeepsIInv
    DEF ApplyStep

LEMMA StepIInv == ~Disturb /\ IInv /\ [Next]_vars => IInv'
  <1> SUFFICES ASSUME ~Disturb, IInv, [Next]_vars
               PROVE  IInv'
    OBVIOUS
  <1>1. ASSUME NEW p \in Procs, NEW b \in Batches,
               StartInventory(p, b) \/ StartPlan(p, b) \/ StartApply(p, b)
        PROVE  IInv'
    BY <1>1, BeginStep DEF StartInventory, StartPlan, StartApply, Moment
  <1>2. ASSUME NEW p \in Procs, NEW b \in Batches, Verify(p, b) PROVE IInv'
    BY <1>2, StutterKeepsIInv DEF Verify
  <1>3. ASSUME NEW p \in Procs, InventoryStep(p) PROVE IInv'
    BY <1>3, InventoryKeepsIInv
  <1>4. ASSUME NEW p \in Procs, PlanStep(p) PROVE IInv'
    BY <1>4, PlanKeepsIInv
  <1>5. ASSUME NEW p \in Procs, ApplyStep(p) PROVE IInv'
    BY <1>5, ApplyKeepsIInv
  <1>6. ASSUME NEW p \in Procs, Kill(p) PROVE IInv'
    <2>1. (lock' = lock /\ lock # p) \/ (lock = p /\ lock' = NoLock)
      BY <1>6 DEF Kill
    <2>2. QED
      BY <1>6, <2>1, EndStep DEF Kill
  <1>7. ASSUME NEW b \in Batches, Approve(b) PROVE IInv'
    BY <1>7, StutterKeepsIInv DEF Approve
  <1>8. ASSUME NEW d \in Docs, NEW text \in EditorTexts[d], Save(d, text) PROVE IInv'
    BY <1>8, SaveKeepsIInv
  <1>9. ASSUME NEW d \in Docs, Remove(d) PROVE IInv'
    BY <1>9, RemoveKeepsIInv
  <1>10. ASSUME NEW c \in Configs, Reconfigure(c) PROVE IInv'
    BY <1>10, StutterKeepsIInv DEF Reconfigure
  <1>11. CASE UNCHANGED vars
    BY <1>11, StutterKeepsIInv DEF vars
  <1>12. QED
    BY <1>1, <1>2, <1>3, <1>4, <1>5, <1>6, <1>7, <1>8, <1>9, <1>10, <1>11 DEF Next

LEMMA InvariantIInv ==
  ASSUME ~Disturb
  PROVE  Spec => []IInv
  <1>1. IInv /\ [Next]_vars => IInv'
    BY StepIInv
  <1>2. QED
    BY <1>1, InitIInv, PTL DEF Spec

(* What the invariant says of a process that is about to write.            *)
LEMMA AboutFacts ==
  ASSUME IInv, NEW p \in Procs, About(p)
  PROVE  /\ Fits(job[p].read, Items(p))
         /\ \A d \in Paths(job[p].read) :
              /\ d \in Paths(files) /\ IsText(files[d])
              /\ job[p].read[d] = ReadText(files[d])
         /\ \A d \in Targets(Items(p)) \ Paths(job[p].read) : d \notin Paths(files)
         /\ \A it \in Items(p) : it.approved /\ files[it.source] = it.hash
  <1>1. ExpectedIsRead(p) /\ AsExpected(job[p].expected) /\ pc[p] \in Hashed
    BY DEF IInv, Sound, ExpectedIsCurrent, About, Hashed
  <1>2. Fits(job[p].read, Items(p))
    BY <1>1, HashedFits
  <1>3. QED
    BY <1>1, <1>2 DEF ExpectedIsRead, AsExpected, Paths

(* apply overwrites and deletes only what it has read: the comparison      *)
(* under the lock sees every edit that _build_change_set has not.          *)
THEOREM NothingUnreadIsLost ==
  ASSUME ~Disturb
  PROVE  Spec => []NoEditLost
  <1>1. IInv => NoEditLost
    <2> SUFFICES ASSUME IInv, NEW p \in Procs, About(p),
                        NEW d \in Writes(job[p].read, Items(p))
                                    \union Deletes(job[p].read, Items(p))
                 PROVE  IF d \in Paths(files)
                          THEN d \in Paths(job[p].read) /\ job[p].read[d] = ReadText(files[d])
                          ELSE d \notin Paths(job[p].read)
      BY DEF NoEditLost, Items
    <2>1. d \in Paths(job[p].read) \union Targets(Items(p))
      <3>1. CASE d \in Writes(job[p].read, Items(p))
        BY <3>1, AboutFacts, ContentsFacts DEF Writes
      <3>2. CASE d \in Deletes(job[p].read, Items(p))
        BY <3>2, AboutFacts DEF Deletes, Fits, Sources
      <3>3. QED
        BY <3>1, <3>2
    <2>2. QED
      BY <2>1, AboutFacts
  <1>2. QED
    BY <1>1, InvariantIInv, PTL

(* Every item that apply carries out was approved for the content that is  *)
(* at its source, and its target is free.                                  *)
THEOREM OnlyApprovedContentMoves ==
  ASSUME ~Disturb
  PROVE  Spec => []AppliedAsApproved
  <1>1. IInv => AppliedAsApproved
    BY AboutFacts DEF AppliedAsApproved, Fits, Items, Targets
  <1>2. QED
    BY <1>1, InvariantIInv, PTL

(* No document that apply has read, and none that it has moved, is left    *)
(* with a reference to the old path of a document that moved.              *)
THEOREM ReferencesFollow ==
  ASSUME ~Disturb
  PROVE  Spec => []ReferencesMoveAlong
  <1>1. IInv => ReferencesMoveAlong
    <2> SUFFICES ASSUME IInv, NEW p \in Procs, About(p)
                 PROVE  LET read  == job[p].read
                            items == Items(p)
                            after == Result(files, read, items)
                        IN  \A d \in Paths(after) :
                              d \in Paths(read) \union Targets(items) =>
                                after[d].ref \notin Sources(Moving(items))
      BY DEF ReferencesMoveAlong, Items
    <2> DEFINE read  == job[p].read
               items == Items(p)
               new   == Contents(read, items)
               after == Result(files, read, items)
    <2> SUFFICES ASSUME NEW d \in Paths(after), d \in Paths(read) \union Targets(items)
                 PROVE  after[d].ref \notin Sources(Moving(items))
      OBVIOUS
    <2>1. Fits(read, items)
      BY AboutFacts
    <2>2. CASE d \in Writes(read, items)
      <3>1. after[d] = new[d] /\ d \in Paths(new)
        BY <2>2 DEF Result, Writes
      <3>2. QED
        BY <2>1, <3>1, ContentsFacts
    <2>3. CASE d \notin Writes(read, items)
      <3>1. after[d] = files[d] /\ d \in Paths(files) /\ d \notin Deletes(read, items)
        BY <2>3 DEF Result, Paths
      <3>2. d \in Paths(read)
        BY <3>1, AboutFacts
      <3>3. d \in Paths(new)
        BY <2>1, <3>1, <3>2, ContentsFacts DEF Deletes
      <3>4. new[d] = read[d]
        BY <2>3, <3>2, <3>3 DEF Writes
      <3>5. read[d].ref = files[d].ref
        BY <3>2, AboutFacts, ReadTextFacts
      <3>6. QED
        BY <2>1, <3>1, <3>3, <3>4, <3>5, ContentsFacts
    <2>4. QED
      BY <2>2, <2>3
  <1>2. QED
    BY <1>1, InvariantIInv, PTL

(* Documents outside the plan that refer to nothing that moves are not     *)
(* written: their bytes, line endings included, stay.                      *)
THEOREM BystandersStay ==
  ASSUME ~Disturb
  PROVE  Spec => []BystandersKeepTheirBytes
  <1>1. IInv => BystandersKeepTheirBytes
    <2> SUFFICES ASSUME IInv, NEW p \in Procs, About(p),
                        NEW d \in Paths(files) \ (Sources(Items(p)) \union Targets(Items(p))),
                        files[d].ref \notin Sources(Moving(Items(p)))
                 PROVE  LET after == Result(files, job[p].read, Items(p))
                        IN  d \in Paths(after) /\ after[d] = files[d]
      BY DEF BystandersKeepTheirBytes, Items
    <2> DEFINE read  == job[p].read
               items == Items(p)
    <2>1. d \notin Deletes(read, items)
      BY DEF Deletes
    <2>2. d \notin Writes(read, items)
      <3>1. CASE d \in Paths(read)
        <4>1. read[d].ref = files[d].ref
          BY <3>1, AboutFacts, ReadTextFacts
        <4>2. Contents(read, items)[d] = read[d]
          BY <3>1, <4>1, AboutFacts, ContentsFacts
        <4>3. QED
          BY <3>1, <4>2 DEF Writes
      <3>2. CASE d \notin Paths(read)
        <4>1. d \notin Paths(Contents(read, items))
          BY <3>2, AboutFacts, ContentsFacts
        <4>2. QED
          BY <4>1 DEF Writes
      <3>3. QED
        BY <3>1, <3>2
    <2>3. QED
      BY <2>1, <2>2 DEF Result, Paths
  <1>2. QED
    BY <1>1, InvariantIInv, PTL

----------------------------------------------------------------------------
(* Types: nothing here depends on the window.                              *)
JobFields  == {"batch", "config", "stamp", "spec", "inv", "plan", "read", "expected"}
ItemFields == {"source", "target", "hash", "patch", "approved"}
PlanFields == {"items", "config", "checked", "round"}

IsPlan(pl) ==
  /\ DOMAIN pl = PlanFields /\ pl.config \in Configs
  /\ \A it \in pl.items : DOMAIN it = ItemFields /\ it.target \in Docs
IsInventory(inv) == Paths(inv.items) \subseteq Scope

StoreTyped ==
  /\ Paths(files) \subseteq Docs /\ config \in Configs
  /\ row \in [Batches -> Configs \union {None}]
  /\ DOMAIN inventory = Batches /\ DOMAIN plan = Batches /\ DOMAIN verified = Batches
  /\ \A b \in Batches :
       /\ inventory[b] # None => IsInventory(inventory[b])
       /\ plan[b] # None => IsPlan(plan[b])
       /\ verified[b] \in {None, "ok", "needs-review"}

JobTyped(p) ==
  LET j == job[p] IN
  /\ pc[p] # "idle" => j.batch \in Batches /\ j.config \in Configs
  /\ pc[p] \in {"batch", "inventory", "plan"} => IsInventory(j.inv)
  /\ pc[p] \in {"row", "load", "plan"} => j.spec \in Specs[j.batch] \union {None}
  /\ pc[p] \in {"load", "plan"} => j.stamp \in Configs
  /\ pc[p] \in {"save", "preflight"} \union Moment => IsPlan(j.plan)
  /\ pc[p] \in Moment \ {"checked"} => Paths(j.read) \subseteq Docs

HoldsLock(p) == pc[p] \in {"locked", "compared"} <=> lock = p

Typed ==
  /\ StoreTyped
  /\ DOMAIN pc = Procs /\ DOMAIN job = Procs
  /\ \A p \in Procs : DOMAIN job[p] = JobFields /\ JobTyped(p) /\ HoldsLock(p)

(* One process moves; the lock is left alone, taken or given back.         *)
OnlyMoves(p) ==
  /\ DOMAIN pc' = Procs /\ DOMAIN job' = Procs
  /\ \A q \in Procs : DOMAIN job'[q] = JobFields /\ (q # p => pc'[q] = pc[q] /\ job'[q] = job[q])
LockMoves(p) ==
  \/ lock' = lock /\ (pc'[p] \in {"locked", "compared"} <=> pc[p] \in {"locked", "compared"})
  \/ lock = NoLock /\ lock' = p /\ pc'[p] \in {"locked", "compared"}
  \/ lock = p /\ lock' = NoLock /\ pc'[p] \notin {"locked", "compared"}

LEMMA MoveKeepsTyped ==
  ASSUME Typed, NEW p \in Procs, OnlyMoves(p), LockMoves(p), StoreTyped', JobTyped(p)'
  PROVE  Typed'
  <1>1. ASSUME NEW q \in Procs, q # p PROVE JobTyped(q)' /\ HoldsLock(q)'
    <2>1. pc'[q] = pc[q] /\ job'[q] = job[q] /\ JobTyped(q) /\ HoldsLock(q)
      BY <1>1 DEF OnlyMoves, Typed
    <2>2. JobTyped(q)'
      BY <2>1 DEF JobTyped
    <2>3. HoldsLock(q)'
      BY <2>1, <1>1, NoLockAssumption DEF HoldsLock, LockMoves
    <2>4. QED
      BY <2>2, <2>3
  <1>2. HoldsLock(p)'
    BY NoLockAssumption DEF Typed, HoldsLock, LockMoves
  <1>3. QED
    BY <1>1, <1>2 DEF Typed, OnlyMoves

(* A process goes on with a changed job, or with the same one, or ends.    *)
LEMMA TypedGoes ==
  ASSUME Typed, NEW p \in Procs, NEW stage, NEW r, DOMAIN r = JobFields,
         Goto(p, stage), job' = [job EXCEPT ![p] = r]
  PROVE  OnlyMoves(p) /\ pc'[p] = stage /\ job'[p] = r
  BY DEF Typed, Goto, OnlyMoves

LEMMA TypedStays ==
  ASSUME Typed, NEW p \in Procs, NEW stage, Goto(p, stage), UNCHANGED job
  PROVE  OnlyMoves(p) /\ pc'[p] = stage /\ job'[p] = job[p]
  BY DEF Typed, Goto, OnlyMoves

LEMMA TypedEnds ==
  ASSUME Typed, NEW p \in Procs, End(p), StoreTyped',
         \/ lock' = lock /\ pc[p] \notin {"locked", "compared"}
         \/ lock = p /\ lock' = NoLock
  PROVE  Typed'
  <1>1. DOMAIN NoJob = JobFields
    BY DEF NoJob, JobFields
  <1>2. OnlyMoves(p) /\ pc'[p] = "idle"
    BY <1>1, TypedGoes DEF End
  <1>3. JobTyped(p)' /\ LockMoves(p)
    BY <1>2 DEF JobTyped, LockMoves, Moment
  <1>4. QED
    BY <1>2, <1>3, MoveKeepsTyped

LEMMA StoreStays ==
  ASSUME Typed, UNCHANGED <<files, config, batchVars>>
  PROVE  StoreTyped'
  BY DEF Typed, StoreTyped, batchVars, Paths

(* A command without the lock ends and changes nothing.                    *)
LEMMA TypedStops ==
  ASSUME Typed, NEW p \in Procs, pc[p] \notin {"locked", "compared"}, End(p),
         UNCHANGED <<files, config, batchVars, lock>>
  PROVE  Typed'
  <1>1. StoreTyped' /\ lock' = lock
    BY StoreStays
  <1>2. QED
    BY <1>1, TypedEnds

LEMMA BeginTyped ==
  ASSUME Typed, NEW p \in Procs, NEW b \in Batches, NEW stage \in {"freeze", "row", "loadplan"},
         NEW spec \in Specs[b] \union {None}, Begin(p, b, stage, spec)
  PROVE  Typed'
  <1> DEFINE r == [NoJob EXCEPT !.batch = b, !.config = config, !.spec = spec]
  <1>1. DOMAIN r = JobFields /\ r.batch = b /\ r.config = config /\ r.spec = spec
    BY DEF NoJob, JobFields
  <1>2. Goto(p, stage) /\ job' = [job EXCEPT ![p] = r] /\ pc[p] = "idle"
        /\ UNCHANGED <<files, config, batchVars, lock>>
    BY DEF Begin
  <1> HIDE DEF r
  <1>3. OnlyMoves(p) /\ pc'[p] = stage /\ job'[p] = r
    BY <1>1, <1>2, TypedGoes
  <1>4. JobTyped(p)'
    BY <1>1, <1>3 DEF JobTyped, Typed, StoreTyped, Moment
  <1>5. LockMoves(p)
    BY <1>2, <1>3 DEF LockMoves
  <1>6. QED
    BY <1>2, <1>3, <1>4, <1>5, StoreStays, MoveKeepsTyped

LEMMA InventoryTyped ==
  ASSUME Typed, NEW p \in Procs, InventoryStep(p)
  PROVE  Typed'
  <1>1. StoreTyped /\ JobTyped(p) /\ DOMAIN job = Procs /\ DOMAIN job[p] = JobFields
    BY DEF Typed
  <1>2. CASE Freeze(p)
    <2> DEFINE inv == [items |-> [d \in Scope \intersect Paths(files) |-> files[d]],
                       round |-> Round(job[p].batch) + 1]
               r == [job[p] EXCEPT !.inv = inv]
    <2>1. /\ pc[p] = "freeze" /\ Goto(p, "batch") /\ job' = [job EXCEPT ![p] = r]
          /\ UNCHANGED <<files, config, batchVars, lock>>
      BY <1>2, <1>1 DEF Freeze
    <2>2. IsInventory(inv)
      BY DEF IsInventory, Paths
    <2> HIDE DEF inv
    <2>3. DOMAIN r = JobFields /\ r.batch = job[p].batch /\ r.config = job[p].config /\ r.inv = inv
      BY <1>1 DEF JobFields
    <2> HIDE DEF r
    <2>4. OnlyMoves(p) /\ pc'[p] = "batch" /\ job'[p] = r
      BY <2>1, <2>3, TypedGoes
    <2>5. JobTyped(p)' /\ LockMoves(p)
      BY <1>1, <2>1, <2>2, <2>3, <2>4 DEF JobTyped, LockMoves, Moment, IsInventory, Paths
    <2>6. StoreTyped'
      BY <2>1, StoreStays
    <2>7. QED
      BY <2>4, <2>5, <2>6, MoveKeepsTyped
  <1>3. CASE SaveBatch(p)
    <2>1. OnlyMoves(p) /\ pc'[p] = "inventory" /\ job'[p] = job[p] /\ pc[p] = "batch"
      BY <1>3, TypedStays DEF SaveBatch
    <2>2. StoreTyped'
      BY <1>1, <1>3 DEF SaveBatch, StoreTyped, JobTyped, Paths
    <2>3. JobTyped(p)' /\ LockMoves(p)
      BY <1>1, <1>3, <2>1 DEF SaveBatch, JobTyped, LockMoves, Moment
    <2>4. QED
      BY <2>1, <2>2, <2>3, MoveKeepsTyped
  <1>4. CASE SaveInventory(p)
    <2>1. OnlyMoves(p) /\ pc'[p] = "drop" /\ job'[p] = job[p] /\ pc[p] = "inventory"
      BY <1>4, TypedStays DEF SaveInventory
    <2>2. StoreTyped'
      BY <1>1, <1>4 DEF SaveInventory, StoreTyped, JobTyped, Paths
    <2>3. JobTyped(p)' /\ LockMoves(p)
      BY <1>1, <1>4, <2>1 DEF SaveInventory, JobTyped, LockMoves, Moment
    <2>4. QED
      BY <2>1, <2>2, <2>3, MoveKeepsTyped
  <1>5. CASE DropPlan(p)
    <2>1. StoreTyped'
      BY <1>1, <1>5 DEF DropPlan, StoreTyped, JobTyped, Paths
    <2>2. lock' = lock /\ pc[p] \notin {"locked", "compared"} /\ End(p)
      BY <1>5 DEF DropPlan
    <2>3. QED
      BY <2>1, <2>2, TypedEnds
  <1>6. QED
    BY <1>2, <1>3, <1>4, <1>5 DEF InventoryStep

LEMMA MadeIsPlan ==
  ASSUME NEW items, NEW stamp \in Configs, NEW checked, NEW round,
         \A it \in items : DOMAIN it = ItemFields /\ it.target \in Docs
  PROVE  IsPlan([items |-> items, config |-> stamp, checked |-> checked, round |-> round])
  BY DEF IsPlan, PlanFields

LEMMA PlanTyped ==
  ASSUME Typed, NEW p \in Procs, PlanStep(p)
  PROVE  Typed'
  <1>1. StoreTyped /\ JobTyped(p) /\ DOMAIN job = Procs /\ DOMAIN job[p] = JobFields
    BY DEF Typed
  <1>2. CASE LoadRow(p)
    <2>1. pc[p] = "row" /\ UNCHANGED <<files, config, batchVars, lock>> /\ job[p].batch \in Batches
      BY <1>1, <1>2 DEF LoadRow, JobTyped
    <2>2. CASE End(p)
      <3>1. pc[p] \notin {"locked", "compared"}
        BY <2>1
      <3>2. QED
        BY <2>1, <2>2, <3>1, TypedStops
    <2>3. CASE /\ row[job[p].batch] # None /\ Goto(p, "load")
               /\ job' = [job EXCEPT ![p].stamp = row[job[p].batch]]
      <3> DEFINE value == row[job[p].batch]
      <3>1. value \in Configs
        BY <1>1, <2>1, <2>3 DEF StoreTyped
      <3> DEFINE r == [job[p] EXCEPT !.stamp = value]
      <3>2. job' = [job EXCEPT ![p] = r]
        BY <1>1, <2>3
      <3>3. DOMAIN r = JobFields /\ r.stamp = value /\ r.batch = job[p].batch /\ r.config = job[p].config
            /\ r.spec = job[p].spec
        BY <1>1 DEF JobFields
      <3> HIDE DEF r, value
      <3>4. OnlyMoves(p) /\ pc'[p] = "load" /\ job'[p] = r
        BY <2>3, <3>2, <3>3, TypedGoes
      <3>5. JobTyped(p)' /\ LockMoves(p)
        BY <1>1, <2>1, <3>1, <3>3, <3>4 DEF JobTyped, LockMoves, Moment, IsInventory, Paths
      <3>6. StoreTyped'
        BY <2>1, StoreStays
      <3>7. QED
        BY <3>4, <3>5, <3>6, MoveKeepsTyped
    <2>4. QED
      BY <1>2, <2>2, <2>3 DEF LoadRow
  <1>3. CASE LoadInventory(p)
    <2>1. pc[p] = "load" /\ UNCHANGED <<files, config, batchVars, lock>> /\ job[p].batch \in Batches
      BY <1>1, <1>3 DEF LoadInventory, JobTyped
    <2>2. CASE End(p)
      <3>1. pc[p] \notin {"locked", "compared"}
        BY <2>1
      <3>2. QED
        BY <2>1, <2>2, <3>1, TypedStops
    <2>3. CASE /\ inventory[job[p].batch] # None /\ Goto(p, "plan")
               /\ job' = [job EXCEPT ![p].inv = inventory[job[p].batch]]
      <3>0. Goto(p, "plan")
        BY <2>3
      <3> DEFINE value == inventory[job[p].batch]
      <3>1. IsInventory(value)
        BY <1>1, <2>1, <2>3 DEF StoreTyped
      <3> DEFINE r == [job[p] EXCEPT !.inv = value]
      <3>2. job' = [job EXCEPT ![p] = r]
        BY <1>1, <2>3
      <3>3. DOMAIN r = JobFields /\ r.inv = value /\ r.batch = job[p].batch /\ r.config = job[p].config
            /\ r.spec = job[p].spec /\ r.stamp = job[p].stamp
        BY <1>1 DEF JobFields
      <3> HIDE DEF r, value
      <3>4. OnlyMoves(p) /\ pc'[p] = "plan" /\ job'[p] = r
        BY <3>0, <3>2, <3>3, TypedGoes
      <3>5. JobTyped(p)' /\ LockMoves(p)
        BY <1>1, <2>1, <3>1, <3>3, <3>4 DEF JobTyped, LockMoves, Moment, IsInventory, Paths
      <3>6. StoreTyped'
        BY <2>1, StoreStays
      <3>7. QED
        BY <3>4, <3>5, <3>6, MoveKeepsTyped
    <2>4. QED
      BY <1>3, <2>2, <2>3 DEF LoadInventory
  <1>4. CASE MakePlan(p)
    <2> DEFINE inv  == job[p].inv
               spec == job[p].spec
               made(items) == [items |-> items, config |-> job[p].stamp,
                               checked |-> job[p].config, round |-> inv.round]
    <2>1. /\ pc[p] = "plan" /\ UNCHANGED <<files, config, batchVars, lock>>
          /\ job[p].batch \in Batches /\ job[p].config \in Configs /\ job[p].stamp \in Configs
          /\ IsInventory(inv) /\ spec \in Specs[job[p].batch] \union {None}
      BY <1>1, <1>4 DEF MakePlan, JobTyped
    <2>2. CASE End(p)
      <3>1. pc[p] \notin {"locked", "compared"}
        BY <2>1
      <3>2. QED
        BY <2>1, <2>2, <3>1, TypedStops
    <2>3. ASSUME NEW items, job' = [job EXCEPT ![p].plan = made(items)], Goto(p, "save"),
                 \A it \in items : DOMAIN it = ItemFields /\ it.target \in Docs
          PROVE  Typed'
      <3> DEFINE pl == made(items)
                 r  == [job[p] EXCEPT !.plan = pl]
      <3>1. IsPlan(pl)
        BY <2>1, <2>3, MadeIsPlan
      <3>2. job' = [job EXCEPT ![p] = r]
        BY <1>1, <2>3
      <3> HIDE DEF pl
      <3>3. DOMAIN r = JobFields /\ r.batch = job[p].batch /\ r.config = job[p].config /\ r.plan = pl
        BY <1>1 DEF JobFields
      <3> HIDE DEF r
      <3>4. OnlyMoves(p) /\ pc'[p] = "save" /\ job'[p] = r
        BY <2>3, <3>2, <3>3, TypedGoes
      <3>5. JobTyped(p)' /\ LockMoves(p)
        BY <2>1, <3>1, <3>3, <3>4 DEF JobTyped, LockMoves, Moment, IsPlan
      <3>6. StoreTyped'
        BY <2>1, StoreStays
      <3>7. QED
        BY <3>4, <3>5, <3>6, MoveKeepsTyped
    <2>4. CASE spec = None /\ job' = [job EXCEPT ![p].plan = made(Suggested(inv))] /\ Goto(p, "save")
      <3>1. \A it \in Suggested(inv) : DOMAIN it = ItemFields /\ it.target \in Docs
        BY <2>1, PlaceAssumption DEF Suggested, IsInventory, ItemFields
      <3>2. QED
        BY <2>3, <2>4, <3>1
    <2>5. CASE spec # None /\ job' = [job EXCEPT ![p].plan = made(Specified(spec, inv))] /\ Goto(p, "save")
      <3>1. spec \in Specs[job[p].batch]
        BY <2>1, <2>5
      <3>2. \A it \in Specified(spec, inv) : DOMAIN it = ItemFields /\ it.target \in Docs
        BY <2>1, <3>1, PlaceAssumption DEF Specified, ItemFields
      <3>3. QED
        BY <2>3, <2>5, <3>2
    <2>6. QED
      BY <1>4, <2>2, <2>4, <2>5 DEF MakePlan
  <1>5. CASE SavePlan(p)
    <2>1. StoreTyped'
      BY <1>1, <1>5 DEF SavePlan, StoreTyped, JobTyped, Paths
    <2>2. lock' = lock /\ pc[p] \notin {"locked", "compared"} /\ End(p)
      BY <1>5 DEF SavePlan
    <2>3. QED
      BY <2>1, <2>2, TypedEnds
  <1>6. QED
    BY <1>2, <1>3, <1>4, <1>5 DEF PlanStep

(* The documents that a change set leaves are documents.                   *)
LEMMA ResultInDocs ==
  ASSUME NEW f, NEW read, NEW items, Paths(f) \subseteq Docs, Paths(read) \subseteq Docs,
         \A it \in items : it.target \in Docs
  PROVE  Paths(Result(f, read, items)) \subseteq Docs
  <1>1. Targets(items) \subseteq Docs
    BY DEF Targets
  <1>2. Paths(Contents(read, items)) \subseteq Docs
    BY <1>1 DEF Contents, Paths
  <1>3. Writes(read, items) \subseteq Docs
    BY <1>2 DEF Writes
  <1>4. QED
    BY <1>3 DEF Result, Paths

LEMMA CheckTyped ==
  ASSUME Typed, NEW p \in Procs, LoadPlan(p) \/ CheckPlan(p)
  PROVE  Typed'
  <1>1. StoreTyped /\ JobTyped(p) /\ DOMAIN job = Procs /\ DOMAIN job[p] = JobFields
    BY DEF Typed
  <1>2. /\ pc[p] \in {"loadplan", "preflight"} /\ UNCHANGED <<files, config, batchVars, lock>>
        /\ job[p].batch \in Batches /\ job[p].config \in Configs
    BY <1>1 DEF LoadPlan, CheckPlan, JobTyped
  <1>3. CASE End(p)
    <2>1. pc[p] \notin {"locked", "compared"}
      BY <1>2
    <2>2. QED
      BY <1>2, <1>3, <2>1, TypedStops
  <1>4. CASE LoadPlan(p) /\ ~End(p)
    <2>0. Goto(p, "preflight") /\ pc[p] = "loadplan"
      BY <1>4 DEF LoadPlan
    <2> DEFINE value == plan[job[p].batch]
    <2>1. value # None /\ job' = [job EXCEPT ![p].plan = value]
      BY <1>4 DEF LoadPlan
    <2>2. IsPlan(value)
      BY <1>1, <1>2, <2>1 DEF StoreTyped
    <2> DEFINE r == [job[p] EXCEPT !.plan = value]
    <2>3. job' = [job EXCEPT ![p] = r]
      BY <1>1, <2>1
    <2> HIDE DEF value
    <2>4. DOMAIN r = JobFields /\ r.batch = job[p].batch /\ r.config = job[p].config /\ r.plan = value
      BY <1>1 DEF JobFields
    <2> HIDE DEF r
    <2>5. OnlyMoves(p) /\ pc'[p] = "preflight" /\ job'[p] = r
      BY <2>0, <2>3, <2>4, TypedGoes
    <2>6. JobTyped(p)' /\ LockMoves(p)
      BY <1>2, <2>0, <2>2, <2>4, <2>5 DEF JobTyped, LockMoves, Moment, IsPlan
    <2>7. StoreTyped'
      BY <1>2, StoreStays
    <2>8. QED
      BY <2>5, <2>6, <2>7, MoveKeepsTyped
  <1>5. CASE CheckPlan(p) /\ ~End(p)
    <2>1. pc[p] = "preflight" /\ Goto(p, "checked") /\ UNCHANGED job
      BY <1>5 DEF CheckPlan
    <2>2. OnlyMoves(p) /\ pc'[p] = "checked" /\ job'[p] = job[p]
      BY <2>1, TypedStays
    <2>3. JobTyped(p)' /\ LockMoves(p)
      BY <1>1, <1>2, <2>1, <2>2 DEF JobTyped, LockMoves, Moment, IsPlan
    <2>4. StoreTyped'
      BY <1>2, StoreStays
    <2>5. QED
      BY <2>2, <2>3, <2>4, MoveKeepsTyped
  <1>6. QED
    BY <1>3, <1>4, <1>5

LEMMA ReadingTyped ==
  ASSUME Typed, NEW p \in Procs, ReadReferences(p) \/ HashReferences(p)
  PROVE  Typed'
  <1>1. StoreTyped /\ JobTyped(p) /\ DOMAIN job = Procs /\ DOMAIN job[p] = JobFields
    BY DEF Typed
  <1>2. /\ pc[p] \in {"checked", "read"} /\ UNCHANGED <<files, config, batchVars, lock>>
        /\ job[p].batch \in Batches /\ job[p].config \in Configs /\ IsPlan(job[p].plan)
    BY <1>1 DEF ReadReferences, HashReferences, JobTyped, Moment
  <1>3. CASE End(p)
    <2>1. pc[p] \notin {"locked", "compared"}
      BY <1>2
    <2>2. QED
      BY <1>2, <1>3, <2>1, TypedStops
  <1>4. CASE ReadReferences(p) /\ ~End(p)
    <2> DEFINE value == [d \in Paths(files) |-> ReadText(files[d])]
    <2>1. pc[p] = "checked" /\ Goto(p, "read") /\ job' = [job EXCEPT ![p].read = value]
      BY <1>4 DEF ReadReferences
    <2>2. Paths(value) \subseteq Docs
      BY <1>1 DEF StoreTyped, Paths
    <2> HIDE DEF value
    <2> DEFINE r == [job[p] EXCEPT !.read = value]
    <2>3. job' = [job EXCEPT ![p] = r]
      BY <1>1, <2>1
    <2>4. DOMAIN r = JobFields /\ r.batch = job[p].batch /\ r.config = job[p].config
          /\ r.plan = job[p].plan /\ r.read = value
      BY <1>1 DEF JobFields
    <2> HIDE DEF r
    <2>5. OnlyMoves(p) /\ pc'[p] = "read" /\ job'[p] = r
      BY <2>1, <2>3, <2>4, TypedGoes
    <2>6. JobTyped(p)' /\ LockMoves(p)
      BY <1>2, <2>1, <2>2, <2>4, <2>5 DEF JobTyped, LockMoves, Moment, IsPlan, Paths
    <2>7. StoreTyped'
      BY <1>2, StoreStays
    <2>8. QED
      BY <2>5, <2>6, <2>7, MoveKeepsTyped
  <1>5. CASE HashReferences(p) /\ ~End(p)
    <2> DEFINE value == Expected(job[p].read, job[p].plan.items)
    <2>1. pc[p] = "read" /\ Goto(p, "hashed") /\ job' = [job EXCEPT ![p].expected = value]
      BY <1>5 DEF HashReferences
    <2>2. Paths(job[p].read) \subseteq Docs
      BY <1>1, <2>1 DEF JobTyped, Moment
    <2> HIDE DEF value
    <2> DEFINE r == [job[p] EXCEPT !.expected = value]
    <2>3. job' = [job EXCEPT ![p] = r]
      BY <1>1, <2>1
    <2>4. DOMAIN r = JobFields /\ r.batch = job[p].batch /\ r.config = job[p].config
          /\ r.plan = job[p].plan /\ r.read = job[p].read
      BY <1>1 DEF JobFields
    <2> HIDE DEF r
    <2>5. OnlyMoves(p) /\ pc'[p] = "hashed" /\ job'[p] = r
      BY <2>1, <2>3, <2>4, TypedGoes
    <2>6. JobTyped(p)' /\ LockMoves(p)
      BY <1>2, <2>1, <2>2, <2>4, <2>5 DEF JobTyped, LockMoves, Moment, IsPlan, Paths
    <2>7. StoreTyped'
      BY <1>2, StoreStays
    <2>8. QED
      BY <2>5, <2>6, <2>7, MoveKeepsTyped
  <1>6. QED
    BY <1>3, <1>4, <1>5

LEMMA LockingTyped ==
  ASSUME Typed, NEW p \in Procs, Lock(p) \/ Compare(p)
  PROVE  Typed'
  <1>1. StoreTyped /\ JobTyped(p) /\ HoldsLock(p)
    BY DEF Typed
  <1>2. StoreTyped'
    BY StoreStays DEF Lock, Compare
  <1>3. CASE Lock(p) /\ End(p)
    <2>1. pc[p] \notin {"locked", "compared"} /\ lock' = lock
      BY <1>3 DEF Lock, End, Goto, NoJob, Typed
    <2>2. QED
      BY <1>2, <1>3, <2>1, TypedEnds
  <1>4. CASE Lock(p) /\ ~End(p)
    <2>1. /\ lock = NoLock /\ lock' = p /\ pc[p] = "hashed"
          /\ Goto(p, "locked") /\ UNCHANGED job
      BY <1>4 DEF Lock
    <2>2. OnlyMoves(p) /\ pc'[p] = "locked" /\ job'[p] = job[p]
      BY <2>1, TypedStays
    <2>3. JobTyped(p)' /\ LockMoves(p)
      BY <1>1, <2>1, <2>2 DEF JobTyped, LockMoves, Moment, IsPlan, Paths
    <2>4. QED
      BY <1>2, <2>2, <2>3, MoveKeepsTyped
  <1>5. CASE Compare(p) /\ AsExpected(job[p].expected)
    <2>1. pc[p] = "locked" /\ Goto(p, "compared") /\ UNCHANGED <<job, lock>>
      BY <1>5 DEF Compare
    <2>2. OnlyMoves(p) /\ pc'[p] = "compared" /\ job'[p] = job[p]
      BY <2>1, TypedStays
    <2>3. JobTyped(p)' /\ LockMoves(p)
      BY <1>1, <2>1, <2>2 DEF JobTyped, LockMoves, Moment, IsPlan, Paths
    <2>4. QED
      BY <1>2, <2>2, <2>3, MoveKeepsTyped
  <1>6. CASE Compare(p) /\ ~AsExpected(job[p].expected)
    <2>1. lock = p /\ lock' = NoLock /\ End(p)
      BY <1>1, <1>6 DEF Compare, HoldsLock
    <2>2. QED
      BY <1>2, <2>1, TypedEnds
  <1>7. QED
    BY <1>3, <1>4, <1>5, <1>6

LEMMA CommitTyped ==
  ASSUME Typed, NEW p \in Procs, Commit(p) \/ CommitFails(p)
  PROVE  Typed'
  <1>1. StoreTyped /\ JobTyped(p) /\ HoldsLock(p)
    BY DEF Typed
  <1>2. pc[p] = "compared" /\ lock' = NoLock /\ End(p)
    BY DEF Commit, CommitFails
  <1>3. lock = p
    BY <1>1, <1>2 DEF HoldsLock
  <1>4. CASE Commit(p)
    <2>1. files' = Result(files, job[p].read, job[p].plan.items)
          /\ UNCHANGED <<config, row, inventory, plan, verified>>
      BY <1>4 DEF Commit
    <2>2. Paths(files) \subseteq Docs /\ Paths(job[p].read) \subseteq Docs
          /\ \A it \in job[p].plan.items : it.target \in Docs
      BY <1>1, <1>2 DEF StoreTyped, JobTyped, Moment, IsPlan
    <2>3. Paths(Result(files, job[p].read, job[p].plan.items)) \subseteq Docs
      BY <2>2, ResultInDocs
    <2>4. (Paths(files) \subseteq Docs)'
      BY <2>1, <2>3 DEF Paths
    <2>5. StoreTyped'
      BY <1>1, <2>1, <2>4 DEF StoreTyped
    <2>6. QED
      BY <1>2, <1>3, <2>5, TypedEnds
  <1>5. CASE CommitFails(p)
    <2>1. StoreTyped'
      BY <1>5, StoreStays DEF CommitFails
    <2>2. QED
      BY <1>2, <1>3, <2>1, TypedEnds
  <1>6. QED
    BY <1>4, <1>5

(* Nothing moves: the store may change.                                    *)
LEMMA StillTyped ==
  ASSUME Typed, StoreTyped', UNCHANGED <<lock, pc, job>>
  PROVE  Typed'
  <1>1. ASSUME NEW q \in Procs PROVE DOMAIN job'[q] = JobFields /\ JobTyped(q)' /\ HoldsLock(q)'
    BY DEF Typed, JobTyped, HoldsLock
  <1>2. QED
    BY <1>1 DEF Typed

LEMMA HumanTyped ==
  ASSUME Typed,
         \/ \E b \in Batches : Approve(b)
         \/ \E p \in Procs, b \in Batches : Verify(p, b)
         \/ \E d \in Docs : (\E text \in EditorTexts[d] : Save(d, text)) \/ Remove(d)
         \/ \E c \in Configs : Reconfigure(c)
  PROVE  Typed'
  <1>1. StoreTyped
    BY DEF Typed
  <1>2. ASSUME NEW b \in Batches, Approve(b) PROVE Typed'
    <2> DEFINE done == {[it EXCEPT !.approved = TRUE] : it \in plan[b].items}
               pl   == [plan[b] EXCEPT !.items = done]
    <2>1. /\ plan[b] # None /\ DOMAIN plan = Batches /\ IsPlan(plan[b])
          /\ plan' = [plan EXCEPT ![b].items = {[it EXCEPT !.approved = TRUE] : it \in @}]
          /\ UNCHANGED <<files, config, row, inventory, verified, lock, pc, job>>
      BY <1>1, <1>2 DEF Approve, StoreTyped
    <2>2. \A it \in done : DOMAIN it = ItemFields /\ it.target \in Docs
      BY <2>1 DEF IsPlan, ItemFields
    <2>3. plan' = [plan EXCEPT ![b] = pl]
      BY <2>1
    <2> HIDE DEF done
    <2>4. DOMAIN pl = PlanFields /\ pl.config \in Configs /\ pl.items = done
      BY <2>1 DEF IsPlan, PlanFields
    <2> HIDE DEF pl
    <2>5. IsPlan(pl)
      BY <2>2, <2>4 DEF IsPlan
    <2>6. DOMAIN plan' = Batches /\ \A x \in Batches : plan'[x] # None => IsPlan(plan'[x])
      BY <1>1, <2>1, <2>3, <2>5 DEF StoreTyped
    <2>7. \A x \in Batches : IsPlan(plan'[x]) => IsPlan(plan[x])'
      BY DEF IsPlan
    <2>8. StoreTyped'
      BY <1>1, <2>1, <2>6, <2>7 DEF StoreTyped, IsInventory, Paths
    <2>9. QED
      BY <2>1, <2>8, StillTyped
  <1>3. ASSUME NEW p \in Procs, NEW b \in Batches, Verify(p, b) PROVE Typed'
    <2>1. UNCHANGED <<files, config, row, inventory, plan, lock, pc, job>>
          /\ \E v \in {"ok", "needs-review"} : verified' = [verified EXCEPT ![b] = v]
      BY <1>3 DEF Verify
    <2>2. StoreTyped'
      BY <1>1, <2>1 DEF StoreTyped, IsInventory, IsPlan, Paths
    <2>3. QED
      BY <2>1, <2>2, StillTyped
  <1>4. ASSUME NEW d \in Docs, \/ \E text \in EditorTexts[d] : Save(d, text)
                               \/ Remove(d)
        PROVE Typed'
    <2>1. Paths(files)' \subseteq Docs /\ UNCHANGED <<config, batchVars, lock, pc, job>>
      BY <1>1, <1>4 DEF Save, Remove, StoreTyped, Paths
    <2>2. StoreTyped'
      BY <1>1, <2>1 DEF StoreTyped, batchVars, IsInventory, IsPlan, Paths
    <2>3. QED
      BY <2>1, <2>2, StillTyped
  <1>5. ASSUME NEW c \in Configs, Reconfigure(c) PROVE Typed'
    <2>1. config' \in Configs /\ UNCHANGED <<files, batchVars, lock, pc, job>>
      BY <1>5 DEF Reconfigure
    <2>2. StoreTyped'
      BY <1>1, <2>1 DEF StoreTyped, batchVars, IsInventory, IsPlan, Paths
    <2>3. QED
      BY <2>1, <2>2, StillTyped
  <1>6. QED
    BY <1>2, <1>3, <1>4, <1>5

LEMMA KillTyped ==
  ASSUME Typed, NEW p \in Procs, Kill(p)
  PROVE  Typed'
  <1>1. StoreTyped' /\ HoldsLock(p)
    BY StoreStays DEF Kill, Typed
  <1>2. End(p) /\ lock' = IF lock = p THEN NoLock ELSE lock
    BY DEF Kill
  <1>3. CASE lock = p
    BY <1>1, <1>2, <1>3, TypedEnds
  <1>4. CASE lock # p
    <2>1. lock' = lock /\ pc[p] \notin {"locked", "compared"}
      BY <1>1, <1>2, <1>4 DEF HoldsLock
    <2>2. QED
      BY <1>1, <1>2, <2>1, TypedEnds
  <1>5. QED
    BY <1>3, <1>4

LEMMA InitTyped == Init => Typed
  <1> SUFFICES ASSUME Init PROVE Typed
    OBVIOUS
  <1>1. StoreTyped
    BY VaultAssumption, ConfigsAssumption DEF Init, StoreTyped, Paths
  <1>2. \A p \in Procs : DOMAIN job[p] = JobFields /\ pc[p] = "idle"
    BY DEF Init, NoJob, JobFields
  <1>3. \A p \in Procs : JobTyped(p) /\ HoldsLock(p)
    BY <1>2, NoLockAssumption DEF Init, JobTyped, HoldsLock, Moment
  <1>4. QED
    BY <1>1, <1>2, <1>3 DEF Init, Typed

LEMMA StepTyped == Typed /\ [Next]_vars => Typed'
  <1> SUFFICES ASSUME Typed, [Next]_vars PROVE Typed'
    OBVIOUS
  <1>1. ASSUME NEW p \in Procs, NEW b \in Batches,
               StartInventory(p, b) \/ StartPlan(p, b) \/ StartApply(p, b)
        PROVE  Typed'
    BY <1>1, BeginTyped DEF StartInventory, StartPlan, StartApply
  <1>2. ASSUME NEW p \in Procs, ApplyStep(p) PROVE Typed'
    BY <1>2, CheckTyped, ReadingTyped, LockingTyped, CommitTyped DEF ApplyStep
  <1>3. CASE UNCHANGED vars
    <2>1. UNCHANGED <<files, config, batchVars>> /\ UNCHANGED <<lock, pc, job>>
      BY <1>3 DEF vars
    <2>2. QED
      BY <2>1, StoreStays, StillTyped
  <1>4. QED
    BY <1>1, <1>2, <1>3, InventoryTyped, PlanTyped, KillTyped, HumanTyped DEF Next

(* Whatever happens, the documents and the batches' records are of their   *)
(* kinds, and exactly the process between the lock of apply and its end    *)
(* holds the lock (locking.py:15, restructure_service.py:394).             *)
THEOREM TypesStay == Spec => []TypeOK
  <1>1. Typed => TypeOK
    BY DEF Typed, StoreTyped, TypeOK, HoldsLock, IsPlan, IsInventory
  <1>2. QED
    BY <1>1, InitTyped, StepTyped, PTL DEF Spec
=============================================================================
