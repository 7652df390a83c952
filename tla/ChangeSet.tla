----------------------------- MODULE ChangeSet -----------------------------
(***************************************************************************)
(* FileChangeExecutor.transaction (common/filesystem/change_set.py) with   *)
(* optimistic_write_lock, capture_snapshot and snapshot_changes            *)
(* (common/governance) and atomic_write_bytes (common/filesystem/atomic):  *)
(* a planned set of moves, writes, deletes and directory removals runs     *)
(* under the Workspace's write lock, after the digests it was planned on   *)
(* have been compared again, and is undone step by step when one of its    *)
(* steps, or the caller's step inside the with statement, raises.          *)
(*                                                                         *)
(* Several writers share one Vault and one lock.  An editor that knows     *)
(* nothing of the lock changes single files at any moment.  A writer may   *)
(* be killed (its lock file stays, with the PID of a dead process) or      *)
(* interrupted (KeyboardInterrupt is not an Exception: no compensation,    *)
(* but the lock is released).  The lock itself excludes: WriteLock shows   *)
(* when that holds.                                                        *)
(***************************************************************************)
EXTENDS VaultTree, FiniteSetsExt

CONSTANTS
  Writers,        \* the governed writers, processes of the same Workspace
  Contents,       \* what a file may contain
  ChangeSets,     \* the change sets each writer may ask for
  NoLock,         \* the lock is free
  EditorText,     \* the contents an editor saves
  InitialTrees,   \* the Vaults to start from
  MaxEdits,       \* bound on the editor's changes
  MaxKills        \* bound on killed and interrupted writers

ASSUME NoLockAssumption == NoLock \notin Writers

MoveRecords  == [source : Paths, target : Paths]
WriteRecords == [path : Paths, content : Contents]

IsChangeSet(c) ==
  c \in [moves : Seq(MoveRecords), writes : Seq(WriteRecords), deletes : Seq(Paths),
          rmdirs : Seq(Paths), expect : SUBSET Paths]

(* The services move one directory, or the files of one directory, each to *)
(* a path of its own; they write each path once, at the place where it     *)
(* will be, so nothing below what they move away.                          *)
MovesApart(c) ==
  \A i, j \in DOMAIN c.moves : i # j =>
    /\ ~Related(c.moves[i].source, c.moves[j].source)
    /\ ~Related(c.moves[i].target, c.moves[j].target)
    /\ ~Under(c.moves[i].target, c.moves[j].source)
WritesApart(c) ==
  /\ \A i, j \in DOMAIN c.writes : i # j => c.writes[i].path # c.writes[j].path
  /\ \A x \in Elements(c.writes), m \in Elements(c.moves) :
       Under(x.path, m.source) => x.path = m.source
MovesStayInPaths(c) ==
  \A m \in Elements(c.moves), p \in Paths :
    Under(p, m.source) => Rebased(p, m.source, m.target) \in Paths

ASSUME ChangeSetsAssumption ==
  \A w \in Writers : \A c \in ChangeSets[w] :
    IsChangeSet(c) /\ MovesApart(c) /\ WritesApart(c) /\ MovesStayInPaths(c)

ASSUME VaultsAssumption ==
  /\ Dir \notin Contents /\ Absent \notin Contents /\ EditorText \subseteq Contents
  /\ \A t \in InitialTrees : t \in [Paths -> Contents \union {Dir, Absent}] /\ Coherent(t)
  /\ MaxEdits \in Nat /\ MaxKills \in Nat

VARIABLES
  tree,       \* the Vault
  lock,       \* the writer that holds the write lock, or NoLock
  pc,         \* where each writer is
  cs,         \* each writer's change set
  planned,    \* FileChangeSet.expected: the digests its plan was made from
  snapshot,   \* the digests that are compared under the lock
  todo,       \* the steps the lock holder still has to take, in order
  moved,      \* completed_moves
  made,       \* created_directories
  removed,    \* removed_directories
  originals,  \* what the paths to write or delete held after the moves
  before,     \* history: the tree the lock holder found when it compared
  calm,       \* history: a behaviour without edits, kills and interrupts
  edits,      \* history: the number of edits so far
  kills       \* history: the number of killed and interrupted writers so far

planVars    == <<cs, planned, snapshot>>
journalVars == <<moved, made, removed, originals>>
historyVars == <<before, calm, edits, kills>>
vars == <<tree, lock, pc, todo, planVars, journalVars, historyVars>>

NoChange == [moves |-> << >>, writes |-> << >>, deletes |-> << >>, rmdirs |-> << >>,
             expect |-> {}]
NoDigests == [p \in {} |-> Absent]

Locked == {"locked", "verified", "run", "undo", "commit", "undone"}
Ended  == {"ok", "failed", "refused", "torn", "killed", "interrupted"}

----------------------------------------------------------------------------
(* A change set, a record of sequences, as the sequence of its steps.      *)
Tagged(op, s) == [i \in DOMAIN s |-> [op |-> op, arg |-> s[i]]]

(* The try block of transaction; "body" is the caller's with statement.    *)
Steps(c) ==
  Tagged("move", c.moves) \o Tagged("read", <<c>>) \o Tagged("write", c.writes)
    \o Tagged("delete", c.deletes) \o Tagged("rmdir", c.rmdirs) \o Tagged("body", <<c>>)

ContentPaths(c) == {x.path : x \in Elements(c.writes)} \union Elements(c.deletes)

(* FileChangeSet.paths *)
AllPaths(c) == ContentPaths(c) \union Elements(c.rmdirs)
                 \union {m.source : m \in Elements(c.moves)}
                 \union {m.target : m \in Elements(c.moves)}

(* Mutated form of UndoSteps: completed moves are forgotten.               *)
UndoStepsWithoutMoves(dirs) ==
  Tagged("mkdir", Reverse(removed)) \o Tagged("restore", SetToSeq(DOMAIN originals))
    \o Tagged("rmmade", Reverse(dirs))

(* The except block: removed directories come back, then contents, then    *)
(* the moves in reverse, and last the directories made for the moves.      *)
UndoSteps(dirs) ==
  Tagged("mkdir", Reverse(removed)) \o Tagged("restore", SetToSeq(DOMAIN originals))
    \o Tagged("moveback", Reverse(moved)) \o Tagged("rmmade", Reverse(dirs))

(* The abstract view: the change shows when the last step has succeeded.   *)
VisibleFiles ==
  FilesOf(IF \E w \in Writers : pc[w] \in {"run", "undo"} THEN before ELSE tree)
Outcome ==
  [w \in Writers |-> CASE pc[w] \in {"commit", "ok"} -> "ok"
                       [] pc[w] \in {"undone", "failed", "refused"} -> "refused"
                       [] pc[w] = "torn" -> "torn"
                       [] OTHER -> "pending"]

(* AtomicChange knows no editor and no kill: it is about calm behaviours.  *)
CalmFiles   == IF calm THEN VisibleFiles ELSE [p \in Paths |-> Absent]
CalmOutcome == IF calm THEN Outcome ELSE [w \in Writers |-> "pending"]
Atomic == INSTANCE AtomicChange WITH files <- CalmFiles, outcome <- CalmOutcome

Goto(w, stage) == pc' = [pc EXCEPT ![w] = stage]
Leave(w, how)  == Goto(w, how) /\ lock' = NoLock

Next1 == Head(todo).op
Arg   == Head(todo).arg
Done1 == todo' = Tail(todo)

Init ==
  /\ tree \in InitialTrees
  /\ lock = NoLock
  /\ pc = [w \in Writers |-> "idle"]
  /\ cs = [w \in Writers |-> NoChange]
  /\ planned = [w \in Writers |-> NoDigests]
  /\ snapshot = [w \in Writers |-> NoDigests]
  /\ todo = << >> /\ moved = << >> /\ made = << >> /\ removed = << >>
  /\ originals = NoDigests
  /\ before = tree
  /\ calm \in BOOLEAN
  /\ edits = 0 /\ kills = 0

----------------------------------------------------------------------------
(* Before the lock                                                         *)

(* The caller reads the Vault and builds a change set from what it read.   *)
Plan(w) ==
  /\ pc[w] = "idle"
  /\ \E c \in ChangeSets[w] :
       /\ cs' = [cs EXCEPT ![w] = c]
       /\ planned' = [planned EXCEPT ![w] = [p \in c.expect |-> Digest(tree, p)]]
  /\ Goto(w, "planned")
  /\ UNCHANGED <<tree, lock, todo, snapshot, journalVars, historyVars>>

TakeSnapshotOnly(w) ==
  /\ pc[w] = "planned"
  /\ snapshot' = [snapshot EXCEPT ![w] = [p \in AllPaths(cs[w]) |-> Digest(tree, p)]]
  /\ Goto(w, "ready")
  /\ UNCHANGED <<tree, lock, todo, cs, planned, journalVars, historyVars>>

(* capture_snapshot of the set's paths, overlaid with the planned digests. *)
TakeSnapshot(w) ==
  /\ pc[w] = "planned"
  /\ snapshot' = [snapshot EXCEPT
       ![w] = [p \in cs[w].expect \union AllPaths(cs[w]) |->
                 IF p \in cs[w].expect THEN planned[w][p] ELSE Digest(tree, p)]]
  /\ Goto(w, "ready")
  /\ UNCHANGED <<tree, lock, todo, cs, planned, journalVars, historyVars>>

AcquireWhileHeld(w) ==
  /\ pc[w] = "ready"
  /\ lock' = w /\ Goto(w, "locked")
  /\ UNCHANGED <<tree, todo, planVars, journalVars, historyVars>>

(* workspace_write_lock: free, or left by a dead process; never waits.     *)
Acquire(w) ==
  /\ pc[w] = "ready"
  /\ IF lock = NoLock \/ pc[lock] = "killed"
       THEN lock' = w /\ Goto(w, "locked")
       ELSE Goto(w, "refused") /\ UNCHANGED lock
  /\ UNCHANGED <<tree, todo, planVars, journalVars, historyVars>>

----------------------------------------------------------------------------
(* Under the lock, before the first change                                 *)

(* snapshot_changes: any difference is "concurrent-change".                *)
Compare(w) ==
  /\ pc[w] = "locked"
  /\ IF \A p \in DOMAIN snapshot[w] : Digest(tree, p) = snapshot[w][p]
       THEN /\ Goto(w, "verified") /\ UNCHANGED lock
            /\ before' = tree
       ELSE Leave(w, "refused") /\ UNCHANGED before
  /\ UNCHANGED <<tree, todo, planVars, journalVars, calm, edits, kills>>

(* before_write raises: the caller's own check under the lock.             *)
HookRefuses(w) ==
  /\ pc[w] = "verified"
  /\ Leave(w, "refused")
  /\ UNCHANGED <<tree, todo, planVars, journalVars, historyVars>>

ValidMove(m) ==
  /\ Exists(tree, m.source)
  /\ ~Exists(tree, m.target)
  /\ ~Under(m.target, m.source)

(* before_write returned; _validate_moves; the empty journals.             *)
ValidateMoves(w) ==
  /\ pc[w] = "verified"
  /\ IF \A m \in Elements(cs[w].moves) : ValidMove(m)
       THEN /\ Goto(w, "run") /\ UNCHANGED lock
            /\ todo' = Steps(cs[w])
            /\ moved' = << >> /\ made' = << >> /\ removed' = << >>
            /\ originals' = NoDigests
       ELSE Leave(w, "refused") /\ UNCHANGED <<todo, journalVars>>
  /\ UNCHANGED <<tree, planVars, historyVars>>

----------------------------------------------------------------------------
(* The steps of the change set                                             *)
Running(w, op) == pc[w] = "run" /\ Next1 = op

(* _create_parents: from the target upwards to the first that is there     *)
NewDirs(m) ==
  LET there == {n \in 0..(Len(m.target) - 1) : IsDir(tree, SubSeq(m.target, 1, n))}
  IN  [i \in 1..(Len(m.target) - 1 - Max(there)) |-> SubSeq(m.target, 1, Max(there) + i)]

DoMove(w) ==
  /\ Running(w, "move")
  /\ LET ready == WithParents(tree, Arg.target)
     IN  /\ Reachable(tree, Arg.target)
         /\ CanRename(ready, Arg.source, Arg.target)
         /\ tree' = Renamed(ready, Arg.source, Arg.target)
  /\ made' = made \o NewDirs(Arg)
  /\ moved' = Append(moved, Arg)
  /\ Done1
  /\ UNCHANGED <<lock, pc, removed, originals, planVars, historyVars>>

ReadOriginals(w) ==
  /\ Running(w, "read")
  /\ originals' = [p \in ContentPaths(Arg) |-> Digest(tree, p)]
  /\ Done1
  /\ UNCHANGED <<tree, lock, pc, moved, made, removed, planVars, historyVars>>

DoWrite(w) ==
  /\ Running(w, "write")
  /\ CanWrite(tree, Arg.path)
  /\ tree' = Written(tree, Arg.path, Arg.content)
  /\ Done1
  /\ UNCHANGED <<lock, pc, journalVars, planVars, historyVars>>

DoDelete(w) ==
  /\ Running(w, "delete")
  /\ CanUnlink(tree, Arg)
  /\ tree' = [tree EXCEPT ![Arg] = Absent]
  /\ Done1
  /\ UNCHANGED <<lock, pc, journalVars, planVars, historyVars>>

DoRmdir(w) ==
  /\ Running(w, "rmdir")
  /\ CanRmdir(tree, Arg)
  /\ tree' = [tree EXCEPT ![Arg] = Absent]
  /\ removed' = Append(removed, Arg)
  /\ Done1
  /\ UNCHANGED <<lock, pc, moved, made, originals, planVars, historyVars>>

(* The caller's step inside the with statement succeeds: nothing can fail  *)
(* any more.                                                               *)
DoBody(w) ==
  /\ Running(w, "body")
  /\ Goto(w, "commit")
  /\ Done1
  /\ UNCHANGED <<tree, lock, journalVars, planVars, historyVars>>

(* A move raises an OSError, before or after its parents were made.        *)
FailMove(w) ==
  /\ Running(w, "move")
  /\ Goto(w, "undo")
  /\ \/ UNCHANGED <<tree, made>> /\ todo' = UndoSteps(made)
     \/ /\ Reachable(tree, Arg.target)
        /\ tree' = WithParents(tree, Arg.target)
        /\ made' = made \o NewDirs(Arg)
        /\ todo' = UndoSteps(made \o NewDirs(Arg))
  /\ UNCHANGED <<lock, moved, removed, originals, planVars, historyVars>>

(* Any other step raises; a write may have made its parents by then.       *)
FailStep(w) ==
  /\ pc[w] = "run" /\ Next1 # "move"
  /\ Goto(w, "undo")
  /\ \/ UNCHANGED tree
     \/ /\ Next1 = "write" /\ Reachable(tree, Arg.path)
        /\ tree' = WithParents(tree, Arg.path)
  /\ todo' = UndoSteps(made)
  /\ UNCHANGED <<lock, journalVars, planVars, historyVars>>

----------------------------------------------------------------------------
(* Compensation                                                            *)
Undoing(w, op) == pc[w] = "undo" /\ todo # << >> /\ Next1 = op

UndoRmdir(w) ==
  /\ Undoing(w, "mkdir")
  /\ CanMkdir(tree, Arg)
  /\ tree' = [WithParents(tree, Arg) EXCEPT ![Arg] = Dir]
  /\ Done1
  /\ UNCHANGED <<lock, pc, journalVars, planVars, historyVars>>

UndoContent(w) ==
  /\ Undoing(w, "restore")
  /\ IF originals[Arg] = Absent
       THEN CanUnlink(tree, Arg) /\ tree' = [tree EXCEPT ![Arg] = Absent]
       ELSE CanWrite(tree, Arg) /\ tree' = Written(tree, Arg, originals[Arg])
  /\ Done1
  /\ UNCHANGED <<lock, pc, journalVars, planVars, historyVars>>

(* A move back is left out when it could not work, without an error.       *)
UndoMove(w) ==
  /\ Undoing(w, "moveback")
  /\ IF Exists(tree, Arg.target) /\ ~Exists(tree, Arg.source)
       THEN /\ CanRename(tree, Arg.target, Arg.source)
            /\ tree' = Renamed(tree, Arg.target, Arg.source)
       ELSE UNCHANGED tree
  /\ Done1
  /\ UNCHANGED <<lock, pc, journalVars, planVars, historyVars>>

UndoMadeDir(w) ==
  /\ Undoing(w, "rmmade")
  /\ tree' = IF CanRmdir(tree, Arg) THEN [tree EXCEPT ![Arg] = Absent] ELSE tree
  /\ Done1
  /\ UNCHANGED <<lock, pc, journalVars, planVars, historyVars>>

UndoDone(w) ==
  /\ pc[w] = "undo" /\ todo = << >>
  /\ Goto(w, "undone")
  /\ UNCHANGED <<tree, lock, todo, journalVars, planVars, historyVars>>

(* An OSError in the handler: "file-rollback-failed".                      *)
UndoFails(w) ==
  /\ pc[w] = "undo" /\ todo # << >> /\ Next1 # "rmmade"
  /\ Leave(w, "torn")
  /\ todo' = << >>
  /\ UNCHANGED <<tree, journalVars, planVars, historyVars>>

(* The with statement is left: the lock is released, the result returned   *)
(* or the first exception raised again.                                    *)
Finish(w) ==
  /\ \/ pc[w] = "commit" /\ Leave(w, "ok")
     \/ pc[w] = "undone" /\ Leave(w, "failed")
  /\ UNCHANGED <<tree, todo, journalVars, planVars, historyVars>>

----------------------------------------------------------------------------
(* The environment                                                         *)

(* SIGKILL or power loss: no finally block runs, the lock file stays.      *)
Kill(w) ==
  /\ ~calm /\ kills < MaxKills
  /\ pc[w] \in Locked
  /\ Goto(w, "killed")
  /\ kills' = kills + 1
  /\ UNCHANGED <<tree, lock, todo, journalVars, planVars, before, calm, edits>>

(* KeyboardInterrupt: except Exception does not see it, finally does.      *)
Interrupt(w) ==
  /\ ~calm /\ kills < MaxKills
  /\ pc[w] \in Locked
  /\ Leave(w, "interrupted")
  /\ kills' = kills + 1
  /\ UNCHANGED <<tree, todo, journalVars, planVars, before, calm, edits>>

(* Someone saves, creates or removes one file.                             *)
Edit(p) ==
  /\ ~calm /\ edits < MaxEdits
  /\ tree[p] # Dir /\ IsDir(tree, Front(p))
  /\ \E content \in (EditorText \union {Absent}) \ {tree[p]} :
       tree' = [tree EXCEPT ![p] = content]
  /\ edits' = edits + 1
  /\ UNCHANGED <<lock, pc, todo, journalVars, planVars, before, calm, kills>>

WriterStep(w) ==
  \/ Plan(w) \/ TakeSnapshot(w) \/ Acquire(w) \/ Compare(w)
  \/ HookRefuses(w) \/ ValidateMoves(w)
  \/ DoMove(w) \/ ReadOriginals(w) \/ DoWrite(w) \/ DoDelete(w) \/ DoRmdir(w) \/ DoBody(w)
  \/ FailMove(w) \/ FailStep(w)
  \/ UndoRmdir(w) \/ UndoContent(w) \/ UndoMove(w) \/ UndoMadeDir(w) \/ UndoDone(w)
  \/ UndoFails(w) \/ Finish(w)

Next ==
  \/ \E w \in Writers : WriterStep(w) \/ Kill(w) \/ Interrupt(w)
  \/ \E p \in Paths : Edit(p)

Spec == Init /\ [][Next]_vars

----------------------------------------------------------------------------
(* Types, and who may be inside: the holder of the lock and nobody else.   *)
TypeOK ==
  /\ tree \in [Paths -> Contents \union {Dir, Absent}]
  /\ lock \in Writers \union {NoLock}
  /\ pc \in [Writers -> {"idle", "planned", "ready"} \union Locked \union Ended]
  /\ \A w \in Writers : cs[w] \in ChangeSets[w] \union {NoChange}
  /\ \A w \in Writers : pc[w] \in Locked => lock = w
  /\ lock # NoLock => pc[lock] \in Locked \union {"killed"}
  /\ Elements(made) \union Elements(removed) \union DOMAIN originals \subseteq Paths
  /\ edits \in 0..MaxEdits /\ kills \in 0..MaxKills
  /\ calm => edits = 0 /\ kills = 0

(* SPEC.md: a write compares, under the lock, the hashes its plan was made *)
(* from.  Whoever changed a planned path after the plan (an editor or      *)
(* another writer), the change set does not run: the snapshot taken later, *)
(* when the new content was already there, must not hide it.               *)
RunsOnPlannedContent ==
  \A w \in Writers :
    pc[w] \in {"run", "undo", "commit", "undone"} =>
      \A p \in cs[w].expect : Digest(before, p) = planned[w][p]

(* In a calm behaviour the executor implements AtomicChange: the           *)
(* intermediate trees are nobody's result.                                 *)
AtomicSpec == Atomic!ASpec

----------------------------------------------------------------------------
(* The inductive invariant behind RunsOnPlannedContent (ChangeSetProofs).  *)
Verified == {"verified", "run", "undo", "commit", "undone"}

Functions ==
  /\ pc = [w \in Writers |-> pc[w]] /\ cs = [w \in Writers |-> cs[w]]
  /\ planned = [w \in Writers |-> planned[w]] /\ snapshot = [w \in Writers |-> snapshot[w]]

(* Only the holder of the lock is inside.                                  *)
InsideHoldsLock == \A w \in Writers : pc[w] \in Locked => lock = w

(* The digests to compare are, for all planned paths, the planned ones.    *)
SnapshotIsPlanned ==
  \A w \in Writers : pc[w] \in {"ready"} \union Locked =>
    \A p \in cs[w].expect : p \in DOMAIN snapshot[w] /\ snapshot[w][p] = planned[w][p]

(* What the comparison has found, nobody else can find otherwise.          *)
FoundIsPlanned ==
  \A w \in Writers : pc[w] \in Verified =>
    \A p \in cs[w].expect : Digest(before, p) = planned[w][p]

IInv == Functions /\ InsideHoldsLock /\ SnapshotIsPlanned /\ FoundIsPlanned
=============================================================================
