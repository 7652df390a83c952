----------------------------- MODULE Restructure -----------------------------
(***************************************************************************)
(* workspace restructure: RestructureService (inventory, plan, apply,      *)
(* verify) and SqliteRestructureRepository.  A batch is a row in the       *)
(* database and four files: the inventory freezes the digests of a scope,  *)
(* the plan (from a specification, or from what the names and types        *)
(* suggest) lists moves and frontmatter patches, a human approves it, and  *)
(* apply carries it out as one change set that also rewrites references.   *)
(*                                                                         *)
(* The four commands are separate processes that may overlap.  Each loads  *)
(* the configuration once, when it starts.  Between its reads anybody may  *)
(* save, create or remove documents, change the configuration or start     *)
(* another command; the process may be killed.                             *)
(*                                                                         *)
(* A text is [body, ref, typed, style]: the one document its related_docs  *)
(* names, whether its frontmatter has a type, and the style of its bytes.  *)
(* The whole text stands for its own digest.  read_text turns the style    *)
(* "crlf" into "lf".  The write lock excludes here (WriteLock says when)   *)
(* and a change set is one step (ChangeSet says when).                     *)
(***************************************************************************)
EXTENDS Naturals, FiniteSets, FiniteSetsExt

CONSTANTS
  Procs,          \* the processes that run commands
  Batches,        \* the names of batches
  Docs,           \* the documents' paths
  Scope,          \* the paths an inventory covers
  Normal,         \* the name a typed document should have, at its place
  Prefixed,       \* the paths whose name tells the document's type
  Specs,          \* the specifications a human may write for each batch
  EditorTexts,    \* what an editor may save
  InitialFiles,   \* the Vaults to start from
  Configs,        \* the governance configurations, numbered in the order in
                  \* which they come into force: none comes back
  NoLock, None,
  Disturb,        \* may anybody change the Vault while apply is between
                  \* its preflight and its hashing of what it has read?
  MaxTrouble, MaxRounds    \* bounds: events of the environment, inventories

(* Every text has the four parts that the commands tell apart.             *)
IsText(t) == t = [body |-> t.body, ref |-> t.ref, typed |-> t.typed, style |-> t.style]

ASSUME VaultAssumption ==
  \A f \in InitialFiles :
    /\ DOMAIN f \subseteq Docs /\ f = [d \in DOMAIN f |-> f[d]]
    /\ \A d \in DOMAIN f : IsText(f[d])

ASSUME EditorAssumption == \A d \in Docs : \A t \in EditorTexts[d] : IsText(t)

ASSUME PlaceAssumption ==
  /\ Scope \subseteq Docs
  /\ \A d \in Docs : Normal[d] \in Docs
  /\ \A b \in Batches : \A spec \in Specs[b] : \A op \in spec : op.target \in Docs

ASSUME ConfigsAssumption == Min(Configs) \in Configs

ASSUME NoLockAssumption == NoLock \notin Procs

VARIABLES
  files,       \* the documents
  config,      \* the configuration in force
  row,         \* RestructureBatch.config_hash of each batch
  inventory,   \* inventory.json
  plan,        \* plan.json
  executed,    \* execution.json: the items it reports
  verified,    \* verification.json: its status
  lock,        \* the Workspace's write lock
  pc, job,     \* where each process is and what it has read
  trouble      \* history: edits, configuration changes and kills so far

batchVars   == <<row, inventory, plan, executed, verified>>
historyVars == <<trouble>>
vars == <<files, config, batchVars, lock, pc, job, historyVars>>

Paths(f) == DOMAIN f

NoJob == [batch |-> None, config |-> None, stamp |-> None, spec |-> None,
          inv |-> None, plan |-> None, read |-> None, expected |-> None]

Init ==
  /\ files \in InitialFiles
  /\ config = Min(Configs)
  /\ row = [b \in Batches |-> None]
  /\ inventory = [b \in Batches |-> None]
  /\ plan = [b \in Batches |-> None]
  /\ executed = [b \in Batches |-> None]
  /\ verified = [b \in Batches |-> None]
  /\ lock = NoLock
  /\ pc = [p \in Procs |-> "idle"]
  /\ job = [p \in Procs |-> NoJob]
  /\ trouble = 0

----------------------------------------------------------------------------
(* What a command does with the texts it has read                          *)

ReadText(text) == [text EXCEPT !.style = "lf"]
Rendered(text) == [text EXCEPT !.typed = TRUE, !.style = "lf"]

Sources(items) == {it.source : it \in items}
Targets(items) == {it.target : it \in items}
Moving(items)  == {it \in items : it.source # it.target}

(* rewrite_related_docs with the mapping of the items that move.           *)
Rewritten(text, items) ==
  IF text.ref \in Sources(Moving(items))
    THEN [text EXCEPT !.ref = (CHOOSE it \in Moving(items) : it.source = text.ref).target]
    ELSE text

Patched(read, it) == IF it.patch THEN Rendered(read[it.source]) ELSE read[it.source]

(* Mutated form of Contents: references stay as they are.                  *)
ContentsWithOldReferences(read, items) ==
  [d \in (Paths(read) \ Sources(items)) \union Targets(items) |->
     IF d \in Targets(items) THEN Patched(read, CHOOSE it \in items : it.target = d)
                             ELSE read[d]]

(* The documents as they shall be.                                         *)
Contents(read, items) ==
  [d \in (Paths(read) \ Sources(items)) \union Targets(items) |->
     Rewritten(IF d \in Targets(items)
                 THEN Patched(read, CHOOSE it \in items : it.target = d)
                 ELSE read[d], items)]

(* The paths that get new content; all others keep their bytes.            *)
Writes(read, items) ==
  LET new == Contents(read, items)
  IN  {d \in Paths(new) : d \notin Paths(read) \/ new[d] # read[d]}

Deletes(read, items) == Sources(items) \ Paths(Contents(read, items))

(* The change set carried out on the documents f.                          *)
Result(f, read, items) ==
  [d \in (Paths(f) \ Deletes(read, items)) \union Writes(read, items) |->
     IF d \in Writes(read, items) THEN Contents(read, items)[d] ELSE f[d]]

(* Mutated form of Expected: what is only rewritten is not compared.       *)
ExpectedOfItems(read, items) ==
  [found  |-> [d \in Paths(read) \intersect Sources(items) |-> files[d]],
   absent |-> Targets(items) \ Paths(read)]

(* expected: the digests of all that was read, and no file at a new place. *)
Expected(read, items) ==
  [found  |-> [d \in Paths(read) |-> files[d]],
   absent |-> Targets(items) \ Paths(read)]

(* snapshot_changes is empty.                                              *)
AsExpected(e) ==
  /\ \A d \in DOMAIN e.found : d \in Paths(files) /\ files[d] = e.found[d]
  /\ e.absent \intersect Paths(files) = {}

(* The items that the names and types of the inventoried documents suggest *)
Suggested(inv) ==
  LET typed(d) == files[d].typed \/ d \in Prefixed
  IN  {[source |-> d, target |-> Normal[d], hash |-> inv.items[d], patch |-> TRUE,
        approved |-> FALSE] :
         d \in {x \in Paths(inv.items) : typed(x) /\ (Normal[x] # x \/ ~files[x].typed)}}

Specified(spec, inv) ==
  {[source |-> op.source, target |-> op.target, hash |-> inv.items[op.source],
    patch |-> op.patch, approved |-> op.approved] : op \in spec}

AsInventoried(S, inv) ==
  /\ S \subseteq Paths(inv.items)
  /\ \A d \in S : d \in Paths(files) /\ files[d] = inv.items[d]

(* Mutated form of Preflight: the inventoried digest is not compared.      *)
PreflightWithoutHash(pl, current) ==
  /\ pl.config = current
  /\ \A it \in pl.items :
       /\ it.source \in Paths(files)
       /\ it.target # it.source => it.target \notin Paths(files)
  /\ Cardinality(Targets(pl.items)) = Cardinality(pl.items)
  /\ Cardinality(Sources(pl.items)) = Cardinality(pl.items)

(* No blocking issue.                                                      *)
Preflight(pl, current) ==
  /\ pl.config = current
  /\ \A it \in pl.items :
       /\ it.source \in Paths(files) /\ files[it.source] = it.hash
       /\ it.target # it.source => it.target \notin Paths(files)
  /\ Cardinality(Targets(pl.items)) = Cardinality(pl.items)
  /\ Cardinality(Sources(pl.items)) = Cardinality(pl.items)

----------------------------------------------------------------------------
Goto(p, stage) == pc' = [pc EXCEPT ![p] = stage]
End(p) == Goto(p, "idle") /\ job' = [job EXCEPT ![p] = NoJob]

(* A command starts: the settings are loaded.                              *)
Begin(p, b, stage, spec) ==
  /\ pc[p] = "idle"
  /\ Goto(p, stage)
  /\ job' = [job EXCEPT ![p] = [NoJob EXCEPT !.batch = b, !.config = config, !.spec = spec]]
  /\ UNCHANGED <<files, config, batchVars, lock, historyVars>>

Round(b) == IF inventory[b] = None THEN 0 ELSE inventory[b].round

----------------------------------------------------------------------------
(* inventory                                                               *)
StartInventory(p, b) ==
  /\ Round(b) < MaxRounds
  /\ Begin(p, b, "freeze", None)

Freeze(p) ==
  /\ pc[p] = "freeze"
  /\ job' = [job EXCEPT ![p].inv =
               [items |-> [d \in Scope \intersect Paths(files) |-> files[d]],
                round |-> Round(job[p].batch) + 1]]
  /\ Goto(p, "batch")
  /\ UNCHANGED <<files, config, batchVars, lock, historyVars>>

SaveBatch(p) ==
  /\ pc[p] = "batch"
  /\ row' = [row EXCEPT ![job[p].batch] = job[p].config]
  /\ Goto(p, "inventory")
  /\ UNCHANGED <<files, config, inventory, plan, executed, verified, lock, job, historyVars>>

SaveInventory(p) ==
  /\ pc[p] = "inventory"
  /\ inventory' = [inventory EXCEPT ![job[p].batch] = job[p].inv]
  /\ Goto(p, "drop")
  /\ UNCHANGED <<files, config, row, plan, executed, verified, lock, job, historyVars>>

(* The plan of an earlier inventory is removed, and its approval with it.  *)
DropPlan(p) ==
  /\ pc[p] = "drop"
  /\ plan' = [plan EXCEPT ![job[p].batch] = None]
  /\ End(p)
  /\ UNCHANGED <<files, config, row, inventory, executed, verified, lock, historyVars>>

----------------------------------------------------------------------------
(* plan                                                                    *)
StartPlan(p, b) == \E spec \in Specs[b] \union {None} : Begin(p, b, "row", spec)

(* load_inventory: the row, then the file; either may be missing.          *)
LoadRow(p) ==
  /\ pc[p] = "row"
  /\ IF row[job[p].batch] = None THEN End(p)
     ELSE Goto(p, "load") /\ job' = [job EXCEPT ![p].stamp = row[job[p].batch]]
  /\ UNCHANGED <<files, config, batchVars, lock, historyVars>>

LoadInventory(p) ==
  /\ pc[p] = "load"
  /\ IF inventory[job[p].batch] = None THEN End(p)
     ELSE Goto(p, "plan") /\ job' = [job EXCEPT ![p].inv = inventory[job[p].batch]]
  /\ UNCHANGED <<files, config, batchVars, lock, historyVars>>

(* Any issue blocks the whole plan.  checked and round are history: the    *)
(* configuration the items were judged by and the inventory they are from. *)
MakePlan(p) ==
  LET inv  == job[p].inv
      spec == job[p].spec
      made(items) == [items |-> items, config |-> job[p].stamp,
                      checked |-> job[p].config, round |-> inv.round]
  IN  /\ pc[p] = "plan"
      /\ \/ /\ spec = None /\ AsInventoried(Paths(inv.items), inv)
            /\ job' = [job EXCEPT ![p].plan = made(Suggested(inv))]
            /\ Goto(p, "save")
         \/ /\ spec # None /\ AsInventoried(Sources(spec), inv)
            /\ job' = [job EXCEPT ![p].plan = made(Specified(spec, inv))]
            /\ Goto(p, "save")
         \/ /\ ~AsInventoried(IF spec = None THEN Paths(inv.items) ELSE Sources(spec), inv)
            /\ End(p)
      /\ UNCHANGED <<files, config, batchVars, lock, historyVars>>

SavePlan(p) ==
  /\ pc[p] = "save"
  /\ plan' = [plan EXCEPT ![job[p].batch] = job[p].plan]
  /\ End(p)
  /\ UNCHANGED <<files, config, row, inventory, executed, verified, lock, historyVars>>

(* A human sets approved in plan.json.                                     *)
Approve(b) ==
  /\ plan[b] # None
  /\ \E it \in plan[b].items : ~it.approved
  /\ plan' = [plan EXCEPT ![b].items = {[it EXCEPT !.approved = TRUE] : it \in @}]
  /\ UNCHANGED <<files, config, row, inventory, executed, verified, lock, pc, job, historyVars>>

----------------------------------------------------------------------------
(* apply --confirm                                                         *)
StartApply(p, b) == Begin(p, b, "loadplan", None)

LoadPlan(p) ==
  /\ pc[p] = "loadplan"
  /\ IF plan[job[p].batch] = None \/ row[job[p].batch] = None \/ inventory[job[p].batch] = None
       THEN End(p)
       ELSE /\ Goto(p, "preflight")
            /\ job' = [job EXCEPT ![p].plan = plan[job[p].batch]]
  /\ UNCHANGED <<files, config, batchVars, lock, historyVars>>

(* Blocked, unapproved or empty plans end here.                            *)
CheckPlan(p) ==
  LET pl == job[p].plan
  IN  /\ pc[p] = "preflight"
      /\ IF /\ Preflight(pl, job[p].config)
            /\ pl.items # {} /\ \A it \in pl.items : it.approved
           THEN Goto(p, "checked") /\ UNCHANGED job
           ELSE End(p)
      /\ UNCHANGED <<files, config, batchVars, lock, historyVars>>

(* Every document of the Vault is read; one that an item names and that is *)
(* no longer there raises.                                                 *)
ReadReferences(p) ==
  /\ pc[p] = "checked"
  /\ IF Sources(job[p].plan.items) \subseteq Paths(files)
       THEN /\ Goto(p, "read")
            /\ job' = [job EXCEPT ![p].read = [d \in Paths(files) |-> ReadText(files[d])]]
       ELSE End(p)
  /\ UNCHANGED <<files, config, batchVars, lock, historyVars>>

(* What was read is hashed, from the files as they are now.                *)
HashReferences(p) ==
  /\ pc[p] = "read"
  /\ IF Paths(job[p].read) \subseteq Paths(files)
       THEN /\ Goto(p, "hashed")
            /\ job' = [job EXCEPT ![p].expected = Expected(job[p].read, job[p].plan.items)]
       ELSE End(p)
  /\ UNCHANGED <<files, config, batchVars, lock, historyVars>>

Lock(p) ==
  /\ pc[p] = "hashed"
  /\ IF lock = NoLock THEN lock' = p /\ Goto(p, "locked") /\ UNCHANGED job
                      ELSE End(p) /\ UNCHANGED lock
  /\ UNCHANGED <<files, config, batchVars, historyVars>>

(* Mutated form of Compare: a refusal does not release the lock.           *)
CompareKeepingLock(p) ==
  /\ pc[p] = "locked"
  /\ IF AsExpected(job[p].expected)
       THEN Goto(p, "compared") /\ UNCHANGED job
       ELSE End(p)
  /\ UNCHANGED <<files, config, batchVars, lock, historyVars>>

Compare(p) ==
  /\ pc[p] = "locked"
  /\ IF AsExpected(job[p].expected)
       THEN Goto(p, "compared") /\ UNCHANGED <<job, lock>>
       ELSE End(p) /\ lock' = NoLock
  /\ UNCHANGED <<files, config, batchVars, historyVars>>

(* The change set and, as its last step, execution.json.                   *)
Commit(p) ==
  /\ pc[p] = "compared"
  /\ files' = Result(files, job[p].read, job[p].plan.items)
  /\ executed' = [executed EXCEPT ![job[p].batch] = job[p].plan.items]
  /\ lock' = NoLock /\ End(p)
  /\ UNCHANGED <<config, row, inventory, plan, verified, historyVars>>

(* A file or execution.json cannot be written: everything is put back.     *)
CommitFails(p) ==
  /\ pc[p] = "compared"
  /\ lock' = NoLock /\ End(p)
  /\ UNCHANGED <<files, config, batchVars, historyVars>>

----------------------------------------------------------------------------
(* verify: are the targets there and the sources gone?                     *)
Verify(p, b) ==
  /\ pc[p] = "idle"
  /\ plan[b] # None /\ row[b] # None /\ inventory[b] # None
  /\ LET items == {it \in plan[b].items : it.approved}
         fine  == /\ Targets(items) \subseteq Paths(files)
                  /\ Sources(Moving(items)) \intersect Paths(files) = {}
     IN  verified' = [verified EXCEPT ![b] = IF fine THEN "ok" ELSE "needs-review"]
  /\ UNCHANGED <<files, config, row, inventory, plan, executed, lock, pc, job, historyVars>>

----------------------------------------------------------------------------
(* The environment                                                         *)

(* Where a change of the Vault by somebody else goes unnoticed.            *)
Window == \E p \in Procs : pc[p] \in {"checked", "read"}

Trouble == trouble < MaxTrouble /\ trouble' = trouble + 1

(* docs/safety.md: editors do not obey the lock; what they save between    *)
(* the comparison and the write is nobody's promise.                       *)
EditorMay ==
  /\ Trouble
  /\ \A p \in Procs : pc[p] # "compared"
  /\ ~Disturb => ~Window

Save(d, text) ==
  /\ EditorMay
  /\ files' = [x \in Paths(files) \union {d} |-> IF x = d THEN text ELSE files[x]]
  /\ files' # files
  /\ UNCHANGED <<config, batchVars, lock, pc, job>>

Remove(d) ==
  /\ EditorMay
  /\ d \in Paths(files)
  /\ files' = [x \in Paths(files) \ {d} |-> files[x]]
  /\ UNCHANGED <<config, batchVars, lock, pc, job>>

Reconfigure(c) ==
  /\ Trouble
  /\ c > config /\ config' = c
  /\ UNCHANGED <<files, batchVars, lock, pc, job>>

(* The process dies; the next writer recovers its lock.                    *)
Kill(p) ==
  /\ pc[p] # "idle"
  /\ Trouble
  /\ End(p) /\ lock' = IF lock = p THEN NoLock ELSE lock
  /\ UNCHANGED <<files, config, batchVars>>

InventoryStep(p) == Freeze(p) \/ SaveBatch(p) \/ SaveInventory(p) \/ DropPlan(p)
PlanStep(p) == LoadRow(p) \/ LoadInventory(p) \/ MakePlan(p) \/ SavePlan(p)

(* Another writer's commit disturbs like an edit.                          *)
ApplyStep(p) ==
  \/ LoadPlan(p) \/ CheckPlan(p) \/ ReadReferences(p) \/ HashReferences(p)
  \/ Lock(p) \/ Compare(p) \/ CommitFails(p)
  \/ (Disturb \/ ~Window) /\ Commit(p)

Next ==
  \/ \E p \in Procs : \E b \in Batches :
       StartInventory(p, b) \/ StartPlan(p, b) \/ StartApply(p, b) \/ Verify(p, b)
  \/ \E p \in Procs : InventoryStep(p) \/ PlanStep(p) \/ ApplyStep(p) \/ Kill(p)
  \/ \E b \in Batches : Approve(b)
  \/ \E d \in Docs : (\E text \in EditorTexts[d] : Save(d, text)) \/ Remove(d)
  \/ \E c \in Configs : Reconfigure(c)

Spec == Init /\ [][Next]_vars

----------------------------------------------------------------------------
(* Types; a process holds the lock exactly from Lock to the end.           *)
TypeOK ==
  /\ Paths(files) \subseteq Docs
  /\ config \in Configs
  /\ row \in [Batches -> Configs \union {None}]
  /\ \A b \in Batches :
       /\ inventory[b] # None => Paths(inventory[b].items) \subseteq Scope
       /\ plan[b] # None => plan[b].config \in Configs
       /\ verified[b] \in {None, "ok", "needs-review"}
  /\ \A p \in Procs : pc[p] \in {"locked", "compared"} <=> lock = p

About(p) == pc[p] = "compared"

(* The root SPEC.md: a write compares the hashes its plan was made from.   *)
(* When apply is about to write, every document it overwrites or deletes   *)
(* is the one it has read, and where it read none there is none.           *)
NoEditLost ==
  \A p \in Procs : About(p) =>
    LET read  == job[p].read
        items == job[p].plan.items
    IN  \A d \in Writes(read, items) \union Deletes(read, items) :
          IF d \in Paths(files) THEN d \in Paths(read) /\ read[d] = ReadText(files[d])
                                ELSE d \notin Paths(read)

(* When apply is about to write, each item was approved by a human for     *)
(* exactly the content that is at its source, and its target is free.      *)
AppliedAsApproved ==
  \A p \in Procs : About(p) => \A it \in job[p].plan.items :
    /\ it.approved /\ it.source \in Paths(files) /\ files[it.source] = it.hash
    /\ it.target # it.source => it.target \notin Paths(files)

(* After apply no document that it has read refers to a moved one's old    *)
(* path, the moved documents among themselves included.                    *)
ReferencesMoveAlong ==
  \A p \in Procs : About(p) =>
    LET items == job[p].plan.items
        after == Result(files, job[p].read, items)
    IN  \A d \in Paths(after) :
          (d \in Paths(job[p].read) \union Targets(items)) =>
            after[d].ref \notin Sources(Moving(items))

(* Documents that the plan does not name and that refer to nothing that    *)
(* moves keep their bytes, whatever their line endings.                    *)
BystandersKeepTheirBytes ==
  \A p \in Procs : About(p) =>
    LET items == job[p].plan.items
        after == Result(files, job[p].read, items)
    IN  \A d \in Paths(files) \ (Sources(items) \union Targets(items)) :
          files[d].ref \notin Sources(Moving(items)) =>
            d \in Paths(after) /\ after[d] = files[d]

----------------------------------------------------------------------------
(* The inductive invariant behind NoEditLost, AppliedAsApproved,           *)
(* ReferencesMoveAlong and BystandersKeepTheirBytes when nobody disturbs   *)
(* the window (RestructureProofs).                                         *)
Hashed   == {"hashed", "locked", "compared"}
Items(p) == job[p].plan.items

FilesAreTexts ==
  /\ files = [d \in Paths(files) |-> files[d]]
  /\ \A d \in Paths(files) : IsText(files[d])

JobsAreRecords ==
  /\ pc = [p \in Procs |-> pc[p]]
  /\ job = [p \in Procs |-> job[p]]
  /\ \A p \in Procs :
       job[p] = [batch |-> job[p].batch, config |-> job[p].config, stamp |-> job[p].stamp,
                 spec |-> job[p].spec, inv |-> job[p].inv, plan |-> job[p].plan,
                 read |-> job[p].read, expected |-> job[p].expected]

LockIsHeld == \A p \in Procs : pc[p] \in {"locked", "compared"} <=> lock = p

(* What CheckPlan has found still holds in the window.                     *)
SourcesStand(p) ==
  pc[p] \in {"checked", "read"} => \A it \in Items(p) :
    /\ it.approved /\ it.source \in Paths(files) /\ files[it.source] = it.hash
    /\ it.target # it.source => it.target \notin Paths(files)

(* What has been read is what is there until it is hashed, ...             *)
ReadIsCurrent(p) ==
  pc[p] = "read" => job[p].read = [d \in Paths(files) |-> ReadText(files[d])]

(* ... and what is expected is what was read and what was approved.        *)
ExpectedIsRead(p) ==
  pc[p] \in Hashed =>
    LET read  == job[p].read
        found == job[p].expected.found
    IN  /\ Paths(found) = Paths(read)
        /\ \A d \in Paths(read) : IsText(found[d]) /\ read[d] = ReadText(found[d])
        /\ job[p].expected.absent = Targets(Items(p)) \ Paths(read)
        /\ \A it \in Items(p) :
             /\ it.approved /\ it.source \in Paths(read) /\ found[it.source] = it.hash
             /\ it.target # it.source => it.target \notin Paths(read)

(* Between the comparison and the write the files are as expected.         *)
ExpectedIsCurrent(p) == pc[p] = "compared" => AsExpected(job[p].expected)

Sound(p) == SourcesStand(p) /\ ReadIsCurrent(p) /\ ExpectedIsRead(p) /\ ExpectedIsCurrent(p)

IInv == FilesAreTexts /\ JobsAreRecords /\ LockIsHeld /\ \A p \in Procs : Sound(p)
=============================================================================
