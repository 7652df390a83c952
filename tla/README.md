# campfire-cli: specifications, model checks and proofs

`campfire-cli` is a command-line tool that governs a *Vault*: a directory tree of Markdown documents that people edit
with any editor, synchronise with Git, and let agents work on. Every command is a process of its own; there is no
server. Several commands may run at the same time, a person may save a document at any moment, and a command may be
killed between any two system calls. What keeps the Vault whole is a small set of mechanisms (a lock file, hashes
compared under that lock, an executor that undoes what it did, a SQLite projection that carries a generation number) and
the order in which the services use them. This directory holds TLA+ models of those mechanisms, the TLC configurations
that check them, and proofs that TLAPS checks. All paths below are relative to the repository; `cf/` abbreviates
`src/campfire_cli/`.

1. [Inventory](#1-inventory)
2. [Modules and how they compose](#2-modules-and-how-they-compose)
3. [What each module models](#3-what-each-module-models)
4. [Runs: questions, bounds, answers](#4-runs-questions-bounds-answers)
5. [Fairness](#5-fairness)
6. [Proofs](#6-proofs)
7. [Where code and documentation differ](#7-where-code-and-documentation-differ)
8. [Not modelled, and abstractions](#8-not-modelled-and-abstractions)
9. [What is left](#9-what-is-left)

How to run: `tlc -workers 2 -config WriteLock_protocol.cfg MCWriteLock` (the table in section 4 pairs configurations
with modules), `tlapm VideoProofs.tla`.

## 1. Inventory

Status: **M** modelled, **P** partly, **–** not modelled.

| Component (code) | State it keeps | Operations | Talks to | |
|---|---|---|---|---|
| Write lock (`cf/common/filesystem/locking.py`) | the file `<scope>/locks/write.lock` and the PID in it; scope is a Workspace's `state_root` or `campfire_home` | acquire, recover a stale lock, release | every writing command | M |
| Change-set executor (`change_set.py`, `atomic.py`, `common/governance/*`) | the Vault's tree; a journal in memory only | plan digests, lock, compare, hook, moves, writes, deletes, rmdirs, body, rollback | the lock; callers' hook and body | M |
| Document index (`cf/app/document/service/index`, `document_index_repository.py`) | tables of documents, edges and one state row (generation, status, topology hash) | reconcile (by every query), rebuild, update after a write, list | scanner, domain markers, mutation | P |
| Related documents (`cf/common/documents/related_docs.py`) | none (fields of documents) | edges of a text, rewriting for moved paths | index, mutation, restructure | P |
| Document mutation (`cf/app/document/service/mutation`) | none of its own | move, rename, apply | index, executor | P |
| Document scanner | none | list documents below the ignore rules | index, restructure | P |
| Document rules and profiles | none | judge one document | index, mutation, maintenance | – |
| Restructure batches (`restructure_service.py`, `restructure_repository.py`) | a database row and four JSON files per batch | inventory, plan, (human) approve, apply, verify | executor, configuration | M |
| Restructure verifier script (`restructure_verifier.py`) | reports | before, after | – | – |
| Project registry and Manifest (`workspace_repository.py`, `manifest_repository.py`, `project_service.py`) | `.campfire.yaml` in the Vault, `local.yaml` in `campfire_home` | project create, adopt, update, bind, set, unbind, remove | spaces, workspace set-up | M |
| Workspace set-up (`workspace_service.py`, `config_service.py`) | the registry of Workspaces, the default | create, set up, default, export, import | registry, database | P |
| Spaces and domains (`structure_service.py`, `domain_restructure_service.py`) | directories with domain markers | create, adopt, format, rename, move, rekey, merge, delete | executor, Manifest | M |
| Adoption (`adoption_service.py`) | staging area | take a folder of the Vault, or one from outside, as a Domain | executor, Manifest | M |
| Git synchronisation (`git_sync_service.py`, `common/git.py`) | work tree, index, head, upstream | snapshot, commit, merge, push | editors, other devices | M |
| Agent resources (`agent_resource_service.py`, `resource_files.py`) | installed files and an ownership ledger; one lock per target | plan, align | packages, system set-up | M |
| Package upgrade (`package_updater.py`, `package_update_worker.py`, `upgrade_service.py`) | operation records, an active marker | start, runner, status | a detached process | M |
| System set-up (`system_service.py`) | none of its own | align all Workspaces | agent resources | P |
| Bases (`base_service.py`) | `.base` files | check, synchronise | write lock | M |
| Maintenance (`maintenance_service.py`, `moc_service.py`) | MOC documents, issues, topology, reports | check, sync | executor, index | P |
| Video and media (`cf/app/video`, `cf/common/media`) | the model, prepared material | setup, prepare, deliver | native tools, executor | M |
| Command line and wiring (`main.py`, `container.py`, `cli_output.py`) | none | parse, build, print | everything | – |
| Database schema (`cf/common/database`) | tables | create engine, session | repositories | – |
| Release and migration scripts | – | – | – | – |

### What is hard here, and what should hold

* **Write lock.** The lock file exists before it contains a PID; a contender reads it after it failed to create it; the
  verdict "its process is dead" is about a PID read a moment ago; stale files are unlinked by path. *Wanted:* one holder
  at a time, a verdict that is right, a file that never outlives its living owner.
* **Executor.** Any step may fail, and the undo steps depend on each other (a content can only be restored when its
  directory is back, a move only when its target is). Plans are made long before the lock. *Wanted:* only what was
  planned from runs; a set is carried out whole or undone; the lock is given back.
* **Index.** Reconciling takes no lock: four reads of a file, three of the database and one of the directory tree,
  interleaved with editors and with other processes that commit. *Wanted:* rows and edges agree, an answer is no older
  than its question, an unchanged generation means an unchanged projection, an index left behind catches up.
* **Mutation.** The documents that refer to a moved one are learnt from the index before the lock. *Wanted:* no reference
  stays behind; a failed write leaves a repairable index.
* **Restructure.** Inventory, plan, approval and application are separate commands, days apart; `apply` reads each
  document several times before it locks. *Wanted:* what is applied was approved for this content and configuration,
  nothing unread is overwritten, references move along, everything else keeps its bytes.
* **Registry and set-up.** `local.yaml` and the Manifest are two files, written by two groups of commands under two
  different locks, from what was read before them. *Wanted:* what a command acknowledged stays until somebody asks for
  something else; a project's root is declared and its own; the registry can be read whatever was killed.
* **Domains, adoption.** Each command compares something else of its plan under its lock. *Wanted:* a command does what
  it would have done alone; no text is lost; references, domain ids and project roots follow.
* **Git, maintenance, bases.** Separate `git` processes, and commands with half a dozen reads, look at a tree that an
  editor changes, and share one lock. *Wanted:* what is committed was inspected, what is recorded was so, what was saved
  survives, a run that stops leaves nothing staged as far as git lets it take back.
* **Agent resources, upgrades.** Files are written one by one and the ledger last; a detached runner replaces the package
  and aligns after its host has gone. *Wanted:* the user's files stay; a partial alignment can be completed; a completed
  upgrade has aligned; a runner ends.
* **Video.** A film is hashed, transcribed for hours by other processes and compared again; models are downloaded beside
  their place; a draft is reviewed and then delivered by a second call. *Wanted:* material is of the film and the
  subtitles that were previewed; a model appears whole and never replaces one; what is delivered is what was reviewed.

`PROJECT.json` lists under "hazards" each of these at its line with the property that watches it.

## 2. Modules and how they compose

```
WriteLock ─────────────────────┐               what the other modules may take the lock for
VaultTree ──── AtomicChange                    abstract: files change in one step or not at all
    └───────── ChangeSet ──── ChangeSetProofs  detailed; implements AtomicChange
DocumentIndex
    └───────── DocumentMutation ─ DocumentProofs
                                               movers on the index's processes, files and editor
Restructure ── RestructureProofs
Registry ───── RegistryProofs                  Manifests and local.yaml
Domains ────── DomainsProofs ──┘               one Vault's Spaces, Domains and documents
Distribution ─ DistributionProofs
                                               agent resources and upgrades
Desk ───────── Maintenance ┐                   one Workspace's files, lock and editor
    └───────── GitSync ────┴ Upkeep ─ UpkeepProofs
Video ──────── VideoProofs
MC*            constants for TLC, one per checked module
```

The layers use each other's promises instead of each other's steps. `WriteLock` shows when the lock excludes
(`MutexUntilRecovery`); all other modules take a lock as a variable with at most one owner. `ChangeSet` shows that a change
set is one step (`AtomicSpec`: it implements `AtomicChange`) or an undone one; `DocumentMutation`, `Restructure`, `Domains`,
`Registry` and `Video` then carry it out in one step that succeeds or leaves the files alone; only `Registry` also
lets a kill fall between the files of a change set and its Manifest. `DocumentMutation` EXTENDS `DocumentIndex`: its actions are the
index's, plus those of movers. `Upkeep` EXTENDS `Maintenance` and takes `GitSync` as an INSTANCE: both EXTEND `Desk`, so
they share the files, the lock and the editor, and each leaves the other's own variable (`db`, `repo`) alone. `Registry`
and `Domains` describe the domain commands from two sides: `Registry` what they do to the Manifest and the markers beside
project commands, `Domains` what they do to the documents. `DomainsProofs` EXTENDS both `WriteLock` and `Domains` and proves
the theorems of each; `WriteLock` therefore names its definitions `LockInit`, `LockNext`, `LockSpec`, `Pids`, so that the two
share no name.

## 3. What each module models

### WriteLock (`cf/common/filesystem/locking.py`)

A process is its PID. `inode` is the creator of the file now at the lock path, `pid` the number written in it; keeping
the two apart is the point of the module, because the code opens by path, writes through a descriptor, and unlinks by
path. `Open` is `os.open(O_CREAT|O_EXCL)`; `ReadPid`, `CheckPid` (`psutil.pid_exists`), `UnlinkStale` and `OpenAgain` are
the branches of `_acquire`; `WritePid`, `WriteFails` and `Release` are the `with` statement with its `finally`. The
environment starts and ends processes, kills them (no `finally`), and gives free PIDs to new processes, campfire's or
foreign ones. `Reusable` names the PIDs that may come back; the runs let all of them.

### VaultTree, AtomicChange, ChangeSet (`change_set.py`, `atomic.py`, `common/governance/locking.py`, `snapshots.py`)

`VaultTree` is the file system: a path is a sequence of names; a tree gives each path `Dir`, `Absent` or a content; a
content is its own digest. Its operators are the system calls the executor makes (rename, write with
`mkdir(parents=True)`, unlink, rmdir) with their preconditions.

`ChangeSet` follows `FileChangeExecutor.transaction`. `Plan` and `TakeSnapshot` are the caller's digests and
`capture_snapshot`; `Acquire`, `Compare` and `HookRefuses`/`ValidateMoves` are what happens under the lock before the
first change. A change set is turned into the sequence `Steps` of its moves, the reading of the originals, writes,
deletes, directory removals and the caller's body; `todo` is what is left of it. Each step may instead raise (`FailMove`,
`FailStep`), which replaces `todo` by `UndoSteps` of the journal so far. `UndoFails` is "file-rollback-failed".
`Kill` leaves the lock file; `Interrupt` is `KeyboardInterrupt`, which `except Exception` does not see but `finally` does.
`Edit` is an editor on any single file. `before` (the tree found by the comparison) is history, needed
to say what "undone" means.

`AtomicChange` is the callers' view: `files` and each writer's `outcome`. `Commit` applies a whole set, `Refuse` changes
nothing, `Tear` may leave anything but says so. The refinement shows the tree found by the comparison until the last
step has succeeded. It is claimed for behaviours without edits and kills, chosen by the history variable `calm`: with an
editor the abstract files would have to include what he types in between.

### DocumentIndex (`cf/app/document/service/index`, `document_index_repository.py`)

`files` maps a path to its text and its `stamp` (size and modification time); `topo` is what the domain markers say.
`rows`, `edges` and `state` are the three tables. One action per access to shared state, in the code's order: `Scan`,
`LoadFingerprints`, `LoadState`, `Decide` (topology hash, stats, what must be read), per document `OpenDoc` (first stat),
`ReadDoc` or `ReadSameHash` or `ReadRaises` (text and second stat), `RecordDoc` (third stat), then `Commit` or
`CommitRefused` and, for a listing, `Query`. `IsCurrent`, `ChangedPaths`, `KeptEdges` and `MayCommit` are the functions of
those names in the code or its SQL. A text is its references and whether it is a MOC; every edge carries its verdict
(`self`, `resolved`, `missing`).

### DocumentMutation (`cf/app/document/service/mutation`)

`move`/`rename` (`PlanMove`), an `apply` that keeps its path (`PlanApply`) and one whose new type changes the document's
name (`PlanRetype`; a MOC, which `move` refuses, may get another type): the target's or the source's text, a reconcile,
`LoadReferrers` from the index, `ReadReferrers`, `TakeGeneration`, `Preview` (the call without `--confirm`, or with another plan than was previewed) or `Lock`, `Compare`,
`CheckIndex` and `MarkDirty` (`prepare_write`), `WriteFiles` or `WriteFails`, and `Refresh`, which releases the lock and starts
an update of the index for the known paths.

### Restructure (`restructure_service.py`, `restructure_repository.py`)

A batch is a row and four files. Each command is a process that loads its settings when it starts. `inventory`: `Freeze`,
`SaveBatch`, `SaveInventory`, `DropPlan` (three separate writes). `plan`: `LoadRow`, `LoadInventory`, `MakePlan` (from a
human's specification or from what names and types suggest), `SavePlan`. A human's `Approve` edits `plan.json`. `apply`:
`LoadPlan`, `CheckPlan` (`_preflight`), `ReadReferences` and `HashReferences` (`_build_change_set` reads, then hashes),
`Lock`, `Compare`, `Commit` or `CommitFails`. `verify` is `Verify`. A text is a body, the document it refers to, whether
its frontmatter has a type, and the style of its bytes: `read_text` turns CRLF into LF, and that is modelled because a
move writes what was read. The operators `Contents`, `Writes`, `Deletes`, `Expected` and `Preflight` are the pure parts of
the service.

`Disturb` says whether the Vault may change between `CheckPlan` and `HashReferences`. With `Disturb = FALSE` the module
says what holds when it does not; the run `Restructure_overwrite` and the theorems say what follows from each value.

### Registry (`workspace_repository.py`, `manifest_repository.py`, `project_service.py`, `workspace_service.py`)

`local` is `local.yaml` (Workspaces with their paths and bindings, the default), `man` the Manifest of each Vault, `declared`
the domains that its markers declare. A request is a record; a command is a process that goes from place to place, one
place per stretch of code between two accesses to shared files. `Saved`, `ManifestFor`, `BindsFor` and `Joined` are
`save_project`, `replace_projects` and the two conversions between portable and local projects; `May` gives each place the
conditions under which the code goes on, and `Refuse` ends a command where they fail. Project commands look at a project
(`Show`, `Read`, `Preview`, `Change`, `Check`, and `Declare` for `create`), compare under the lock of `campfire_home`
(`Enter`), and write the Manifest (`WriteManifest`) and `local.yaml` (`WriteLocal`, or `LocalFails`, which puts the Manifest
back as it was read). Workspace commands are `Vacant`, `Scaffold`, `Register` and `Found` (create), `SetUp` and `Attach`,
`SetDefault`, `Export`, and `Import` with its compensation. Domain commands are `Plan`, `Hash`, `Commit` and `Apply`.
`RepositoryEntry` to `WorkspaceRegistry` are the records of both files; `IsRequest` says what a request of each kind
carries, `IsStart` what registry the commands start from: every registered Workspace has its Manifest, every root is
declared, no two active projects share one. A Workspace may be registered elsewhere by an import while a command is
running: it looks up the Vault anew at each look (`Current`), and compares or is named in `unseen`.

Four history variables name the windows in which the code compares nothing, and the properties except exactly these:
`crossed` (a Manifest was written while somebody relied on what he had read of it, without any comparison to come; or a
domain command has made one of another Vault's projects, because an import has registered its Workspace elsewhere since),
`unseen` (a root appeared or went while a command that needed it no longer looked; a Manifest read earlier was put back
or attached with roots that are gone), `broken` (a Workspace whose creation was killed between its registration and its
Manifest), and two of a process: `overtaken` (`adopt`, `update` and the confirmed repository commands change one look at a
project and compare with another) and `rewritten` (a domain command has written the Manifest between the two writes of a
project command, which puts back what it read should its second write fail). `acked` is what each project's last successful
command left.

### Domains (`structure_service.py`, `domain_restructure_service.py`, `adoption_service.py`)

`vault` has the Spaces, the directories, the markers, the documents, the projects' roots and one folder
outside. `IsVault` says what a Vault on a disk looks like: `HasTypes` (Spaces at its root, Domains and documents below) and
`IsTree` (everything lies in directories, nothing is a directory and a document). `IsRequest` says what a command line of
each kind carries. `Allowed` says for each of the eleven kinds of command what the code asks of the Vault it plans on, `Effect`
what the command makes of a Vault when nobody interferes, written from the code's loops over markers and documents. A Space
whose folder is moved below another Space is a Space no more (`ShiftAll`).

What happens is not `Effect`: a command keeps the Vault it has read (`seen`), passes its own comparison (`Stands`, one operator
per command: `SamePlan` for rename, move and rekey, `MergeStands`, `AdoptStands`, `DefineStands`, `FormatStands`, and for
delete `SameFiles`, the comparison with what merge and delete hashed: all files, or the declaration alone), and then `Applied` carries the differences that it has planned over to the Vault as it is by then. `Closed`
makes the parents of what is written (`mkdir(parents=True)`). `CannotApply` is what makes the executor undo the set, or the
command end before it writes: a target that exists or lies below its source (`CannotMove`, with `Source`, `Target` and
`TargetExists`), a directory that is not empty (`CannotEmpty`), a directory or marker that `create` wants to make
(`CannotMake`), a document where a directory is needed (`Possible`). `AsIfAlone` says that all this amounts to `Effect`.

`Late`, `Stirred`, `Unseen` and `DeclaredSince` name what no comparison covers: a step between the comparison and the
write; a save between the text that merge and delete have read and the hash they compare; what a command has read and
never compares (besides the topology around a new Domain and a project's root: a second Domain or Space of the same id, the
Space that a Domain moves into); a folder that was declared since adopt was planned. `Tolerated` names the issues that a command may
itself produce (section 7).

### Distribution (`agent_resource_service.py`, `resource_files.py`, `package_updater.py`, `package_update_worker.py`, `upgrade_service.py`, `system_service.py`)

A file is what it holds of the package (a version) and the user's own text. `Changes` and `Signature` are `plan` and its
hash; `Legacy`, `Managed` and `Conflicts` decide what may be taken over. An actor, a command or a runner, goes through
`Plan`, `Lock` (all lock files of the targets, or the refusal), `PlanAgain`, and for each change `Compare` and `Write`; a
change set is worked off in the order of paths (`Rank`, `First`; `agent_resource_service.py:207`) with the ledger last.
Commands are `sync`, `align`, `setup` and `upgrade`; `StartUpgrade`, `SaveJob`, `SaveMarker`, `Spawn` and `Leave` are
`PackageUpdater.start`; `Announce`, `Wait`, `Install`, `Verify` and `Judge` are the runner, which saves its job in each step
and has the new package align twice. `Kill`, `KillAtLocks` (half of the lock files exist) and `Timeout` (the runner stops
the new package's align) interrupt anything. `mine` (history) has the paths that are as the user left them.

### Desk, Maintenance, GitSync, Upkeep (`maintenance_service.py`, `moc_service.py`, `base_service.py`, `git_sync_service.py`, `common/git.py`)

`Desk` has the files, the lock and the editor, whose every save is a text that was never there before: a file that changes
and changes back is outside the model. `Maintenance` has `check` (`CheckDiscover` to `CheckReport`), `sync` (`SyncDiscover`
to `SyncRows`, which may put the MOC back when its rows cannot be committed) and `bases`, one action per read or write, with
one Domain standing for all. `GitSync` has one action per `git` process of a confirmed synchronisation, from `Preview` to
`Push`. `Fail` is a process that fails or runs into the timeout of 30 seconds (`common/git.py:37`), though a fetch, commit
or push may have done its work all the same. A merge that is stopped may have done part of it, which is `MergeFails`: files
of the work tree alone (`MergePart`), the index too (`MergeHalf`), also `MERGE_HEAD` without a conflict, which is aborted and
reported as a merge that failed (`MergeUnfinished`), or everything (`MergeDone`). `repo.merging` is the existence of
`MERGE_HEAD`, on which alone the code decides whether to abort; `repo.unmerged` has the conflicts in the index. `Unreadable`
is a staged file that the second snapshot cannot read, `LeaveBehind` what no step cleans up. What `git` itself does (merging by file, refusing to overwrite what is not committed,
refusing a push that loses commits) is external. `Upkeep` puts them on one desk and states the properties. `beside`
(history) records who held the lock when a command read its documents: another command may take back what it had
written.

### Video (`cf/app/video`, `cf/common/media`)

`setup` (`Setup`, `Install`, `Download`, `ModelLock`, `ModelCheck`, `ModelPublish`), `prepare` (`Prepare`, `Transcribe`, `HomeLock`, `Compare`,
`Publish`) and `deliver` (`DeliverHash`, `DeliverRead`, `DeliverPlan`, `VaultLock`, `Hook`, `Write`), each with its preview and
the plan that the confirmed call must meet again. Film, subtitles, draft and document are contents numbered as they are
saved. `Valid` is the validation of a draft against the material's segments. The user saves, places models by hand and
discards material, which may then be prepared anew; `Fail` is a tool that fails, a timeout or a kill. `since` (history)
counts the saves before a command took its lock.

## 4. Runs: questions, bounds, answers

| Run (module) | Question | Bounds | Answer |
|---|---|---|---|
| `WriteLock_protocol` (MCWriteLock) | Up to which point does the lock exclude, are verdicts sound, does a lock file outlive its owner? | 3 PIDs, 2 crashes, every PID reusable | passes; 443,668 states |
| `WriteLock_steal` (MCWriteLock) | Does it exclude always? | 3 PIDs that exit but never crash | violated (section 7) |
| `ChangeSet_executor` (MCChangeSet) | Planned content, refinement of `AtomicChange` | 2 writers, 5 change sets over 6 paths, 1 edit, 1 kill or interrupt, failures anywhere | passes; 176,024 states |
| `DocumentIndex_shared` (MCDocumentIndex) | What survives two processes and an editor who saves even between the reads of one document? | 2 documents, 2 texts, 2 changes, 2 processes | passes; 1,853,840 states |
| `DocumentMutation_single` (MCDocumentMutation) | No reference left behind, fresh answers, an index that catches up | 4 documents, 1 process that moves, retypes, applies and lists, 3 changes, no index at first, failing writes | passes; 596,128 states |
| `Restructure_batch` (MCRestructure) | Approved, unread, moved along | 2 processes, 1 batch, 2 inventories, 1 edit, reconfiguration or kill, quiet window | passes; 1,770,822 states |
| `Restructure_overwrite` (MCRestructure) | ... when another batch commits in the window | 2 batches, no editor | violated (section 7) |
| `Registry_commands` (MCRegistry) | Does what was acknowledged hold, is only what was asked changed, are roots declared and unshared, is the registry readable? | 2 processes, 3 of 19 commands, 2 kills or failed writes, 3 registries to start from | passes; 232,956 states |
| `Domains_commands` (MCDomains) | Does each command do what it would do alone, is all text kept, do references and topology follow? | 2 processes, 2 of 19 commands, 1 edit or binding, 3 Domains, 2 Vaults to start from | passes; 166,509 states |
| `Distribution_upgrade` (MCDistribution) | Completed means aligned, nothing orphaned, the user's files kept, a runner ends | 2 processes, any of 4 commands, 2 versions of the package, 3 disks, 1 save or kill anywhere | passes; 448,484 states |
| `Upkeep_together` (MCUpkeep) | Is what is committed what was inspected, what is recorded what was, what was saved kept, nothing left staged? | 2 runs of 4 commands, 2 saves, 1 push of another device (two files), 1 failing `git` process, 1 fault that nothing cleans up | passes; 1,232,735 states |
| `Video_commands` (MCVideo) | Is material of the previewed film and subtitles, a model whole, a delivery what was reviewed? | 2 runs of 3 commands, 2 saves, 1 fault, a new device or existing material | passes; 513,956 states |

What the properties of the passing runs say:

* `MutexUntilRecovery`: until some contender has taken a lock for stale, crashes, failing PID writes, exits and reused
  PIDs do not break exclusion. `StaleVerdictSound`: whoever is about to unlink a lock decided so about a process that is
  gone. `LockFreed`: without crashes no lock file stays for ever.
* `RunsOnPlannedContent`: the comparison under the lock is with what the plan was made from, even when the snapshot taken
  in between already saw something else. `AtomicSpec`: the refinement: a set is carried out whole or undone, and the lock
  given back, whatever fails.
* `SourcesMatchRows`: even in races a row and its outgoing references change together. `GenerationCountsChanges`:
  `prepare_write` may take an equal generation for an equal projection. `QueryFresh`: a listing has every document that
  did not change during the call, with its text and domain, and no deleted one. `IndexCatchesUp`: when the editor stops,
  the index comes to agree with the Vault, the edges included, and stays so, also after a failed write or refresh.
* `NoReferenceLeftBehind`: when a move has written its files no document refers to the old path, those excepted that
  somebody changed after `prepare_write` had looked. It is about what the index offers as a target: a reference to a MOC
  is stored as `missing`, so that it stays behind when the MOC gets another type and with it another name.
* `NoEditLost`, `AppliedAsApproved`, `ReferencesMoveAlong`: about the moment before `apply` writes, see section 1.
* `AcknowledgedHolds`: each project is, in Manifest and `local.yaml` together, what its last successful command left, unless
  a Manifest was written in a window nobody checks. `ChangesWhatWasAsked`: a command that succeeds changes the fields it
  was asked to change, at most the remote of a clone besides, and takes nothing back that another has written, unless
  somebody wrote or registered the project between the two looks the command takes at it. `RootsSound`: every project's
  root is declared and no two active projects share one. `RegistryReadable`: `list_projects`, on which every command rests, can be read, except
  while a Workspace is created or after that was killed half way.
* `AsIfAlone`: what a domain command writes is what it would do to the Vault of that moment, and that Vault allows it.
  `ContentKept`: no body and no authored declaration is lost. `ReferencesFollow`: references, domain ids and roots follow
  rename, move, rekey and merge. `TopologySound`: no command makes discovery report more than before.
* `CompletedMeansAligned`: a completed upgrade's files are those of its version, but for what the user changed since.
  `NothingOrphaned`: whatever was killed half way, a later plan takes no file of the package for someone else's.
  `ForeignKept`: a file that was never campfire's, and the user's text around the hint's block, is never overwritten.
  `UpgradeEnds`: a runner that is not killed ends and its record says so.
* `CommitsWhatWasInspected`: a commit holds exactly the files inspected before the fetch, none of them half way through
  another command's change set. `NothingLeftStaged`: a synchronisation that ends leaves no index filled, no conflict and no
  merge unfinished, so that the next is not refused, unless it is killed or fails to take back, a save makes the abort fail,
  the merge was stopped between the index and `MERGE_HEAD`, or a staged file could not be read (section 7).
  `SavedTextStays`: generation of the MOC and merging replace no saved text that was not committed. `RecordsWhatIs`: what check records and sync generates was so when it took the lock.
* `MaterialIsAsPreviewed`: material comes to exist only where there is none, made from the film and by the subtitles that
  its preview showed, though both may be saved, and others may prepare, while it is transcribed.
  `ModelAppearsWhole`: a model appears only whole and only where there is none.
  `DeliveredAsReviewed`: what is delivered is the draft that was previewed, into an empty body, and accounts for every
  segment of the material.

**Why these bounds.** *Lock:* the faults need a holder, a contender that reads its PID, and a second contender that
overtakes; three processes and two crashes contain every pair of such overtakings. *Executor:* five change sets contain
every kind of step and every dependency between undo steps (a new parent directory, a directory emptied and removed, a
whole directory moved and then written in, a write in a new directory); the writers are symmetric up to them, and each
edit or kill adds only one more interruption at a place already reached. *Index:* an edge needs two documents; one to
change while the other is being read; verdicts change when the target comes, goes or turns into a MOC. *Mutation:*
source, target, one referrer and a place for a retyped document; three changes let a document be removed, come back and
refer to the source. Two movers that each move a document the other's refers to were explored in a larger instance
(5,760,115 states) without a violation; with a second process that writes other references the divergence at
`document_move_service.py:309` appears. *Restructure:* one move and one patch with a reference between them; two inventories
are needed for an approval to survive one; a new document at the target, a changed source and a changed referrer are
the three things the editor can do to a plan. *Registry:* three commands are needed for a loss that takes a reader, a
writer that overtakes it and a witness, or an export, a change and an import; the kills hit the gap between two files twice.
*Domains:* two commands interfere pairwise, in all 361 pairs; the edit is the third party. *Distribution:* the interesting
leftovers come from one interruption followed by one or two further commands; two versions make a file come, stay and go.
*Upkeep:* a merge, a conflict and an abort need one incoming push and one save of the same file; the push has a second
file, which merges cleanly beside it and may be saved before the abort; a second save falls
between two of the steps. *Video:* two saves make a content that changes and changes again between hash, read and hash.
Larger instances (`Domains` with two edits, `Distribution` with two faults, `Upkeep` and `Video` with three saves) were
explored as far as time allowed, without a violation.

Deadlock is checked in `WriteLock_protocol`, the index and mutation runs and `Restructure_batch`. It is off where a bounded
number of commands ends and the system may stop (`ChangeSet`, `Registry`, `Domains`, `Distribution`, `Upkeep`, `Video`), and in
the violation runs.

Every property has a mutant in `PROJECT.json`: a definition changed as a plausible bug would change it (the mutated form
stands next to the definition), under which TLC finds the property violated.

## 5. Fairness

* `WriteLock`: a process inside the lock goes on (weak fairness of `WritePid`, `WriteFails` and `Release` together): the
  `with` statement's body ends. Nothing is assumed of contenders: they never wait.
* `DocumentMutation` (and with it `DocumentIndex`): weak fairness of a started operation, and strong fairness of `List`:
  documents go on being listed. There is no daemon that refreshes the index: "the index catches up" is only true of an index
  that is asked, and this is how the assumption is written. Strong, because a process may be kept busy by its other
  operations.
* `Distribution`: weak fairness of each runner's next step. A runner never waits without a limit: `wait_for_host` gives up
  after 120 seconds, `invoke` stops the new package after a limit of its own, a lock that is taken is a refusal. Nothing is
  assumed of commands: the runner must end beside a command that stands still holding the lock.
* All other specifications have safety properties only. Nothing in the code promises that a batch, a domain command or a
  synchronisation ends: each ends or refuses in a bounded number of its own steps.

## 6. Proofs

The proof modules hold for every value of the constants: any number of processes, documents, batches, saves and crashes,
any package, any disk.

| Theorem | Statement | Assumes |
|---|---|---|
| `DomainsProofs!LockTypesHold` | `LockSpec => []LockTypeOK` | `NoPid` is not a PID |
| `DomainsProofs!MutexHoldsUntilRecovery` | `LockSpec => []MutexUntilRecovery` | same |
| `DomainsProofs!LockNamesItsCreator` | `LockSpec => []FileNamesCreator` | same |
| `DomainsProofs!StaleVerdictsAreSound` | `LockSpec => []StaleVerdictSound` | same |
| `ChangeSetProofs!RunsAsPlanned` | `Spec => []RunsOnPlannedContent` | `NoLock` is not a writer |
| `ChangeSetProofs!WritersExclude` | `Spec => []OneInside`: two writers are never inside together | same |
| `ChangeSetProofs!TypeCorrect` | `Spec => []TypeOK` | `PathsAssumption`: with a path, those above it are paths; `ChangeSetsAssumption`, `VaultsAssumption`: change sets as the services build them, Vaults that are trees |
| `ChangeSetProofs!Implements` | `Spec => AtomicSpec`: the executor implements `AtomicChange` | same |
| `DocumentProofs!TypesHold` | `Spec => []TypeOK` | `FilesAssumption`: the documents to start from are documents, saved before anything else |
| `DocumentProofs!SourcesStayMatched` | `Spec => []SourcesMatchRows` | the index exists (`StartIndexed`) |
| `DocumentProofs!ChangesAreCounted` | `Spec => GenerationCountsChanges` | the index exists |
| `DocumentProofs!AnswersAreFresh` | `MSpec => []QueryFresh` | one process, an editor who saves no document between the reading of its text and the stat that is stored (`OneProcess`, `EditorWaits`); the inputs are texts of documents (`InputsAssumption`); an index or none |
| `DocumentProofs!ReferencesComeAlong` | `MSpec => []NoReferenceLeftBehind` | same |
| `DocumentProofs!IncrementsEqualRebuild` | `MSpec => []EdgesMatchRows`: the stored references are those a full build from the stored rows leaves | same |
| `RestructureProofs!NothingUnreadIsLost` | `~Disturb => (Spec => []NoEditLost)` | quiet window; texts are texts |
| `RestructureProofs!OnlyApprovedContentMoves` | ... `AppliedAsApproved` | same |
| `RestructureProofs!ReferencesFollow` | ... `ReferencesMoveAlong` | same |
| `RestructureProofs!BystandersStay` | ... `BystandersKeepTheirBytes` | same |
| `RestructureProofs!TypesStay` | `Spec => []TypeOK` | no quiet window; targets are documents, there is a configuration |
| `DistributionProofs!LocksCoverWrites` | `Spec => []TypeOK` | `DistributionAssumption`: what packages and disks look like |
| `DistributionProofs!ForeignStays` | `Spec => ForeignKept` | same |
| `DistributionProofs!NoOrphans` | `Spec => []NothingOrphaned` | also `AnchorAssumption`: SKILL.md sorts first in its Skill, comes with the files to start from and is not newer than what is installed; the user's own SKILL.md is not a package's text |
| `DistributionProofs!CompletedIsTrue` | `Spec => []CompletedMeansAligned` | same |
| `RegistryProofs!TypeCorrect` | `Spec => []TypeOK` | `None` is none of the model's values; requests and registries to start from as `IsRequest` and `IsStart` say; `Remote` is a function |
| `RegistryProofs!Readability` | `Spec => []RegistryReadable` | same |
| `RegistryProofs!RootsStaySound` | `Spec => []RootsSound` | same |
| `RegistryProofs!AcknowledgedStays` | `Spec => []AcknowledgedHolds` | same |
| `RegistryProofs!ChangesAsAsked` | `Spec => ChangesWhatWasAsked` | same |
| `DomainsProofs!TypeCorrect` | `Spec => []TypeOK` | `StartsAssumption`, `RequestsAssumption`, `DraftsAssumption`: the Vaults to start from are trees of directories, requests carry what their command needs, drafts are documents |
| `DomainsProofs!ContentIsKept` | `Spec => ContentKept` | same |
| `DomainsProofs!ReferencesComeAlong` | `Spec => ReferencesFollow` | same |
| `DomainsProofs!ActsAlone` | `Spec => AsIfAlone`: plan, comparison and write amount to the command carried out at once | same |
| `UpkeepProofs!TypesHold` | `Spec => []TypeOK` | `UpkeepAssumption`: no text to start from is one the editor will save |
| `UpkeepProofs!CommitsAreInspected` | `Spec => CommitsWhatWasInspected` | same |
| `UpkeepProofs!NothingStaysStaged` | `Spec => NothingLeftStaged` | same |
| `VideoProofs!MaterialStaysTrue` | `Spec => MaterialIsAsPreviewed` | `VideoAssumption`: material to start from is true, nothing saved yet |
| `VideoProofs!ModelIsNeverReplaced` | `Spec => ModelAppearsWhole` | same |
| `VideoProofs!DeliveriesAreReviewed` | `Spec => DeliveredAsReviewed` | same |

`OneInside`, `FileNamesCreator`, `EdgesMatchRows` and `BystandersKeepTheirBytes` are properties of no run: the first three
are steps of other proofs worth reading, the last needs no example.

**WriteLock.** `MutexUntilRecovery` is not inductive: it says nothing about a file at the path. `LockIInv` adds that until a
recovery every process inside owns the file at the path and nobody is between unlinking and re-opening
(`OwnedUntilRecovery`), that the PID in a file is its creator's, and that PIDs in play were started
(`NamedPidsStarted`), which makes "does not exist" mean "gone". One step per action.

**ChangeSet.** What runs is what was planned because of a chain: the snapshot holds the planned digests
(`SnapshotIsPlanned`, whatever the tree was when it was taken), the comparison finds the tree equal to it
(`FoundIsPlanned` at that moment), and nobody else can replace `before` while the writer is inside
(`InsideHoldsLock`). The many actions are grouped by their effect on what `IInv` mentions: a writer goes on, leaves, or
stays.

The refinement needs to know at every step what the tree is. `MovedTree(c, r, b)` is the tree after `r` moves of the set
`c`, begun with `b`: as a definition, not as the outcome of a run, so no induction over the set is needed. `Shape` says how the
executor's tree resembles it. Going forth (`RunAt`), the files are those of `MovedTree` with the contents written and deleted
so far (`Expected`), its directories are there but for the removed ones, and no directory stands where something was
moved away (`DirsClear`); the journal has the moves, and the originals as they were after the last move. Going back (`UndoAt`) there are
three phases: what is not yet restored may differ, then nothing may, with one move less at a time, and when only the made
directories are left the files are those of `before`. A step that fails leaves a state of the first
phase, also when it made parents before it failed (`ParentsChangeNothing`). Two facts carry the moves: `MovedForth`, and
`MovedBack`, which shows besides that a move back is never left out: its target is there and its source is not. `DirsClear` is why: neither
`mkdir(parents=True)` nor a restored content makes a directory where one was moved away. At the body `Expected` is
`Result` of the whole set (`ResultIs`); at the end of the undoing it is `before`. Extra directories are no files,
which is what `AtomicChange` excepts.

The assumptions on change sets are those the services keep: they move one directory (`domain_restructure_service.py:802`,
`adoption_service.py:147`) or the files of one directory, each to a path of its own (`domain_restructure_service.py:645`);
no source or target is above another, no target is below another source, and each path is written once, at the
place where it will be. For a set that writes below what it moves away, `UndoMove`'s test would skip the move back without
an error. `TLC` evaluates the assumptions for the change sets of the run.

**DocumentIndex.** Two processes read at different moments, so nothing they hold need be current. `IInv` says what is left:
the generation a process has read is not later than the present one (`BaseIsPast`), and *if* it is still the present one,
every row the process took over from the index because the content was the same still says what the stored row says
(`TakenOverStands`); a full build has reread everything it built. A commit requires the equal generation, so at that
moment the second condition holds; every other process's generation is then behind, and its own condition empty. The
edges of the commit are followed separately for what was reread (`NewEdgesFacts`, `RereadHasEdges`) and for what a delta
keeps (`KeptEdgesFacts`). `SourcesStayMatched` and `ChangesAreCounted` need an index that exists: two
processes that build the first index both write generation 1, and a later first build sets the generation back, so that a delta of the other passes for current. The
verdicts of the edges are not part of it: section 7 says how they go wrong. `TypesHold` needs no index. Its invariant `Typed`
adds to `TypeOK` that the stamp of an open document is of the past and that nothing is built before the decision what to
read; an edit makes more of the time past, and what was typed stays so (`PastGrows`).

**DocumentMutation.** `MInv` says what is still right about the documents nobody has touched since the operation began (or,
for a mover, since `prepare_write` looked): what the scan listed is there, what was read is there (`ReadsStand`), what was
built says what the file says, and where nothing was built the stored row does (`BuiltStands`). A row that is not reread
is right because its stamp still is the file's (`Vouches`), and its domain because the topology under which it was written still is
the Vault's (`DomainsStand`); together they make the index right when a reconcile ends (`Fresh`), which is what a listing
answers from. The edges need an argument of their own: a commit keeps the edges of what it does not reread and corrects
the verdicts of those whose target came, went or became a MOC, and that is the same as computing them all from the new rows
(`EdgesMatchRows`). Hence the referrers that a mover learns from the index are all documents whose row refers to the source
(`ReferrersKnown`). The list may be old when the mover gets the lock; but then `prepare_write` finds the generation of
the plan and rows that are as the files, so a file that refers to the source has a row that does, its edge was there when
the list was made, and its text is the one that was read (`FoundStands`) and is rewritten. With two processes both properties are false
(section 7): another process's commit may fall between the reading of the referrers and that of the generation, or between
the fingerprints and the state. `OneProcess` is therefore no convenience. Nor is `EditorWaits`: an editor who saves
between the reading of a document's text and the stat that is stored with it leaves the old text under the new stamp.

**Restructure.** Under `~Disturb` the chain has four links per process (`Sound`): what the preflight has found still holds
until the hashing (`SourcesStand`); what was read is what is there (`ReadIsCurrent`); what is expected is what was read
*and* what was approved (`ExpectedIsRead`); after the comparison the files are as expected (`ExpectedIsCurrent`). Then the
facts about the pure operators (`ContentsFacts`, `RewrittenFacts`, `PatchedIsText`) give the four theorems. `~Disturb` is
what the violation in `Restructure_overwrite` shows to be necessary, and the theorems show that it is sufficient: were
`expected` computed from what was read, the window would close. `~Disturb` does not forbid edits in general: documents
change before `apply` starts, after its hashing, between the lock and the comparison (where they are noticed), and other
batches may be inventoried, planned and applied outside the window. `TypesStay` needs no window: its invariant `Typed` adds
to `TypeOK` what the texts read by each process look like.

**Distribution.** The property is about one write, its reason is the plan. `PlanInv` carries it through the command:
whatever is planned is `Harmless` for the file (the ledger owned it, or the old SKILL.md named it, or the text around the
hint's block stays), and the signature that is compared under the locks is of exactly what was planned from. `LockInv` says
that whoever compares or writes holds the lock files of all its targets, so that no other command writes between its
comparison and its write; only the user's save can, and the property says so. `RecordInv` is about the records that the
steps of a runner need. One lemma (`Stepping`) lifts what one actor does to all.

**Upgrade.** Both theorems are about what many commands, runners, saves and kills add up to, and both rest on the order of
the writes. A command writes in the order of the paths, and capitals sort before `agents/` and `references/`: SKILL.md is
written before the other files of its Skill. So whatever is interrupted, the files that are there can be taken over
(`Whole`), and nothing is orphaned. That no file of an old version appears after somebody has found everything aligned with
a newer one is a matter of two writers. One that has compared the plan again under the lock has it until it ends, so nobody
else can finish writing; but one that only plans needs no lock, and could find nothing to do while the first still has files
to write. It cannot: SKILL.md is no newer than the plan of whoever writes (`Reached`, `AnchorUpTo`), and for the other to
find nothing to do it would have to be. `Backed` is what holds whenever anybody vouches for the installed version
(`Vouched`): a record, a command about to write one, a runner between its alignment and its verdict. When the package is
replaced nobody vouches for the new version (`Replaced`). The two lemmas `CliMoves` and `RunMoves` lift what a command or a
runner does outside `align` to all of `Story`; `Prepares`, `Writes` and `Concluded` do it for the steps of `align`. The
assumption is not idle: an asset that sorted before SKILL.md and were the only one written before a kill would be
found in no ledger and under no name, and once the package has changed it every `align` would report a conflict.

**Registry.** Five invariants, each on top of an earlier one. `Types` adds to `TypeOK` what a process at each place has in
hand (`JobOK`: a request that carries what its command needs, an entry, a snapshot or a rendered Manifest), what an import
has still to do (`Imported`), and that one process at a time is past the lock (`Alone`). `Kept` is about copies: between two
looks a process holds a Manifest, and unless a Manifest was written in a window (`crossed`) what it holds can be read for the
Workspace it was read for, and is what is there when nothing compares it any more. That makes each of the six places at which
a Manifest is written leave it with the id of its Workspace, which is `RegistryReadable`; the import is the hard one,
since it registers Workspaces at other Vaults before their Manifests are written. `Sound` is about roots: each Vault's roots are
declared and unshared (`SoundIn`); whoever is about to bind a root (`Rooted`), and whatever a process will write without looking
again (`Grounded`), has roots that are declared *now*, unless the process has been marked as overtaken or a comparison is
still to come that fails. A command that removes a declaration and a command that binds a root hold different locks, so
neither excludes the other: what remains are exactly the windows counted in `unseen`, and the proof is the argument that there
are no others. `Acknowledged`, on top of `Kept`, is about loss: what was acknowledged of a project is what both files say of
it now (`HeldIn`), unless a process is between its two writes or in an import. For those it says what the files will be:
`Filed` that the Manifest and the `local.yaml` to be written hold everything acknowledged, that the `local.yaml` that is
there still does if the process is killed now, and that the Manifest that is put back does if the second write fails (a
domain command in between marks the process as `rewritten`, and the exception of the property is exactly this); `Restorable`
the same of what a failing import puts back. Between `Plan` and `Apply` a domain command writes the Manifest that it read
with other domains and nothing else (`Rebinds`), so what is acknowledged moves along (`HeldAlong`); that was not so of a
Workspace which an import had registered elsewhere meanwhile, and became part of `crossed`. And every registry, present, to be
written or to be restored, has one Workspace per Vault (`OneEach`, `Apart`), without which a Manifest would have to be read
with two sets of bindings. Each is inductive only with a condition per place; one lemma says what other processes
may do to it (`CopiesStay`, `GroundedOthers`, `RootedOthers`, `FiledOthers`, `RestorableOthers`), another what the acting one
leaves (`MarkedSelf`, `GroundedSelf`, `RootedSelf`, `FiledSelf`, `RestorableSelf`).

`Looked`, on top of `Acknowledged`, is about what a command changes. What a process writes was made from what it read
(`Based`), and what it read is what the files say of the project (`Shown`, for `adopt` `Unlisted`), hence what was
acknowledged of it. The look that the comparison before the write goes back to cannot be out of date. The other look, by
which `adopt` and `update` found their entry and `update_repository` changed it (`Confirmed`), can, and then the command was
overtaken. Since `get_project` raises `project-ambiguous`, a project that can be got is the project of one Workspace only
(`OnlyOne`). The two writes of another process and what it puts back change nothing of any project but its own (`Level`;
`Bare` says that a Vault without a Manifest has no projects). `LevelSelf` and `BasedSelf` are the steps of the process
itself, `LevelOthers` and `BasedOthers` those of the others. The invariant was not inductive in the first form of the model.
There `overtaken` went by Vault, and an import may register a Workspace elsewhere between two looks, so that the project
that is seen is another one; now it goes by project, in whatever Vault, and registering a Vault marks as well. And `update`
passes the clones through `_prepare`, which may fill in a remote that was missing (`AsFilled`); the property now says so.

**Domains.** `TypeOK` is not a matter of types. A plan made from one Vault is carried over to another one, on which somebody
may have removed a directory, put a document where one is needed, or moved the Domain away. The invariant `IInv` says of each
process what its plan is worth (`IsPlan`): its request was `Allowed` on the Vault that it has read, that Vault is one (`IsVault`), and
when it writes, its own comparison held of what it entered with (`Stands`). From this each command's `Effect` on what was read
has types (`TypesDeclared`, `MoveIs`, `MergeIs`, one lemma per command), and so has what `Applied` makes of the Vault of the moment
(`AppliedIsVault`): `Patched` takes every value from one of three Vaults (`PatchedIs`), `Closed` makes the parents of
whatever is there afterwards, and a document where a directory is needed is what `CannotApply` asks about. What
`TypeOK` says about locks is inductive by itself, but only because `Enter` looks at all writers.

`ContentIsKept` follows a text through one write (`Late` and `Stirred` excluded, so the Vault is the one compared). A document is
deleted only by a command that has moved it, or it is where it was. Where something is written the comparison has covered what was
there: rename, move and rekey compare everything, so that what they leave is their `Effect` (`SamePlanApplies`); a merge compares
what it has read and moves only to places where nothing is (`MergeIsFree`), and two files never to the same one (`ApartWhenMerged`); delete
takes away one declaration that was plain and is the compared one; adopt declares where no declaration is. Authored declarations
are counted, so they need an injection and not only an inclusion: each goes to a place of its own.

`ReferencesComeAlong` is about pairs of documents. That nothing of the plan is lost on the way makes the write `Effect` of the
Vault read (`SamePlanApplies`, `MergeApplies`: here the documents are the same as well, or the window `Unseen` is named). Then each
command's parts are followed: `Relocate` rewrites every reference to something that moves, also from documents that move themselves;
`Moved` is injective on what is there, because the target was free; a marker's id goes with it; `Rewritten` changes documents,
markers and the roots alike. A root whose Domain is declared keeps a declared one because all three are changed in one step.

`ActsAlone` needs, for each of the eleven commands (`SpaceAlone`, `CreateAlone`, ... `AdoptAlone`), that what it asks of a Vault and
what it makes of it depend only on what it has compared or, by `Unseen`, has not changed (`SeenAlike`): ids, parents, claims and
places read from the markers (`MarkersAlike`, `RootsAlike`), the spaces, the targets. What is left is that the planned differences,
patched into a Vault with new documents and other texts, give what `Effect` gives there: one lemma for a field that the plan leaves,
replaces (`PatchedAll`) or changes at one place (`PatchedAt`), for directories that move with what was put in them since
(`ShiftAll` carries it along), and one for the directories, which are those that `Closed` makes of what is written (`OneMade`,
`LeftBehind`). The windows for a second Domain or Space of the same id and for the Space that is moved into came
out of this proof: with two commands TLC cannot reach them, with three they are real.

**Upkeep.** An editor never saves a text that was there before. A file that differed from the plan once will therefore
never be as planned again (`AsFiled`): if the index got something else than the plan, the file is different *now*, and the
second inspection, after the `add`, sees it. So what passes the inspection is what was planned (`PlanInv` at `commit`). The
other commands stay out because whoever is past its comparison holds the lock (`Excludes`). `Settled` says at which places of
a run the index is HEAD's (before the `add`, from the commit on) and at which only that no merge is unfinished, so that every
way out, with or without a `reset`, leaves what the next inspection asks for; a merge that is stopped is followed through
the order of its writes, of which only the one between index and `MERGE_HEAD` is lost on the code. The property is about the step that ends a run,
not about every state without a run: after an abort that failed, a Base that is aligned or a MOC that is generated may make
the files such that it would have succeeded.

**Video.** Contents are numbered as they are saved, so what is read later has a number at least as high (`Before`); whoever
reads the same number first and last has read nothing else in between. `PrepareInv` and `DeliverInv` say this for the hash
of the film and of the subtitles before and after the transcription and for the hash of the draft before and after it is
read. `MaterialIsOfItsSource` (all material was transcribed from the content whose hash it bears) is part of the invariant:
the deliveries rest on it, the preparations by `MaterialIsAsPreviewed` keep it.

**Only model-checked.**

* Liveness (`LockFreed`, `IndexCatchesUp`, `UpgradeEnds`): the prover does not reason about fairness.
* `TopologySound` of `Domains` counts issues before and after a command, and what a command does to each count is a
  fact about every chain of parents at once: `Linked` is recursive, and showing it for every depth is an induction over
  the markers. By `ActsAlone` it is at least a property of `Effect` alone: of one command on one Vault.
* `SavedTextStays` and `RecordsWhatIs` of `Upkeep`: both need that a file which is as it was hashed has not been otherwise in
  between. Merges and aborts may bring a text back, so this is a statement about which texts other devices push, and about
  the one push of the run: with more of them a text can go and come back between a hash and its comparison.

## 7. Where code and documentation differ

| Run | The documentation says | The code does |
|---|---|---|
| `WriteLock_steal` | `locking.py:15`, `:20`: governed writes of one scope exclude each other | Two contenders read the same dead PID. One unlinks the file and opens its own; the other, delayed before `unlink` (line 45), removes that new file and opens a second one. Both are inside. |
| `Restructure_overwrite` | `SPEC.md:37`: the hashes the plan was made from are compared under the lock | `_build_change_set` reads texts at line 374 and hashes the files again at line 403; a change in between is hashed as expected and overwritten. Two batches are enough; no editor is needed. |

Each is the sole property of its run and shows the sequence of steps in its counterexample. The following were met while
modelling and have no run of their own. The models have them as the code has them; where a property of section 4
meets one, it excepts exactly that window.

*Executor, index, documents.*

* `ARCHITECTURE.md:154` promises whole success or the state before; `atomic_write` makes missing parent directories
  (`atomic.py:24`), and the rollback removes only those made for moves.
* Document `SPEC.md:51` says that an old snapshot cannot overwrite a newer projection, thanks to the generation. The
  fingerprints are read before the state (`document_index_service.py:168`, `:169`), in separate transactions: a commit in
  between gives the delta the newer generation with the older rows.
* Document `SPEC.md:55` puts affected references into the same change set. The generation that vouches for the list of
  referrers is taken after that list was read (`document_move_service.py:309`). References to a MOC are indexed as missing
  (`document_index_builder.py:51`), so an `apply` that gives a MOC another type, and so another name, rewrites none of them.
* Workspace `SPEC.md:17` says that a pure move does not rewrite the content. The target is written with what `read_text`
  returned (`restructure_service.py:374`): CRLF has become LF.

*Registry and set-up.*

* The Manifest is written under the lock of `campfire_home` by project commands and under the Workspace's lock by domain
  commands, which hash it before they lock (`domain_restructure_service.py:663`): one may take back what the other wrote.
* `update_repository` writes from a project that it has read before the remote was asked (`project_service.py:313` to `:355`).
* `project create` makes the Domain under one lock and registers the project under another; a kill in between leaves a
  Domain without a project. `define` compares no topology before it writes.
* Two `workspace create` of one id and path both pass the check at `workspace_service.py:49`, and the directory that is there
  by then is no error for either; the later saves an empty Manifest over what was bound since (a case of `crossed`).
* A `workspace create` that is killed between the registration and the Manifest cannot be repaired by `setup`, which needs
  the Manifest (`workspace_service.py:92`). `setup` registers a Workspace before it finds that a project is ambiguous.

*Domains and adoption.*

* `delete` does not ask again whether a project is bound to the Domain; merging or adopting may make a project's root
  enclose another's; adopting onto a Domain to which an archived or paused project is bound makes discovery fail.
* `adopt` inside the Vault rewrites no references and takes nested Domains along; it overwrites a declaration that was made
  after it was planned (`adoption_service.py:135`). A Space whose folder is adopted ends without a message.
* `create` and `format` lock `campfire_home`, restructuring locks the Workspace's `state_root`: they do not exclude each other.

*Git and maintenance.*

* An `OSError` while the second snapshot is read, after `git add`, leaves the index staged, although the comment at
  `git_sync_service.py:54` says that it is reset; a failed `merge --abort` leaves the merge unfinished; a merge that the
  timeout stops after it has filled the index and before `MERGE_HEAD` exists is not aborted (`git_sync_service.py:86`). Each
  time the next run is refused, where `docs/git-sync.md:16` has it retry.
* A merge that is stopped while it writes the work tree leaves the files it has written, conflict marks included; the next
  run commits them as the user's.
* A planned deletion whose file came back and went again is committed. New documents are not in the snapshot that `sync`
  compares. `check` records the issues of a text that holds conflict markers.

*Distribution.*

* A target's lock file that was left by a kill is never recovered (`resource_files.py:66`); an active marker left by a
  killed runner blocks later upgrades (`package_updater.py:125`).
* The comparison of digests at `package_updater.py:109` compares a value with what it was computed from.
* A file that was not owned in one version and is no longer in the next is never cleaned up.

## 8. Not modelled, and abstractions

* The components marked "–" in section 1. The document rules, the profiles and the verifier script are pure or only read;
  the command line, the object wiring, the database schema and the release scripts have no state or order of steps of their own.
* What the components marked **P** leave out: the values of a record's columns, the ignore rules of the scanner, the parsing
  of links and frontmatter and the rendering of texts; the configuration file and the health reports; the database, the
  configuration check and the Bases of each Workspace during system set-up, which are outcomes; the rules that find issues,
  which are a function of the text.
* External programs: `git` (merging by file, refusing to overwrite what is not committed or to lose commits), package
  installers, transcription and download tools, the operating system's PIDs. They are modelled by what the code relies on,
  and may fail or time out. The `.git/index.lock` that a killed `git` may leave, which makes every later one fail until
  somebody removes it, is not modelled.
* **Reads of many files as one step.** `Scan`, `Freeze`, `ReadReferences`, `HashReferences` and `Compare` read many files
  one after the other in the code. What an editor does in between is like one edit before or after for each file, except
  that files of different moments are combined; `TakeSnapshot` likewise. In `DocumentIndex`, where that matters most, each
  document's own reads are separate steps.
* **The lock excludes** in every module but `WriteLock`; recovery races are studied there alone.
* **A change set is one step** outside `ChangeSet`, which has the kill in the middle that leaves a torn tree and no journal.
* **Editors between comparison and write** are excluded in `DocumentMutation` (`touched`) and `Restructure` (`EditorMay`):
  `docs/safety.md:19` says that editors do not obey the lock. `ChangeSet` includes them and states its properties up to
  their changes; `Domains`, `Distribution`, `Upkeep` and `Video` include them and name the window.
* **Digests are injective**: a content stands for its SHA-256. **Stamps are fresh**: every change gives a new one; a change
  that keeps size and modification time is outside the model. **Saved texts are new** in `Upkeep` and `Video`: a file that
  changes and changes back between two reads is not there.
* **A killed runner** takes the align that it has started with it (`Kill` of `Distribution`). In reality the child may go on
  without it (`package_update_worker.py:99`). That is the behaviour of a runner killed just before and an `align` of another
  process: the same steps on the same files (`AlignStep`), and a record of the runner that stays as it is from `Verify` to `Judge`.
* **A Domain's MOC** is left out of `Domains`: it is a second file of the declaration, which merge and delete check, hash and
  remove as they do the marker, adopt and create make with it, and format leaves alone.
* **One reference per document** in `Restructure`; sets of references in `DocumentIndex`.
* **One of a kind** stands for many: one Domain for maintenance, one Base, one Skill root and one hint for the resources, one
  film and one draft for video. `Registry`'s import writes a Manifest and its bindings as one step that succeeds or is undone.
* Configurations are numbered and do not return (`Reconfigure`). If a human restores an earlier configuration between
  `plan` and `apply`, a plan judged by another one passes the hash comparison; the model excludes this on purpose, and
  the comment at `Configs` says so.
* Every bound (`MaxCrashes`, `MaxEdits`, `MaxKills`, `MaxGen`, `MaxTrouble`, `MaxRounds`, `MaxCommands`, `MaxRuns`, `MaxSaves`,
  `MaxIncoming`, `MaxFailures`, `MaxFaults`) is a constant in a guard of the environment, of a rebuild, of an inventory or
  of the start of a command, never in the middle of an operation.

## 9. What is left

* Proofs: `TopologySound` of `Domains` by an argument that does not go through the depth of a chain, `SavedTextStays` and
  `RecordsWhatIs` of `Upkeep` with what may be said about texts of other devices.
* Composition: `DocumentMutation` with two movers and an index race, so that the divergence at
  `document_move_service.py:309` gets a property with its window named; `Registry` and `Domains` on one desk.
* Larger instances: three processes in `Restructure` and `Registry`, two edits in `Domains`, two faults in `Distribution`.
* Document rules and profiles as operators against a reference definition, should a property come to depend on them.
