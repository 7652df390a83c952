------------------------------- MODULE Upkeep -------------------------------
(***************************************************************************)
(* One Workspace that is kept in order (Maintenance) and synchronised with *)
(* other devices (GitSync) while an editor saves: they share the files and *)
(* the lock, and nothing else.                                             *)
(***************************************************************************)
EXTENDS Maintenance, Sequences

CONSTANT Incoming   \* what another device may push: path -> text
VARIABLE repo

Git == INSTANCE GitSync

(* Texts below 10 are not the editor's.                                    *)
ASSUME UpkeepAssumption ==
  /\ None \notin Procs /\ Moc \in DOMAIN Start
  /\ \A f \in DOMAIN Start : Start[f] # None => DOMAIN Start[f] = {"text", "region"} /\ Start[f].text \in 0..9
  /\ \A push \in Incoming : \A f \in DOMAIN push : push[f] \in 0..9

vars == <<vault, lock, job, count, db, repo>>

Init == DeskInit /\ MaintenanceInit /\ Git!GitInit
Next ==
  \/ \E p \in Procs : (MaintenanceStep(p) /\ UNCHANGED repo) \/ (Git!GitStep(p) /\ UNCHANGED db)
  \/ Git!Receive /\ UNCHANGED db
  \/ Save /\ UNCHANGED <<db, repo>>
Spec == Init /\ [][Next]_vars

----------------------------------------------------------------------------
(* Every variable has its type, and a command is past its comparison only  *)
(* while it holds the lock.                                                *)
Unlocked == {"idle", "confirm", "enter", "check: topology", "check: hash", "check: rules", "check: lock",
             "sync: topology", "sync: hash", "sync: notes", "sync: moc", "sync: lock", "bases: hash", "bases: lock"}
TypeOK ==
  /\ \A f \in DOMAIN vault : vault[f] # None => vault[f].text \in Nat
  /\ lock \in Procs \union {None}
  /\ \A p \in Procs : job[p].at \notin Unlocked <=> lock = p
  /\ {repo.head, repo.tracking, repo.remote} \subseteq DOMAIN repo.commits

(* What the user wrote in the MOC survives its generation, and what a      *)
(* merge replaces is committed; only a save between the comparison and the *)
(* write, or while a conflict or a failed sync is being taken back, can be *)
(* lost (moc_service.py 58-65, git_sync_service.py 71-93).                 *)
SavedTextStays ==
  [][\A p \in Procs :
       /\ At(p, "sync: write") /\ At(p, "sync: rows")' /\ vault[Moc] = job[p].hashed[Moc] /\ job[p].beside = None
            => vault'[Moc].text = vault[Moc].text
       /\ At(p, "merge") /\ ~At(p, "merge")'
            => \A f \in DOMAIN vault : vault'[f] # vault[f] =>
                 \E c \in repo.commits[repo.head].past : repo.commits[c].tree[f] = vault[f]]_vars

(* A commit holds exactly the files that were inspected before the fetch,  *)
(* none of them half way through another command's change set              *)
(* (git_sync_service.py 46-60, change_set.py 84-105).  Excepted is a file  *)
(* that was deleted, comes back for the add and is deleted once more.      *)
CommitsWhatWasInspected ==
  [][\A p \in Procs : At(p, "commit") /\ repo'.head # repo.head =>
       /\ \A f \in DOMAIN vault :
            LET files == job[p].plan.files
                committed == repo'.commits[repo'.head].tree[f]
            IN  IF f \in DOMAIN files THEN committed = files[f] \/ files[f] = None ELSE committed = None
       /\ \A q \in Procs : ~At(q, "sync: rows")]_vars

(* A run of git sync that ends, however it ends, leaves nothing staged, no *)
(* conflict and no merge unfinished: the next run is not refused for it.   *)
(* Four ends are excepted: it is killed, or what takes back fails; a file  *)
(* that the merge had changed was saved before the abort, which fails      *)
(* then; the merge was stopped after it had filled the index and before    *)
(* MERGE_HEAD, which alone makes it abort; a staged file could not be read *)
(* (git_sync_service.py 50-67, 83-93, docs/git-sync.md 16).                *)
Syncing == {"fetch", "again", "add", "diff", "staged", "commit", "status", "merge", "abort", "push"}
NothingLeftStaged ==
  [][\A p \in Procs : job[p].at \in Syncing /\ lock' = None /\ count'.faults = count.faults =>
       \/ Git!CanInspect'
       \/ At(p, "abort") /\ ~Git!CanAbort
       \/ Git!MergeHalf(p) \/ Git!Unreadable(p)]_vars

(* What check records and sync generates was so when it took the lock:     *)
(* every document has the text the rules read, every note that it lists    *)
(* and has hashed exists, and the topology stands.  Excepted are a note    *)
(* that appears between the hashes and the listing: it is in no hash; a    *)
(* marker that was saved between its reading and its hash; and texts read  *)
(* while another command held the lock, which may take back what it wrote  *)
(* (maintenance_service.py 117-125, 283-308).                              *)
TopologyRead(p) == \A m \in DOMAIN job[p].topology :
                     job[p].hashed[m] # None /\ job[p].hashed[m].text = job[p].topology[m]
RecordsWhatIs ==
  [][\A p \in Procs : lock = None /\ lock' = p /\ job[p].beside = None =>
       /\ At(p, "check: lock") => job[p].read = Texts(DOMAIN job[p].hashed)
       /\ At(p, "sync: lock") => /\ job[p].notes \intersect DOMAIN job[p].hashed \subseteq Present(Notes)
                                 /\ TopologyRead(p) => job[p].topology = Texts(Markers)]_vars
=============================================================================
