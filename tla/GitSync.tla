------------------------------ MODULE GitSync ------------------------------
(***************************************************************************)
(* workspace git sync (GitSyncService): commit the whole work tree, merge  *)
(* the upstream and push, under the lock of the Workspace, after           *)
(* inspecting twice that nothing is staged, unfinished or changed.  Every  *)
(* step is a git process of its own, each may fail or be stopped by its    *)
(* timeout, and other devices push to the same upstream.                   *)
(*                                                                         *)
(* A commit is its tree and the commits it descends from.  What git itself *)
(* does is modelled as external: merge by file, in the order of its writes *)
(* (work tree, index, MERGE_HEAD, HEAD), refusal to overwrite what is not  *)
(* committed, refusal of a push that loses commits.                        *)
(***************************************************************************)
EXTENDS Desk, Sequences

CONSTANTS
  Incoming   \* what another device may push: path -> text

VARIABLE repo   \* [commits, head, tracking, remote, index, unmerged, merging]:
                \* the paths in conflict in the index, whether MERGE_HEAD exists

Tree(c)   == repo.commits[c].tree
Past(c)   == repo.commits[c].past
Newest    == Len(repo.commits) + 1
NewCommit(tree, past) == Append(repo.commits, [tree |-> tree, past |-> past \union {Newest}])
GitInit ==
  repo = [commits |-> <<[tree |-> Start, past |-> {1}]>>, head |-> 1, tracking |-> 1, remote |-> 1,
          index |-> Start, unmerged |-> {}, merging |-> FALSE]

(* _inspect and _snapshot: HEAD and every file of the work tree; a file    *)
(* that HEAD or the index has and the work tree has not counts as deleted. *)
NoMerge    == ~repo.merging /\ repo.unmerged = {}
CanInspect == NoMerge /\ repo.index = Tree(repo.head)
Listed     == {f \in DOMAIN vault : {vault[f], repo.index[f], Tree(repo.head)[f]} # {None}}
Snapshot   == [head |-> repo.head, files |-> Look(Listed)]
Clean      == vault = Tree(repo.head) /\ repo.index = Tree(repo.head)

Stop(p)    == Finish(p) /\ lock' = None
Still      == UNCHANGED <<vault, repo>>
Blocked(p) == Stop(p) /\ Still /\ UNCHANGED count
(* reset --mixed HEAD.                                                     *)
Reset      == repo' = [repo EXCEPT !.index = Tree(repo.head)]
StopAsItIs(p) == Stop(p) /\ Still
ResetAndStop(p) == Stop(p) /\ Reset /\ UNCHANGED vault

(* The preview without --confirm; its plan may be passed on.               *)
Preview(p) ==
  /\ MayRun(p, "git") /\ Goto(p, "confirm")
  /\ Still /\ UNCHANGED lock
Choose(p) ==
  /\ At(p, "confirm")
  /\ \E expected \in IF CanInspect THEN {None, Snapshot} ELSE {None} :
       job' = [job EXCEPT ![p] = [@ EXCEPT !.at = "enter", !.expected = expected]]
  /\ Still /\ UNCHANGED <<lock, count>>
Enter(p) ==
  /\ At(p, "enter")
  /\ IF lock = None /\ CanInspect /\ job[p].expected \in {None, Snapshot}
     THEN lock' = p /\ job' = [job EXCEPT ![p] = [@ EXCEPT !.at = "fetch", !.plan = Snapshot]]
     ELSE Finish(p) /\ UNCHANGED lock
  /\ Still /\ UNCHANGED count

Fetched == [repo EXCEPT !.tracking = repo.remote]
Fetch(p) ==
  /\ At(p, "fetch") /\ Goto(p, "again") /\ repo' = Fetched
  /\ UNCHANGED <<vault, lock, count>>
Again(p) ==
  /\ At(p, "again")
  /\ IF CanInspect /\ Snapshot = job[p].plan
     THEN Goto(p, IF vault = Tree(repo.head) THEN "status" ELSE "add") /\ Still /\ UNCHANGED <<lock, count>>
     ELSE Blocked(p)

(* add --all, diff --exit-code, and the snapshot once more.                *)
Add(p) ==
  /\ At(p, "add") /\ Goto(p, "diff")
  /\ repo' = [repo EXCEPT !.index = vault]
  /\ UNCHANGED <<vault, lock, count>>
Diff(p) ==
  /\ At(p, "diff")
  /\ IF repo.index = vault THEN Goto(p, "staged") /\ Still /\ UNCHANGED <<lock, count>>
                           ELSE ResetAndStop(p) /\ UNCHANGED count
StagedUnchecked(p) == At(p, "staged") /\ Goto(p, "commit") /\ Still /\ UNCHANGED <<lock, count>>
Staged(p) ==
  /\ At(p, "staged")
  /\ IF Snapshot = job[p].plan THEN Goto(p, "commit") /\ Still /\ UNCHANGED <<lock, count>>
                               ELSE ResetAndStop(p) /\ UNCHANGED count
Committed == [repo EXCEPT !.commits = NewCommit(repo.index, Past(repo.head)), !.head = Newest]
Commit(p) ==
  /\ At(p, "commit") /\ Goto(p, "status") /\ repo' = Committed
  /\ UNCHANGED <<vault, lock, count>>
Status(p) ==
  /\ At(p, "status")
  /\ IF Clean THEN Goto(p, "merge") /\ Still /\ UNCHANGED <<lock, count>> ELSE Blocked(p)

(* merge --ff: file by file against the common ancestor.  Files that it    *)
(* must change and that differ from HEAD make it fail before any change.   *)
MergeBase(a, b) == CHOOSE c \in Past(a) \intersect Past(b) :
                     \A d \in Past(a) \intersect Past(b) : d \in Past(c)
Upstream == Tree(repo.tracking)
Ours     == Tree(repo.head)
Ancestor == Tree(MergeBase(repo.head, repo.tracking))
Taken    == {f \in DOMAIN Ours : Upstream[f] # Ancestor[f] /\ Ours[f] # Upstream[f]}
Clashes  == {f \in Taken : Ours[f] # Ancestor[f]}
Merged   == [f \in DOMAIN Ours |-> IF f \in Taken THEN Upstream[f] ELSE Ours[f]]
Conflict == [text |-> 9, region |-> None]
Overwrites == \E f \in Taken : vault[f] # Ours[f]

InWorkTree(S) == [f \in DOMAIN vault |-> IF f \notin S THEN vault[f]
                                         ELSE IF f \in Clashes THEN Conflict ELSE Upstream[f]]
InIndex == [repo EXCEPT !.index = Merged, !.unmerged = Clashes]
UpToDate    == repo.tracking \in Past(repo.head)
FastForward == repo.head \in Past(repo.tracking)
Joined == IF UpToDate THEN repo
          ELSE IF FastForward THEN [repo EXCEPT !.head = repo.tracking, !.index = Upstream]
          ELSE [repo EXCEPT !.commits = NewCommit(Merged, Past(repo.head) \union Past(repo.tracking)),
                            !.head = Newest, !.index = Merged]

Merge(p) ==
  /\ At(p, "merge")
  /\ \/ /\ Overwrites /\ Blocked(p)
     \/ /\ ~Overwrites /\ Clashes = {}
        /\ Goto(p, "push") /\ UNCHANGED <<lock, count>>
        /\ vault' = InWorkTree(Taken) /\ repo' = Joined
     \/ /\ ~Overwrites /\ Clashes # {}
        /\ Goto(p, "abort") /\ UNCHANGED <<lock, count>>
        /\ vault' = InWorkTree(Taken) /\ repo' = [InIndex EXCEPT !.merging = TRUE]

(* A merge that is stopped by the timeout of run_git, or by a hook, has    *)
(* done part of its work.  What it did is aborted if MERGE_HEAD exists     *)
(* then; if not, files in the work tree or in the index are left.          *)
MergeStops(p) == At(p, "merge") /\ ~Overwrites /\ ~UpToDate /\ Tally("failures", MaxFailures)
MergePart(p) ==
  /\ MergeStops(p) /\ Stop(p)
  /\ \E S \in SUBSET Taken : vault' = InWorkTree(S)
  /\ UNCHANGED repo
MergeHalf(p) ==
  /\ MergeStops(p) /\ Stop(p)
  /\ vault' = InWorkTree(Taken) /\ repo' = InIndex
MergeUnfinished(p) ==
  /\ MergeStops(p) /\ ~FastForward /\ Clashes = {}
  /\ Goto(p, "abort") /\ UNCHANGED lock
  /\ vault' = InWorkTree(Taken)
  /\ \E moved \in {InIndex, Joined} : repo' = [moved EXCEPT !.merging = TRUE]
MergeDone(p) ==
  /\ MergeStops(p) /\ Clashes = {} /\ Stop(p)
  /\ vault' = InWorkTree(Taken) /\ repo' = Joined
MergeFails(p) == MergePart(p) \/ MergeHalf(p) \/ MergeUnfinished(p) \/ MergeDone(p)

(* merge --abort: what the index has otherwise than HEAD goes back to it,  *)
(* conflicting files whatever they hold; a merged file that was changed    *)
(* meanwhile makes it fail.                                                *)
Differing == repo.unmerged \union {f \in DOMAIN Ours : repo.index[f] # Ours[f]}
CanAbort  == \A f \in Differing \ repo.unmerged : vault[f] = repo.index[f]
Abort(p) ==
  /\ At(p, "abort") /\ Stop(p) /\ UNCHANGED count
  /\ IF CanAbort THEN /\ vault' = [f \in DOMAIN vault |-> IF f \in Differing THEN Ours[f] ELSE vault[f]]
                      /\ repo' = [repo EXCEPT !.merging = FALSE, !.unmerged = {}, !.index = Ours]
                 ELSE Still

Push(p) ==
  /\ At(p, "push")
  /\ IF Clean /\ repo.remote \in Past(repo.head)
     THEN /\ repo' = [repo EXCEPT !.remote = repo.head, !.tracking = repo.head]
          /\ Stop(p) /\ UNCHANGED <<vault, count>>
     ELSE Blocked(p)

(* A git process fails or is stopped after 30 seconds.  fetch, commit and  *)
(* push may have done their work all the same.                             *)
Fail(p) ==
  /\ Tally("failures", MaxFailures)
  /\ \/ job[p].at \in {"fetch", "again", "merge", "push", "status"} /\ Stop(p) /\ Still
     \/ job[p].at \in {"add", "diff", "staged", "commit"} /\ ResetAndStop(p)
     \/ At(p, "fetch") /\ Stop(p) /\ repo' = Fetched /\ UNCHANGED vault
     \/ At(p, "commit") /\ Stop(p) /\ repo' = Committed /\ UNCHANGED vault
     \/ /\ At(p, "push") /\ Clean /\ repo.remote \in Past(repo.head)
        /\ Stop(p) /\ repo' = [repo EXCEPT !.remote = repo.head] /\ UNCHANGED vault

(* A file that cannot be read by the snapshot after add: an OSError, which *)
(* nobody takes for a reason to reset.                                     *)
Unreadable(p) == At(p, "staged") /\ Tally("failures", MaxFailures) /\ Stop(p) /\ Still

(* What no step cleans up: the process is killed, or a step that puts      *)
(* something back, or the git processes that lead to it, fail too.         *)
LeaveBehind(p) ==
  /\ Tally("faults", MaxFaults)
  /\ job[p].at \in {"diff", "staged", "commit", "abort"}
  /\ Stop(p) /\ Still

(* Another device pushes.                                                  *)
Receive ==
  /\ Tally("incoming", MaxIncoming)
  /\ \E push \in Incoming :
       LET tree == [f \in DOMAIN vault |-> IF f \in DOMAIN push THEN [text |-> push[f], region |-> None]
                                            ELSE Tree(repo.remote)[f]]
       IN  /\ tree # Tree(repo.remote)
           /\ repo' = [repo EXCEPT !.commits = NewCommit(tree, Past(repo.remote)), !.remote = Newest]
  /\ UNCHANGED <<vault, lock, job>>

GitStep(p) ==
  Preview(p) \/ Choose(p) \/ Enter(p) \/ Fetch(p) \/ Again(p) \/ Add(p) \/ Diff(p) \/ Staged(p) \/ Commit(p)
  \/ Status(p) \/ Merge(p) \/ MergeFails(p) \/ Abort(p) \/ Push(p) \/ Fail(p) \/ Unreadable(p) \/ LeaveBehind(p)
=============================================================================
