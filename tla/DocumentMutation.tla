-------------------------- MODULE DocumentMutation --------------------------
(***************************************************************************)
(* document move, rename and apply with --confirm: DocumentMoveService.    *)
(* _relocate, DocumentApplyService.apply, prepare_document_relocation and  *)
(* refresh_after_write (app/document/service/mutation), on the processes,  *)
(* the index and the editor of DocumentIndex.                              *)
(*                                                                         *)
(* A relocation learns from the index which documents refer to its source, *)
(* without any lock; under the write lock the digests it planned with are  *)
(* compared, prepare_write compares the index with the Vault and marks it  *)
(* dirty, the files are written, and after the lock the index is updated.  *)
(*                                                                         *)
(* The lock excludes here (WriteLock says when), and writing the files is  *)
(* one step that succeeds or changes nothing (ChangeSet says when).  The   *)
(* first of the two reconciliations in a row, before referencing makes its *)
(* own, is a listing that nobody reads.                                    *)
(***************************************************************************)
EXTENDS DocumentIndex

CONSTANTS
  Movers,      \* the processes that move and apply documents
  Moves,       \* the relocations they may ask for: [source, target]
  Applies,     \* the documents they may write: [doc, text]
  Retypes,     \* the documents whose type, and so whose name, they may change: [source, target, text]
  Saves,       \* what the editor may save: [doc, text]
  Removals,    \* what the editor may remove
  NoLock       \* the write lock is free

Contents == [links : SUBSET Docs, moc : BOOLEAN]

ASSUME InputsAssumption ==
  /\ Movers \subseteq Procs /\ NoLock \notin Procs
  /\ Moves \subseteq [source : Docs, target : Docs]
  /\ Retypes \subseteq [source : Docs, target : Docs, text : Contents]
  /\ Applies \subseteq [doc : Docs, text : Contents]
  /\ Saves \subseteq [doc : Docs, text : Contents]

VARIABLES
  lock,   \* who holds the Workspace's write lock
  plan    \* the change each mover has planned

mvars == <<vars, lock, plan>>

NoPlan == [kind |-> "none", source |-> {}, target |-> {}, text |-> NoFile.text,
           found |-> Nothing, absent |-> {}, token |-> 0]

MInit == Init /\ lock = NoLock /\ plan = [p \in Procs |-> NoPlan]

----------------------------------------------------------------------------
(* rewrite_related_docs for the one pair of paths of a relocation          *)
Rewritten(text, source, target) ==
  [text EXCEPT !.links = {IF t = source THEN target ELSE t : t \in @}]

Referrers(pl) == DOMAIN pl.found \ {pl.source}

(* The writes of the change set; referrers that need no change have none.  *)
Writes(pl) ==
  IF pl.kind = "apply" THEN [d \in {pl.target} |-> pl.text]
  ELSE [d \in {pl.target} \union {r \in Referrers(pl) : pl.source \in pl.found[r].links} |->
          Rewritten(IF d = pl.target THEN pl.text ELSE pl.found[d], pl.source, pl.target)]

Deletes(pl) == IF pl.kind = "move" THEN {pl.source} ELSE {}

KnownPaths(pl) == DOMAIN Writes(pl) \union {pl.source, pl.target}

(* snapshot_changes is empty.                                              *)
AsPlanned(pl) ==
  /\ pl.absent \intersect DOMAIN files = {}
  /\ \A d \in DOMAIN pl.found : d \in {x \in DOMAIN files : files[x].text = pl.found[d]}

(* The operation ends with nothing written.                                *)
GiveUp(p) ==
  /\ Raise(p) /\ plan' = [plan EXCEPT ![p] = NoPlan]

----------------------------------------------------------------------------
(* The source is read before the index is: it must be there, the target    *)
(* must not, and a MOC is not moved.                                       *)
PlanMove(p, m) ==
  /\ clock < MaxEdits
  /\ m.source \in {d \in DOMAIN files : ~files[d].text.moc} /\ m.target \notin DOMAIN files
  /\ plan' = [plan EXCEPT ![p] = [NoPlan EXCEPT
       !.kind = "move", !.source = m.source, !.target = m.target,
       !.text = files[m.source].text, !.absent = {m.target},
       !.found = [d \in {m.source} |-> files[m.source].text]]]
  /\ Begin(p, "plan", {})
  /\ UNCHANGED lock

(* apply with another type: the text is patched and the name is prefixed,  *)
(* so the document moves.  A MOC may get another type, too, and no other   *)
(* type than the one it has makes a document a MOC.                        *)
PlanRetype(p, r) ==
  /\ clock < MaxEdits
  /\ r.source \in DOMAIN files /\ r.target \notin DOMAIN files
  /\ ~(files[r.source].text.moc /\ r.text.moc)
  /\ plan' = [plan EXCEPT ![p] = [NoPlan EXCEPT
       !.kind = "move", !.source = r.source, !.target = r.target,
       !.text = r.text, !.absent = {r.target},
       !.found = [d \in {r.source} |-> files[r.source].text]]]
  /\ Begin(p, "plan", {})
  /\ UNCHANGED lock

(* apply at one path: create the document or change its text.  A rename    *)
(* that keeps the path does the same.                                      *)
PlanApply(p, w) ==
  /\ clock < MaxEdits
  /\ plan' = [plan EXCEPT ![p] = [NoPlan EXCEPT
       !.kind = "apply", !.source = w.doc, !.target = w.doc, !.text = w.text,
       !.absent = {w.doc} \ DOMAIN files,
       !.found = [d \in {w.doc} \intersect DOMAIN files |-> files[d].text]]]
  /\ Begin(p, "plan", {})
  /\ UNCHANGED lock

(* referencing, after its reconcile; then every referrer's text is read.   *)
LoadReferrers(p) ==
  LET pl   == plan[p]
      refs == {e.src : e \in {x \in edges : x.dst = pl.source /\ x.res = "resolved"}}
  IN  /\ pc[p] = "reconciled" /\ job[p].op = "plan" /\ pl.kind = "move"
      /\ Goto(p, "referrers")
      /\ job' = [job EXCEPT ![p] = [NoJob EXCEPT !.op = "plan", !.known = refs \ {pl.source}]]
      /\ UNCHANGED <<vaultVars, dbVars, historyVars, lock, plan>>

ReadReferrers(p) ==
  LET refs == job[p].known
  IN  /\ pc[p] = "referrers"
      /\ IF refs \subseteq DOMAIN files
         THEN /\ Goto(p, "planned") /\ UNCHANGED job
              /\ plan' = [plan EXCEPT ![p].found = Overlay(@, [d \in refs |-> files[d].text])]
         ELSE GiveUp(p)
      /\ UNCHANGED <<vaultVars, dbVars, historyVars, lock>>

(* generation(): the index this plan was made from                         *)
TakeGeneration(p) ==
  /\ \/ pc[p] = "planned"
     \/ pc[p] = "reconciled" /\ job[p].op = "plan" /\ plan[p].kind = "apply"
  /\ Goto(p, "ready")
  /\ job' = [job EXCEPT ![p] = NoJob]
  /\ plan' = [plan EXCEPT ![p].token = state.gen]
  /\ UNCHANGED <<vaultVars, dbVars, historyVars, lock>>

(* Without --confirm, or with another plan than was previewed, the command *)
(* ends with the plan it has made.                                         *)
Preview(p) ==
  /\ pc[p] = "ready"
  /\ GiveUp(p)
  /\ UNCHANGED <<vaultVars, dbVars, historyVars, lock>>

Lock(p) ==
  /\ pc[p] = "ready"
  /\ \/ lock = NoLock /\ lock' = p /\ Goto(p, "locked") /\ UNCHANGED <<job, plan>>
     \/ lock # NoLock /\ GiveUp(p) /\ UNCHANGED lock
  /\ UNCHANGED <<vaultVars, dbVars, historyVars>>

Compare(p) ==
  /\ pc[p] = "locked"
  /\ IF AsPlanned(plan[p])
     THEN Goto(p, "compared") /\ UNCHANGED <<job, plan, lock>>
     ELSE GiveUp(p) /\ lock' = NoLock
  /\ UNCHANGED <<vaultVars, dbVars, historyVars>>

(* Mutated form of IndexStands: the generation alone is compared.          *)
SameGenerationOnly(pl) == state.gen = pl.token

(* The index is the one of the plan and describes the Vault as it is.      *)
IndexStands(pl) ==
  /\ state # NoState /\ state.gen = pl.token
  /\ DOMAIN files = DOMAIN rows
  /\ ChangedPaths(DOMAIN files, rows) = {}
  /\ IsCurrent(state, topo, FALSE)

(* prepare_write up to its conditions                                      *)
CheckIndex(p) ==
  /\ pc[p] = "compared"
  /\ IF IndexStands(plan[p])
     THEN /\ Goto(p, "checked") /\ UNCHANGED <<job, plan, lock>>
          /\ touched' = [touched EXCEPT ![p] = {}]
     ELSE GiveUp(p) /\ lock' = NoLock /\ UNCHANGED touched
  /\ UNCHANGED <<vaultVars, dbVars, answer>>

MarkDirty(p) ==
  /\ pc[p] = "checked"
  /\ Goto(p, "dirty")
  /\ state' = [state EXCEPT !.status = "dirty"]
  /\ UNCHANGED <<vaultVars, rows, edges, job, historyVars, lock, plan>>

(* The change set is executed; the lock is still held.                     *)
WriteFiles(p) ==
  LET new == Writes(plan[p])
  IN  /\ pc[p] = "dirty"
      /\ Goto(p, "written")
      /\ clock' = clock + 1
      /\ files' = Overlay([d \in DOMAIN new |-> [text |-> new[d], stamp |-> clock + 1]],
                          Without(files, Deletes(plan[p])))
      /\ touched' = [q \in Procs |-> IF q = p THEN touched[p]
                                     ELSE touched[q] \union KnownPaths(plan[p])]
      /\ UNCHANGED <<topo, dbVars, job, answer, lock, plan>>

(* ... or fails and is undone: the index stays dirty.                      *)
WriteFails(p) ==
  /\ pc[p] = "dirty"
  /\ GiveUp(p) /\ lock' = NoLock
  /\ UNCHANGED <<vaultVars, dbVars, historyVars>>

(* The lock is released and refresh_after_write begins its update_paths.   *)
Refresh(p) ==
  /\ pc[p] = "written"
  /\ Goto(p, "scan") /\ lock' = NoLock
  /\ job' = [job EXCEPT ![p] = [NoJob EXCEPT !.op = "update", !.known = KnownPaths(plan[p])]]
  /\ plan' = [plan EXCEPT ![p] = NoPlan]
  /\ UNCHANGED <<vaultVars, dbVars, historyVars>>

----------------------------------------------------------------------------
MoveStep(p) ==
  \/ LoadReferrers(p) \/ ReadReferrers(p) \/ TakeGeneration(p) \/ Preview(p) \/ Lock(p) \/ Compare(p)
  \/ CheckIndex(p) \/ MarkDirty(p) \/ WriteFiles(p) \/ WriteFails(p) \/ Refresh(p)

Plan(p) ==
  /\ state.gen < MaxGen
  /\ (\E m \in Moves : PlanMove(p, m)) \/ (\E w \in Applies : PlanApply(p, w)) \/ (\E r \in Retypes : PlanRetype(p, r))

IndexStep(p) == Step(p) /\ UNCHANGED <<lock, plan>>

MEdit ==
  /\ (\E s \in Saves : Save(s.doc, s.text)) \/ (\E d \in Removals : Remove(d)) \/ EditMarkers
  /\ UNCHANGED <<lock, plan>>

MNext ==
  \/ \E p \in Procs : (List(p) /\ UNCHANGED <<lock, plan>>) \/ IndexStep(p) \/ MoveStep(p)
  \/ \E p \in Movers : Plan(p)
  \/ MEdit

MSpec == MInit /\ [][MNext]_mvars

(* A started operation runs to its end, and documents go on being listed:  *)
(* the index is refreshed by its readers and by nothing else.              *)
MFairness ==
  \A p \in Procs : /\ WF_mvars(IndexStep(p) \/ MoveStep(p))
                   /\ SF_mvars(List(p) /\ UNCHANGED <<lock, plan>>)

MFairSpec == MSpec /\ MFairness

----------------------------------------------------------------------------
(* A relocation takes all references along: when its files are written, no *)
(* document still refers to the old path, MOCs and documents that someone  *)
(* changed after prepare_write had looked at the Vault excepted.  What     *)
(* moves is a document that the index offers as a target: references to a  *)
(* MOC, or to what was gone when prepare_write looked, resolve to nothing  *)
(* and are left as they are.                                               *)
NoReferenceLeftBehind ==
  \A p \in Procs :
    pc[p] = "written" /\ plan[p].kind = "move" /\ plan[p].source \in Queryable(rows) =>
      \A d \in DOMAIN files \ touched[p] :
        ~files[d].text.moc => plan[p].source \notin files[d].text.links

----------------------------------------------------------------------------
(* The inductive invariant behind QueryFresh and NoReferenceLeftBehind,    *)
(* for one process and an editor who waits (DocumentProofs).               *)
OneProcess == \A p, q \in Procs : p = q

(* What is there, and when it came to be there                             *)
IsState(s) == Fields(s, {"gen", "status", "topo"})
IsPlan(pl) == Fields(pl, {"kind", "source", "target", "text", "found", "absent", "token"})

RecordsHold ==
  /\ JobsAreRecords /\ \A d \in DOMAIN rows : IsRow(rows[d])
  /\ IsState(state)
  /\ plan = [p \in Procs |-> plan[p]] /\ \A p \in Procs : IsPlan(plan[p])
  /\ answer = [p \in Procs |-> answer[p]] /\ touched = [p \in Procs |-> touched[p]]
  /\ \A d \in DOMAIN files : files[d].text \in Contents

StampsArePast ==
  /\ clock \in Nat /\ topo \in 0..clock /\ state.topo \in 0..clock
  /\ \A d \in DOMAIN files : files[d].stamp \in 0..clock
  /\ \A d \in DOMAIN rows : rows[d].stamp \in 0..clock

(* A stamp that is still the file's vouches for the text.                  *)
Vouches(table) ==
  \A d \in DOMAIN table \intersect DOMAIN files :
    table[d].stamp = files[d].stamp => table[d].text = files[d].text

DomainsStand ==
  state # NoState /\ state.topo = topo => \A d \in DOMAIN rows : rows[d].domain = topo

(* The index is right about what nobody has touched since, ...             *)
Fresh(p) ==
  \A d \in Docs \ touched[p] :
    /\ d \in DOMAIN rows <=> d \in DOMAIN files
    /\ d \in DOMAIN rows => rows[d].text = files[d].text /\ rows[d].domain = topo

(* ... for which a reconcile still has in hand what it has read, ...       *)
ReadsStand(p) ==
  LET j == job[p]
  IN  /\ pc[p] \in {"scanned", "fingerprints"} \union Loaded =>
             \A d \in Docs \ touched[p] : d \in j.scan <=> d \in DOMAIN files
      /\ pc[p] \in {"fingerprints"} \union Loaded => j.existing = rows
      /\ pc[p] \in Loaded => j.base = state
      /\ pc[p] = "parsed" /\ j.open.doc \in DOMAIN files =>
             files[j.open.doc].text = j.open.text

MarkersStand(p) ==
  LET j == job[p]
  IN  pc[p] \in Building =>
        /\ j.topo \in 0..clock
        /\ ~j.full => state # NoState /\ state.topo = j.topo
        /\ Docs \ touched[p] # {} => j.topo = topo

(* ... has built rows that say what the files say, and does without a row  *)
(* of its own where the stored one does.                                   *)
BuiltStands(p) ==
  LET j == job[p]
  IN  pc[p] \in Building =>
        /\ Vouches(j.built)
        /\ \A d \in DOMAIN j.built :
             /\ j.built[d].stamp \in 0..clock
             /\ j.topo = topo => j.built[d].domain = topo
             /\ d \in Docs \ touched[p] => j.built[d].text = files[d].text
        /\ \A d \in (j.scan \ (j.todo \union DOMAIN j.built)) \ touched[p] :
             ~j.full /\ (d \in Docs => d \in DOMAIN rows /\ rows[d].text = files[d].text)

ReconcileSound(p) ==
  /\ BuiltIsScanned(p) /\ TakenOverStands(p)
  /\ ReadsStand(p) /\ MarkersStand(p) /\ BuiltStands(p)
  /\ pc[p] = "reconciled" => Fresh(p)

(* The relocation a mover has planned; the referrers it has learnt of are  *)
(* those the index has, ...                                                *)
ReferringTo(d) == {e.src : e \in {x \in edges : x.dst = d /\ x.res = "resolved"}}

PlanSound(p) ==
  LET pl == plan[p]
  IN  /\ pl.text \in Contents /\ \A d \in DOMAIN pl.found : pl.found[d] \in Contents
      /\ pl.kind = "move" => /\ pl.source # pl.target /\ pl.target \in Docs
                             /\ pl.source \in DOMAIN pl.found

Prepared == {"planned", "ready", "locked", "compared", "checked", "dirty"}

ReferrersKnown(p) ==
  LET pl == plan[p]
  IN  /\ pc[p] \in Prepared \union {"referrers"} => pl.kind \in {"move", "apply"}
      /\ pc[p] = "referrers" => job[p].known = ReferringTo(pl.source) \ {pl.source}
      /\ pc[p] \in Prepared /\ pl.kind = "move" =>
             ReferringTo(pl.source) \subseteq DOMAIN pl.found

(* ... and what it has read of them is what the index has read.            *)
FoundStands(p) ==
  LET pl == plan[p]
  IN  /\ pc[p] = "compared" =>
             \A d \in DOMAIN pl.found \intersect DOMAIN files \intersect DOMAIN rows :
               rows[d].stamp = files[d].stamp => files[d].text = pl.found[d]
      /\ pc[p] = "checked" => state # NoState
      /\ pc[p] \in {"checked", "dirty"} =>
             \A d \in DOMAIN files \ touched[p] :
               /\ d \in DOMAIN rows /\ rows[d].text = files[d].text
               /\ d \in DOMAIN pl.found => files[d].text = pl.found[d]

MoveSound(p) == PlanSound(p) /\ ReferrersKnown(p) /\ FoundStands(p)

MInv ==
  /\ RecordsHold /\ StampsArePast /\ Vouches(rows) /\ DomainsStand /\ EdgesMatchRows
  /\ \A p \in Procs : ReconcileSound(p) /\ MoveSound(p)
  /\ QueryFresh /\ NoReferenceLeftBehind
=============================================================================
