--------------------------- MODULE DocumentIndex ---------------------------
(***************************************************************************)
(* DocumentIndexService._reconcile and list_documents with the SQLite      *)
(* repository and the index builder (app/document): a projection of the    *)
(* Vault's Markdown documents and of their related_docs references, kept   *)
(* up to date by whoever queries it.                                       *)
(*                                                                         *)
(* Reconciling takes no lock.  Every SELECT sees the database of its own   *)
(* moment (sqlite3 opens a transaction only before a write), replace_      *)
(* snapshot is one transaction, and an editor changes documents and        *)
(* domain markers at any moment.  A file's stamp stands for its size and   *)
(* modification time, its text for its content and for the content's hash. *)
(***************************************************************************)
EXTENDS Naturals, FiniteSets

CONSTANTS
  Procs,         \* campfire processes of one Workspace
  Docs,          \* paths of documents
  Texts,         \* what a document may say: [links : SUBSET Docs, moc : BOOLEAN]
  InitialFiles,  \* the documents to start from, all with stamp 0
  StartIndexed,  \* the index exists already
  EditorWaits,   \* the editor saves no document while it is being indexed
  MaxEdits,      \* bound on the changes made to the Vault
  MaxGen         \* bound on the generation at which a rebuild is asked for

ASSUME TextsAssumption == Texts \subseteq [links : SUBSET Docs, moc : BOOLEAN]
ASSUME FlagsAssumption == StartIndexed \in BOOLEAN /\ EditorWaits \in BOOLEAN
ASSUME BoundsAssumption == MaxEdits \in Nat /\ MaxGen \in Nat
ASSUME FilesAssumption ==
  /\ DOMAIN InitialFiles \subseteq Docs
  /\ \A d \in DOMAIN InitialFiles : InitialFiles[d] \in [text : Texts, stamp : {0}]

VARIABLES
  files,    \* the documents that exist: path -> [text, stamp]
  topo,     \* what the domain markers say; topology_hash, and the domain of a row
  rows,     \* table Document: path -> [text, stamp, domain]
  edges,    \* table DocumentEdge: set of [src, dst, res]
  state,    \* table DocumentIndexState
  pc,       \* where each process is
  job,      \* the local variables of its _reconcile
  answer,   \* what its last list_documents returned
  clock,    \* history: number of changes made to the Vault
  touched   \* history: the documents changed since its operation began

dbVars      == <<rows, edges, state>>
vaultVars   == <<files, topo, clock>>
historyVars == <<answer, touched>>
vars == <<vaultVars, dbVars, pc, job, historyVars>>

----------------------------------------------------------------------------
(* The empty table of states, seen as a state: generation 0.               *)
NoState == [gen |-> 0, status |-> "none", topo |-> 0]

Nothing == [d \in {} |-> {}]
NoFile  == [doc |-> {}, stamp |-> 0, text |-> [links |-> {}, moc |-> FALSE]]
NoJob   == [op |-> "none", known |-> {}, scan |-> {}, existing |-> Nothing,
            base |-> NoState, topo |-> 0, full |-> FALSE, todo |-> {},
            built |-> Nothing, reparsed |-> {}, open |-> NoFile]

Overlay(f, g) ==
  [d \in DOMAIN f \union DOMAIN g |-> IF d \in DOMAIN f THEN f[d] ELSE g[d]]
Without(f, S) == [d \in DOMAIN f \ S |-> f[d]]

(* load_documents(...).queryable: every document but a MOC                 *)
Queryable(table) == {d \in DOMAIN table : ~table[d].text.moc}

(* edges_for_sources for one source, with related_documents' verdicts.     *)
EdgesOf(source, text, candidates) ==
  {[src |-> source, dst |-> t,
    res |-> IF t = source THEN "self" ELSE IF t \in candidates THEN "resolved" ELSE "missing"]
     : t \in IF text.moc THEN {} ELSE text.links}

AllEdges(table, sources) ==
  UNION {EdgesOf(d, table[d].text, Queryable(table)) : d \in sources}

IndexedFiles ==
  [d \in DOMAIN files |-> [text |-> files[d].text, stamp |-> files[d].stamp, domain |-> topo]]

(* _state_is_current; an update completing a write does not mind "dirty".  *)
IsCurrent(st, hash, completing) ==
  /\ st # NoState
  /\ st.status = "ready" \/ completing
  /\ st.topo = hash

(* _changed_paths *)
ChangedPaths(paths, existing) ==
  {d \in paths : d \notin DOMAIN existing \/ existing[d].stamp # files[d].stamp}

Deleted(j) == DOMAIN j.existing \ j.scan

(* The dictionary records of _reconcile, once every change has been read.  *)
Records(j) == IF j.full THEN j.built ELSE Overlay(j.built, Without(j.existing, Deleted(j)))

NewEdges(j) ==
  UNION {EdgesOf(d, j.built[d].text, Queryable(Records(j))) : d \in j.reparsed}

(* Edges that survive a delta: not from a reread or deleted source, and    *)
(* with a new verdict when their target was affected.                      *)
KeptEdges(j) ==
  LET affected == DOMAIN j.built \union Deleted(j)
      verdict(t) == IF t \in Queryable(Records(j)) THEN "resolved" ELSE "missing"
  IN  {IF e.dst \in affected /\ e.res # "self" THEN [e EXCEPT !.res = verdict(e.dst)] ELSE e
         : e \in {x \in edges : x.src \notin j.reparsed \union Deleted(j)}}

Goto(p, label) == pc' = [pc EXCEPT ![p] = label]

(* The operation raises (GovernanceBlockedError, FileNotFoundError, ...).  *)
Raise(p) == Goto(p, "idle") /\ job' = [job EXCEPT ![p] = NoJob]

Init ==
  /\ files = InitialFiles /\ topo = 0 /\ clock = 0
  /\ rows = IF StartIndexed THEN IndexedFiles ELSE Nothing
  /\ edges = AllEdges(rows, DOMAIN rows)
  /\ state = IF StartIndexed THEN [gen |-> 1, status |-> "ready", topo |-> 0] ELSE NoState
  /\ pc = [p \in Procs |-> "idle"]
  /\ job = [p \in Procs |-> NoJob]
  /\ answer = [p \in Procs |-> Nothing]
  /\ touched = [p \in Procs |-> {}]

----------------------------------------------------------------------------
(* _reconcile, from one read of shared state to the next                   *)

Begin(p, op, known) ==
  /\ pc[p] \in {"idle", "answered"}
  /\ Goto(p, "scan")
  /\ job' = [job EXCEPT ![p] = [NoJob EXCEPT !.op = op, !.known = known]]
  /\ answer' = [answer EXCEPT ![p] = Nothing]
  /\ touched' = [touched EXCEPT ![p] = {}]
  /\ UNCHANGED <<vaultVars, dbVars>>

List(p) == Begin(p, "list", {})

Rebuild(p) == state.gen < MaxGen /\ Begin(p, "rebuild", {})

(* iter_documents *)
Scan(p) ==
  /\ pc[p] = "scan"
  /\ Goto(p, "scanned")
  /\ job' = [job EXCEPT ![p].scan = DOMAIN files]
  /\ UNCHANGED <<vaultVars, dbVars, historyVars>>

LoadFingerprints(p) ==
  /\ pc[p] = "scanned"
  /\ Goto(p, "fingerprints")
  /\ job' = [job EXCEPT ![p].existing = rows]
  /\ UNCHANGED <<vaultVars, dbVars, historyVars>>

LoadState(p) ==
  /\ pc[p] = "fingerprints"
  /\ Goto(p, "decide")
  /\ job' = [job EXCEPT ![p].base = state]
  /\ UNCHANGED <<vaultVars, dbVars, historyVars>>

(* Mutated form of Decide: documents already indexed count as unchanged.   *)
DecideByPresence(p) ==
  LET j       == job[p]
      changed == (j.scan \ DOMAIN j.existing) \union (j.known \intersect j.scan)
      full    == j.op = "rebuild" \/ ~IsCurrent(j.base, topo, j.op = "update")
      todo    == IF full THEN j.scan ELSE changed
  IN  /\ pc[p] = "decide"
      /\ Goto(p, IF full \/ todo # {} \/ Deleted(j) # {} THEN "reading" ELSE "reconciled")
      /\ job' = [job EXCEPT ![p].topo = topo, ![p].full = full, ![p].todo = todo]
      /\ UNCHANGED <<vaultVars, dbVars, historyVars>>

(* Mutated form of Decide: nothing changed, so deletions are not looked at. *)
DecideIgnoringDeleted(p) ==
  LET j       == job[p]
      changed == ChangedPaths(j.scan, j.existing) \union (j.known \intersect j.scan)
      full    == j.op = "rebuild" \/ ~IsCurrent(j.base, topo, j.op = "update")
      todo    == IF full THEN j.scan ELSE changed
  IN  /\ pc[p] = "decide" /\ j.scan \subseteq DOMAIN files
      /\ Goto(p, IF full \/ todo # {} THEN "reading" ELSE "reconciled")
      /\ job' = [job EXCEPT ![p].topo = topo, ![p].full = full, ![p].todo = todo]
      /\ UNCHANGED <<vaultVars, dbVars, historyVars>>

(* topology_hash, then the stats of _changed_paths, which raise for a file *)
(* that has gone since the scan; what they find decides what is read.      *)
Decide(p) ==
  LET j       == job[p]
      full    == j.op = "rebuild" \/ ~IsCurrent(j.base, topo, j.op = "update")
      todo    == IF full THEN j.scan
                 ELSE ChangedPaths(j.scan, j.existing) \union (j.known \intersect j.scan)
  IN  /\ pc[p] = "decide"
      /\ full \/ j.scan \subseteq DOMAIN files
      /\ Goto(p, IF full \/ todo # {} \/ Deleted(j) # {} THEN "reading" ELSE "reconciled")
      /\ job' = [job EXCEPT ![p].topo = topo, ![p].full = full, ![p].todo = todo]
      /\ UNCHANGED <<vaultVars, dbVars, historyVars>>

StatRaises(p) ==
  /\ pc[p] = "decide"
  /\ job[p].op # "rebuild" /\ IsCurrent(job[p].base, topo, job[p].op = "update")
  /\ ~(job[p].scan \subseteq DOMAIN files)
  /\ Raise(p)
  /\ UNCHANGED <<vaultVars, dbVars, historyVars>>

(* The first path.stat of a changed document                               *)
OpenDoc(p) ==
  /\ pc[p] = "reading" /\ job[p].todo # {}
  /\ LET d == CHOOSE x \in job[p].todo : TRUE
     IN  IF d \in DOMAIN files
         THEN /\ Goto(p, "opened")
              /\ job' = [job EXCEPT ![p].open = [doc |-> d, stamp |-> files[d].stamp,
                                                   text |-> NoFile.text]]
         ELSE Raise(p)
  /\ UNCHANGED <<vaultVars, dbVars, historyVars>>

(* The documents that are as the first stat found them; that they had the  *)
(* same hash when they were indexed.                                       *)
Unmoved(j) == {d \in DOMAIN files : files[d].stamp = j.open.stamp}
Rehashed(j) ==
  {d \in DOMAIN files \intersect DOMAIN j.existing : files[d].text = j.existing[d].text}

(* read_text and the second stat of a document whose content is new        *)
ReadDoc(p) ==
  LET j == job[p]
      d == j.open.doc
  IN  /\ pc[p] = "opened" /\ d \in Unmoved(j)
      /\ j.full \/ d \notin Rehashed(j)
      /\ Goto(p, "parsed")
      /\ job' = [job EXCEPT ![p].open.text = files[d].text]
      /\ UNCHANGED <<vaultVars, dbVars, historyVars>>

(* ... whose content is the one indexed: its row is read again and gets    *)
(* the second stat's stamp.                                                *)
ReadSameHash(p) ==
  LET j == job[p]
      d == j.open.doc
      row == [rows[d] EXCEPT !.stamp = j.open.stamp]
  IN  /\ pc[p] = "opened" /\ d \in Unmoved(j)
      /\ ~j.full /\ d \in Rehashed(j) /\ d \in DOMAIN rows
      /\ Goto(p, "reading")
      /\ job' = [job EXCEPT ![p].built = Overlay([x \in {d} |-> row], j.built),
                            ![p].todo = @ \ {d}, ![p].open = NoFile]
      /\ UNCHANGED <<vaultVars, dbVars, historyVars>>

(* The document changed while it was read, or the row to read again has    *)
(* been deleted (IndexError).                                              *)
ReadRaises(p) ==
  LET j == job[p]
      d == j.open.doc
  IN  /\ pc[p] = "opened"
      /\ d \in Unmoved(j) => ~j.full /\ d \in Rehashed(j) /\ d \notin DOMAIN rows
      /\ Raise(p)
      /\ UNCHANGED <<vaultVars, dbVars, historyVars>>

(* Mutated form of RecordDoc: the document stays on the list.              *)
RecordDocTwice(p) ==
  LET d == job[p].open.doc
      row == [text |-> job[p].open.text, stamp |-> files[d].stamp, domain |-> topo]
  IN  /\ pc[p] = "parsed" /\ d \in DOMAIN files
      /\ Goto(p, "reading")
      /\ job' = [job EXCEPT ![p].built = Overlay([x \in {d} |-> row], @),
                            ![p].reparsed = @ \union {d}, ![p].open = NoFile]
      /\ UNCHANGED <<vaultVars, dbVars, historyVars>>

(* DocumentIndexBuilder.record: the domain context, and a third stat that  *)
(* supplies the row's stamp.                                               *)
RecordDoc(p) ==
  LET j == job[p]
      d == j.open.doc
  IN  /\ pc[p] = "parsed"
      /\ IF d \in DOMAIN files
         THEN /\ Goto(p, "reading")
              /\ job' = [job EXCEPT
                   ![p].built = Overlay([x \in {d} |-> [text |-> j.open.text,
                                                        stamp |-> files[d].stamp,
                                                        domain |-> topo]], j.built),
                   ![p].reparsed = @ \union {d},
                   ![p].todo = @ \ {d}, ![p].open = NoFile]
         ELSE Raise(p)
      /\ UNCHANGED <<vaultVars, dbVars, historyVars>>

(* Mutated form of MayCommit: the generation is not compared.              *)
MayCommitAlways(j) == TRUE

(* replace_snapshot's conditional UPDATE of the generation, which a first  *)
(* commit (generation 1) does without.                                     *)
MayCommit(j) == j.base.gen = 0 \/ state.gen = j.base.gen

(* Mutated form of NextGeneration: a commit keeps the generation it read.  *)
SameGeneration(j) == j.base.gen

NextGeneration(j) == j.base.gen + 1

(* Mutated form of Commit: a reread document's old edges stay.             *)
CommitKeepingOldEdges(p) ==
  LET j == job[p]
  IN  /\ pc[p] = "reading" /\ j.todo = {} /\ MayCommit(j)
      /\ rows' = IF j.full THEN j.built ELSE Overlay(j.built, Without(rows, Deleted(j)))
      /\ edges' = NewEdges(j) \union {e \in edges : e.src \notin Deleted(j)}
      /\ state' = [gen |-> NextGeneration(j), status |-> "ready", topo |-> j.topo]
      /\ Goto(p, "reconciled")
      /\ UNCHANGED <<vaultVars, job, historyVars>>

(* replace_snapshot or apply_delta: rows, edges and state in a transaction *)
Commit(p) ==
  LET j == job[p]
  IN  /\ pc[p] = "reading" /\ j.todo = {} /\ MayCommit(j)
      /\ rows' = IF j.full THEN j.built ELSE Overlay(j.built, Without(rows, Deleted(j)))
      /\ edges' = NewEdges(j) \union IF j.full THEN {} ELSE KeptEdges(j)
      /\ state' = [gen |-> NextGeneration(j), status |-> "ready", topo |-> j.topo]
      /\ Goto(p, "reconciled")
      /\ UNCHANGED <<vaultVars, job, historyVars>>

CommitRefused(p) ==
  /\ pc[p] = "reading" /\ job[p].todo = {} /\ ~MayCommit(job[p])
  /\ Raise(p)
  /\ UNCHANGED <<vaultVars, dbVars, historyVars>>

(* list_documents' query; a rebuild returns without one.                   *)
Query(p) ==
  /\ pc[p] = "reconciled" /\ job[p].op = "list"
  /\ Goto(p, "answered")
  /\ job' = [job EXCEPT ![p] = NoJob]
  /\ answer' = [answer EXCEPT ![p] = [d \in Queryable(rows) |-> rows[d]]]
  /\ UNCHANGED <<vaultVars, dbVars, touched>>

Finish(p) ==
  /\ pc[p] = "reconciled" /\ job[p].op \in {"rebuild", "update"}
  /\ Raise(p)
  /\ UNCHANGED <<vaultVars, dbVars, historyVars>>

----------------------------------------------------------------------------
(* The editor: documents come, change and go, and so do domain markers.    *)
Undisturbed(d) ==
  EditorWaits => \A p \in Procs : ~(pc[p] = "parsed" /\ job[p].open.doc = d)

Touch(S) ==
  /\ clock < MaxEdits
  /\ clock' = clock + 1
  /\ touched' = [p \in Procs |-> touched[p] \union S]
  /\ UNCHANGED <<dbVars, pc, job, answer>>

Save(d, text) ==
  /\ Undisturbed(d)
  /\ files' = Overlay([x \in {d} |-> [text |-> text, stamp |-> clock + 1]], files)
  /\ Touch({d}) /\ UNCHANGED topo

Remove(d) ==
  /\ d \in DOMAIN files
  /\ files' = Without(files, {d})
  /\ Touch({d}) /\ UNCHANGED topo

EditMarkers ==
  /\ topo' = clock + 1
  /\ Touch(Docs) /\ UNCHANGED files

ReconcileStep(p) ==
  \/ Scan(p) \/ LoadFingerprints(p) \/ LoadState(p) \/ Decide(p) \/ StatRaises(p)
  \/ OpenDoc(p) \/ ReadDoc(p) \/ ReadSameHash(p) \/ ReadRaises(p) \/ RecordDoc(p)
  \/ Commit(p) \/ CommitRefused(p)

Step(p) == ReconcileStep(p) \/ Query(p) \/ Finish(p)

Edit == (\E d \in Docs : Remove(d) \/ \E text \in Texts : Save(d, text)) \/ EditMarkers

Next == (\E p \in Procs : List(p) \/ Rebuild(p) \/ Step(p)) \/ Edit

Spec == Init /\ [][Next]_vars

----------------------------------------------------------------------------
RowSet == [text : Texts, stamp : 0..clock, domain : 0..clock]

IsTable(t) == DOMAIN t \subseteq Docs /\ \A d \in DOMAIN t : t[d] \in RowSet

States == {NoState} \union
          [gen : Nat \ {0}, status : {"ready", "dirty"}, topo : 0..clock]

JobOK(p) ==
  LET j == job[p]
  IN  /\ j.scan \subseteq Docs /\ j.todo \subseteq j.scan
      /\ IsTable(j.existing) /\ IsTable(j.built)
      /\ j.base \in States /\ j.topo \in 0..clock
      /\ DOMAIN j.built \subseteq j.scan /\ j.reparsed \subseteq DOMAIN j.built
      /\ DOMAIN j.built \intersect j.todo = {}
      /\ pc[p] \in {"opened", "parsed"} => j.open.doc \in j.todo
      /\ pc[p] = "parsed" => j.open.text \in Texts

(* Types.  What a process has read and what it has still to read are parts *)
(* of what its scan found.                                                 *)
TypeOK ==
  /\ DOMAIN files \subseteq Docs
  /\ \A d \in DOMAIN files : files[d] \in [text : Texts, stamp : 0..clock]
  /\ topo \in 0..clock /\ clock \in Nat
  /\ IsTable(rows) /\ state \in States
  /\ edges \subseteq [src : Docs, dst : Docs, res : {"self", "resolved", "missing"}]
  /\ pc \in [Procs -> {"idle", "scan", "scanned", "fingerprints", "decide", "reading",
                       "opened", "parsed", "reconciled", "answered"}]
  /\ \A p \in Procs : JobOK(p) /\ IsTable(answer[p]) /\ touched[p] \subseteq Docs

(* The stored references are those of the stored documents, each with the  *)
(* verdict the stored documents call for: what the incremental commits     *)
(* leave is what a full rebuild from the same rows would have left.        *)
EdgesMatchRows == edges = AllEdges(rows, DOMAIN rows)

(* Even when processes interleave: a document's row and its outgoing       *)
(* references change together, whatever becomes of the verdicts.           *)
SourcesMatchRows ==
  {<<e.src, e.dst>> : e \in edges} =
    UNION {{d} \X rows[d].text.links : d \in Queryable(rows)}

(* list_documents answers with every document, and every deletion, that    *)
(* was there when it was called and has not changed since, MOCs excepted:  *)
(* the text and the domain it reports are the file's.                      *)
QueryFresh ==
  \A p \in Procs : pc[p] = "answered" =>
    \A d \in Docs \ touched[p] :
      LET listed == d \in DOMAIN answer[p]
      IN  /\ listed <=> d \in DOMAIN files /\ ~files[d].text.moc
          /\ listed => /\ answer[p][d].text = files[d].text
                       /\ answer[p][d].domain = topo

(* The projection never changes without its generation moving on by one:   *)
(* prepare_write takes an unchanged generation for an unchanged projection. *)
GenerationCountsChanges ==
  [][<<rows, edges>>' # <<rows, edges>> => state'.gen = state.gen + 1]_vars

(* When the editor has stopped, the index comes to agree with the Vault    *)
(* and stays so.                                                           *)
Synced ==
  /\ state.status = "ready" /\ state.topo = topo
  /\ rows = IndexedFiles
  /\ EdgesMatchRows
IndexCatchesUp == <>[]Synced

----------------------------------------------------------------------------
(* The inductive invariant behind SourcesMatchRows and GenerationCounts-   *)
(* Changes, for an index that exists already (DocumentProofs).             *)
Loaded   == {"decide", "reading", "opened", "parsed"}
Building == {"reading", "opened", "parsed"}

Fields(r, names) == r = [f \in names |-> r[f]]
IsEdge(e) == Fields(e, {"src", "dst", "res"})
IsRow(r)  == Fields(r, {"text", "stamp", "domain"})
IsOpen(o) == Fields(o, {"doc", "stamp", "text"})
IsJob(j)  == Fields(j, {"op", "known", "scan", "existing", "base", "topo", "full", "todo",
                        "built", "reparsed", "open"})

TablesHoldRecords ==
  /\ \A e \in edges : IsEdge(e)
  /\ \A d \in DOMAIN rows : IsRow(rows[d])

JobShape(j) ==
  IsJob(j) /\ IsOpen(j.open) /\ \A d \in DOMAIN j.built : IsRow(j.built[d])

JobsAreRecords ==
  /\ pc = [p \in Procs |-> pc[p]] /\ job = [p \in Procs |-> job[p]]
  /\ \A p \in Procs : JobShape(job[p])

(* Edges start at rows that have them, and rows have all their edges.      *)
EdgesHaveRows ==
  \A e \in edges : e.src \in Queryable(rows) /\ e.dst \in rows[e.src].text.links
RowsHaveEdges ==
  \A d \in Queryable(rows) : \A t \in rows[d].text.links :
    \E e \in edges : e.src = d /\ e.dst = t

(* What is being built is part of what was scanned.                        *)
BuiltIsScanned(p) ==
  LET j == job[p]
  IN  /\ pc[p] \in {"scan", "scanned", "fingerprints", "decide"} =>
             DOMAIN j.built = {} /\ j.reparsed = {}
      /\ pc[p] \in Building => /\ j.todo \subseteq j.scan
                               /\ DOMAIN j.built \subseteq j.scan
                               /\ j.reparsed \subseteq DOMAIN j.built
      /\ pc[p] \in {"opened", "parsed"} => j.open.doc \in j.scan

(* The generation read is no later than the present one, ...               *)
BaseIsPast(p) ==
  pc[p] \in Loaded => job[p].base.gen \in Nat \ {0} /\ job[p].base.gen <= state.gen

(* ... a full build has reread what it built, and while the generation is  *)
(* the one read, a row taken over says what the stored one says.           *)
TakenOverStands(p) ==
  LET j == job[p]
  IN  pc[p] \in Building =>
        /\ j.full => j.reparsed = DOMAIN j.built
        /\ ~j.full /\ j.base.gen = state.gen =>
             \A d \in DOMAIN j.built \ j.reparsed :
               d \in DOMAIN rows /\ j.built[d].text = rows[d].text

JobSound(p) == BuiltIsScanned(p) /\ BaseIsPast(p) /\ TakenOverStands(p)

IInv ==
  /\ TablesHoldRecords /\ JobsAreRecords
  /\ state.gen \in Nat \ {0}
  /\ EdgesHaveRows /\ RowsHaveEdges
  /\ \A p \in Procs : JobSound(p)
=============================================================================
