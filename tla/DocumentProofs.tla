--------------------------- MODULE DocumentProofs ---------------------------
(***************************************************************************)
(* What the commits of _reconcile guarantee on an index that exists, for   *)
(* any number of processes and documents and an editor who may save at any *)
(* moment: a row and its outgoing edges change together, and no change     *)
(* goes without its own generation; and, index or no index, the types.     *)
(* Then, for one process and an editor who waits while a document is being *)
(* indexed, what list_documents answers and what a relocation leaves.      *)
(***************************************************************************)
EXTENDS DocumentMutation, TLAPS

(* A step of one process that does not write to the database.              *)
Private(p, stage, next) ==
  /\ pc' = [pc EXCEPT ![p] = stage]
  /\ job' = [job EXCEPT ![p] = next]
  /\ JobShape(next)
  /\ UNCHANGED dbVars

LEMMA JobsHaveShape ==
  ASSUME IInv, NEW p \in Procs
  PROVE  JobShape(job[p]) /\ IsJob(job[p]) /\ IsOpen(job[p].open)
  BY DEF IInv, JobsAreRecords, JobShape

LEMMA PrivateStep ==
  ASSUME IInv, NEW p \in Procs, NEW stage, NEW next, Private(p, stage, next)
  PROVE  pc'[p] = stage /\ job'[p] = next
  BY DEF Private, IInv, JobsAreRecords

LEMMA PrivateKeepsIInv ==
  ASSUME IInv, NEW p \in Procs, NEW stage, NEW next, Private(p, stage, next), JobSound(p)'
  PROVE  IInv'
  <1>1. TablesHoldRecords' /\ EdgesHaveRows' /\ RowsHaveEdges' /\ state'.gen \in Nat \ {0}
    BY DEF Private, dbVars, IInv, TablesHoldRecords, EdgesHaveRows, RowsHaveEdges, Queryable, IsRow, IsEdge, Fields
  <1>2. JobsAreRecords'
    BY DEF Private, IInv, JobsAreRecords
  <1>3. ASSUME NEW q \in Procs \ {p} PROVE JobSound(q)'
    <2>1. pc'[q] = pc[q] /\ job'[q] = job[q] /\ rows' = rows /\ state' = state
      BY DEF Private, dbVars, IInv, JobsAreRecords
    <2>2. QED
      BY <2>1 DEF IInv, JobSound, BuiltIsScanned, BaseIsPast, TakenOverStands
  <1>4. QED
    BY <1>1, <1>2, <1>3 DEF IInv

(* Whoever is not building anything has nothing to keep.                   *)
LEMMA EmptyIsSound ==
  ASSUME NEW p \in Procs, pc'[p] \notin Loaded,
         job'[p].built = Nothing, job'[p].reparsed = {}
  PROVE  JobSound(p)'
  BY DEF JobSound, BuiltIsScanned, BaseIsPast, TakenOverStands, Loaded, Building, Nothing

LEMMA FreshJobShape ==
  ASSUME NEW op, NEW known, NEW j, j = [NoJob EXCEPT !.op = op, !.known = known]
  PROVE  JobShape(j) /\ j.built = Nothing /\ j.reparsed = {}
  <1>1. j.built = Nothing /\ j.reparsed = {} /\ j.open = NoFile
    BY DEF NoJob
  <1>2. IsJob(j)
    BY DEF NoJob, IsJob, Fields
  <1>3. IsOpen(NoFile) /\ DOMAIN Nothing = {}
    BY DEF NoFile, IsOpen, Fields, Nothing
  <1>4. QED
    BY <1>1, <1>2, <1>3 DEF JobShape

(* An operation begins.                                                    *)
LEMMA BeginKeepsIInv ==
  ASSUME IInv, NEW p \in Procs, NEW op, NEW known, Begin(p, op, known)
  PROVE  IInv'
  <1> DEFINE next == [NoJob EXCEPT !.op = op, !.known = known]
  <1>1. JobShape(next) /\ next.built = Nothing /\ next.reparsed = {}
    BY FreshJobShape
  <1>2. Private(p, "scan", next)
    BY <1>1 DEF Begin, Goto, Private
  <1> HIDE DEF next
  <1>3. QED
    BY <1>1, <1>2, PrivateStep, EmptyIsSound, PrivateKeepsIInv DEF Loaded

(* An operation ends, by itself or by an exception.                        *)
LEMMA NoJobFacts ==
  JobShape(NoJob) /\ NoJob.built = Nothing /\ NoJob.reparsed = {}
  <1>1. IsJob(NoJob) /\ NoJob.built = Nothing /\ NoJob.reparsed = {} /\ NoJob.open = NoFile
    BY DEF NoJob, IsJob, Fields
  <1>2. QED
    BY <1>1 DEF JobShape, NoFile, IsOpen, Nothing, Fields

LEMMA EndKeepsIInv ==
  ASSUME IInv, NEW p \in Procs, NEW stage \in {"idle", "answered"},
         pc' = [pc EXCEPT ![p] = stage], job' = [job EXCEPT ![p] = NoJob], UNCHANGED dbVars
  PROVE  IInv'
  <1>1. Private(p, stage, NoJob)
    BY NoJobFacts DEF Private
  <1>2. QED
    BY <1>1, NoJobFacts, PrivateStep, EmptyIsSound, PrivateKeepsIInv DEF Loaded

LEMMA RaiseKeepsIInv ==
  ASSUME IInv, NEW p \in Procs, Raise(p), UNCHANGED dbVars
  PROVE  IInv'
  BY EndKeepsIInv DEF Raise, Goto

(* The reads before anything is built: scan, fingerprints, state.          *)
LEMMA EarlyKeepsIInv ==
  ASSUME IInv, NEW p \in Procs, NEW stage, NEW next, Private(p, stage, next),
         pc[p] \in {"scan", "scanned", "fingerprints"},
         stage \in {"scanned", "fingerprints"} \/ (stage = "decide" /\ next.base = state),
         next.built = job[p].built, next.reparsed = job[p].reparsed
  PROVE  IInv'
  <1>1. DOMAIN job[p].built = {} /\ job[p].reparsed = {}
    BY DEF IInv, JobSound, BuiltIsScanned
  <1>2. pc'[p] = stage /\ job'[p] = next /\ state' = state
    BY PrivateStep DEF Private, dbVars
  <1>3. BaseIsPast(p)'
    BY <1>2 DEF BaseIsPast, Loaded, IInv
  <1>4. JobSound(p)'
    BY <1>1, <1>2, <1>3 DEF JobSound, BuiltIsScanned, TakenOverStands, Building
  <1>5. QED
    BY <1>4, PrivateKeepsIInv

LEMMA LoadKeepsIInv ==
  ASSUME IInv, NEW p \in Procs, Scan(p) \/ LoadFingerprints(p) \/ LoadState(p)
  PROVE  IInv'
  <1> DEFINE j == job[p]
  <1>1. CASE Scan(p)
    <2> DEFINE next == [j EXCEPT !.scan = DOMAIN files]
    <2>1. IsJob(next) /\ next.open = j.open /\ next.built = j.built /\ next.reparsed = j.reparsed
      BY JobsHaveShape DEF IsJob, Fields
    <2>2. Private(p, "scanned", next)
      BY <1>1, <2>1, JobsHaveShape DEF Scan, Goto, Private, JobShape
    <2> HIDE DEF next
    <2>3. QED
      BY <1>1, <2>1, <2>2, EarlyKeepsIInv DEF Scan
  <1>2. CASE LoadFingerprints(p)
    <2> DEFINE next == [j EXCEPT !.existing = rows]
    <2>1. IsJob(next) /\ next.open = j.open /\ next.built = j.built /\ next.reparsed = j.reparsed
      BY JobsHaveShape DEF IsJob, Fields
    <2>2. Private(p, "fingerprints", next)
      BY <1>2, <2>1, JobsHaveShape DEF LoadFingerprints, Goto, Private, JobShape
    <2> HIDE DEF next
    <2>3. QED
      BY <1>2, <2>1, <2>2, EarlyKeepsIInv DEF LoadFingerprints
  <1>3. CASE LoadState(p)
    <2> DEFINE next == [j EXCEPT !.base = state]
    <2>1. /\ IsJob(next) /\ next.open = j.open /\ next.built = j.built
          /\ next.reparsed = j.reparsed /\ next.base = state
      BY JobsHaveShape DEF IsJob, Fields
    <2>2. Private(p, "decide", next)
      BY <1>3, <2>1, JobsHaveShape DEF LoadState, Goto, Private, JobShape
    <2> HIDE DEF next
    <2>3. QED
      BY <1>3, <2>1, <2>2, EarlyKeepsIInv DEF LoadState
  <1>4. QED
    BY <1>1, <1>2, <1>3

(* What is to be read is chosen from what was scanned.                     *)
LEMMA DecideKeepsIInv ==
  ASSUME IInv, NEW p \in Procs, Decide(p)
  PROVE  IInv'
  <1> DEFINE j == job[p]
             full == j.op = "rebuild" \/ ~IsCurrent(j.base, topo, j.op = "update")
             todo == IF full THEN j.scan
                     ELSE ChangedPaths(j.scan, j.existing) \union (j.known \intersect j.scan)
             next == [j EXCEPT !.topo = topo, !.full = full, !.todo = todo]
             stage == IF full \/ todo # {} \/ Deleted(j) # {} THEN "reading" ELSE "reconciled"
  <1>1. /\ pc[p] = "decide" /\ UNCHANGED dbVars
        /\ pc' = [pc EXCEPT ![p] = stage]
        /\ job' = [job EXCEPT ![p] = next]
    BY DEF Decide, Goto
  <1>2. todo \subseteq j.scan
    BY DEF ChangedPaths
  <1>3. stage \in {"reading", "reconciled"}
    OBVIOUS
  <1> HIDE DEF full, todo, stage
  <1>4. /\ IsJob(next) /\ next.open = j.open /\ next.built = j.built
        /\ next.reparsed = j.reparsed /\ next.base = j.base /\ next.scan = j.scan
        /\ next.todo = todo
    BY JobsHaveShape DEF IsJob, Fields
  <1>5. Private(p, stage, next)
    BY <1>1, <1>4, JobsHaveShape DEF Private, JobShape
  <1> HIDE DEF next
  <1>6. DOMAIN j.built = {} /\ j.reparsed = {}
    BY <1>1 DEF IInv, JobSound, BuiltIsScanned
  <1>7. pc'[p] = stage /\ job'[p] = next
    BY <1>5, PrivateStep
  <1>8. BaseIsPast(p)'
    BY <1>1, <1>4, <1>7 DEF BaseIsPast, Loaded, IInv, JobSound, dbVars
  <1>9. JobSound(p)'
    BY <1>2, <1>3, <1>4, <1>6, <1>7, <1>8
    DEF JobSound, BuiltIsScanned, TakenOverStands, Building
  <1>10. QED
    BY <1>5, <1>9, PrivateKeepsIInv

(* A document is opened, and read: nothing is built yet.                   *)
LEMMA BuildingStep ==
  ASSUME IInv, NEW p \in Procs, pc[p] \in Building,
         NEW stage \in Building, NEW next, Private(p, stage, next),
         next.open.doc \in job[p].scan, next.todo \subseteq job[p].scan,
         next.base = job[p].base, next.scan = job[p].scan, next.full = job[p].full,
         next.built = job[p].built, next.reparsed = job[p].reparsed
  PROVE  IInv'
  <1>1. pc'[p] = stage /\ job'[p] = next /\ rows' = rows /\ state' = state
    BY PrivateStep DEF Private, dbVars
  <1>2. JobSound(p)'
    BY <1>1 DEF IInv, JobSound, BuiltIsScanned, BaseIsPast, TakenOverStands, Loaded, Building
  <1>3. QED
    BY <1>2, PrivateKeepsIInv

LEMMA OpenKeepsIInv ==
  ASSUME IInv, NEW p \in Procs, OpenDoc(p)
  PROVE  IInv'
  <1> DEFINE j == job[p]
             d == CHOOSE x \in job[p].todo : TRUE
             open == [doc |-> d, stamp |-> files[d].stamp, text |-> NoFile.text]
             next == [j EXCEPT !.open = open]
  <1>1. pc[p] = "reading" /\ UNCHANGED dbVars /\ d \in j.scan /\ j.todo \subseteq j.scan
    BY DEF OpenDoc, IInv, JobSound, BuiltIsScanned, Building
  <1>2. CASE d \in DOMAIN files
    <2>1. /\ pc' = [pc EXCEPT ![p] = "opened"]
          /\ job' = [job EXCEPT ![p] = next]
      BY <1>2 DEF OpenDoc, Goto
    <2>2. IsOpen(open) /\ open.doc = d
      BY DEF IsOpen, Fields
    <2> HIDE DEF d, open
    <2>3. /\ IsJob(next) /\ next.open = open /\ next.built = j.built
          /\ next.reparsed = j.reparsed /\ next.base = j.base /\ next.scan = j.scan
          /\ next.todo = j.todo /\ next.full = j.full
      BY JobsHaveShape DEF IsJob, Fields
    <2>4. Private(p, "opened", next)
      BY <1>1, <2>1, <2>2, <2>3, JobsHaveShape DEF Private, JobShape
    <2> HIDE DEF next
    <2>5. QED
      BY <1>1, <2>2, <2>3, <2>4, BuildingStep DEF Building
  <1>3. CASE d \notin DOMAIN files
    BY <1>1, <1>3, RaiseKeepsIInv DEF OpenDoc
  <1>4. QED
    BY <1>2, <1>3

LEMMA ReadKeepsIInv ==
  ASSUME IInv, NEW p \in Procs, ReadDoc(p)
  PROVE  IInv'
  <1> DEFINE j == job[p]
             text == files[j.open.doc].text
             open == [j.open EXCEPT !.text = text]
             next == [j EXCEPT !.open = open]
  <1>1. /\ pc[p] = "opened" /\ UNCHANGED dbVars /\ j.open.doc \in j.scan
        /\ j.todo \subseteq j.scan
    BY DEF ReadDoc, IInv, JobSound, BuiltIsScanned, Building
  <1>2. /\ pc' = [pc EXCEPT ![p] = "parsed"]
        /\ job' = [job EXCEPT ![p] = next]
    BY DEF ReadDoc, Goto
  <1> HIDE DEF text
  <1>3. IsOpen(open) /\ open.doc = j.open.doc
    BY JobsHaveShape DEF IsOpen, Fields
  <1> HIDE DEF open
  <1>4. /\ IsJob(next) /\ next.open = open /\ next.built = j.built
        /\ next.reparsed = j.reparsed /\ next.base = j.base /\ next.scan = j.scan
        /\ next.todo = j.todo /\ next.full = j.full
    BY JobsHaveShape DEF IsJob, Fields
  <1>5. Private(p, "parsed", next)
    BY <1>1, <1>2, <1>3, <1>4, JobsHaveShape DEF Private, JobShape
  <1> HIDE DEF next
  <1>6. QED
    BY <1>1, <1>3, <1>4, <1>5, BuildingStep DEF Building

----------------------------------------------------------------------------
(* A document is read: its row is built.                                   *)
With(d, row, table) == Overlay([x \in {d} |-> row], table)

LEMMA BuiltStep ==
  ASSUME IInv, NEW p \in Procs, pc[p] \in {"opened", "parsed"}, NEW next, NEW d, NEW row,
         Private(p, "reading", next), d \in job[p].scan,
         next.todo \subseteq job[p].scan,
         next.base = job[p].base, next.scan = job[p].scan, next.full = job[p].full,
         next.built = With(d, row, job[p].built),
         \/ next.reparsed = job[p].reparsed \union {d}
         \/ /\ next.reparsed = job[p].reparsed /\ ~job[p].full
            /\ d \in DOMAIN rows /\ row.text = rows[d].text
  PROVE  IInv'
  <1>1. pc'[p] = "reading" /\ job'[p] = next /\ rows' = rows /\ state' = state
    BY PrivateStep DEF Private, dbVars
  <1>2. /\ DOMAIN next.built = DOMAIN job[p].built \union {d}
        /\ next.built[d] = row
        /\ \A x \in DOMAIN job[p].built \ {d} : next.built[x] = job[p].built[x]
    BY DEF With, Overlay
  <1>3. BuiltIsScanned(p)' /\ BaseIsPast(p)'
    BY <1>1, <1>2 DEF IInv, JobSound, BuiltIsScanned, BaseIsPast, Loaded, Building
  <1>4. TakenOverStands(p)'
    <2>1. TakenOverStands(p)
      BY DEF IInv, JobSound
    <2>2. CASE next.reparsed = job[p].reparsed \union {d}
      BY <1>1, <1>2, <2>1, <2>2 DEF TakenOverStands, Building
    <2>3. CASE /\ next.reparsed = job[p].reparsed /\ ~job[p].full
               /\ d \in DOMAIN rows /\ row.text = rows[d].text
      BY <1>1, <1>2, <2>1, <2>3 DEF TakenOverStands, Building
    <2>4. QED
      BY <2>2, <2>3
  <1>5. QED
    BY <1>3, <1>4, PrivateKeepsIInv DEF JobSound

LEMMA BuiltShape ==
  ASSUME NEW j, JobShape(j), NEW d, NEW row, IsRow(row), NEW next, IsJob(next),
         next.built = With(d, row, j.built), next.open = NoFile
  PROVE  JobShape(next)
  <1>1. \A x \in DOMAIN next.built : IsRow(next.built[x])
    <2>1. /\ DOMAIN next.built = DOMAIN j.built \union {d}
          /\ next.built[d] = row
          /\ \A x \in DOMAIN j.built \ {d} : next.built[x] = j.built[x]
      BY DEF With, Overlay
    <2>2. QED
      BY <2>1 DEF JobShape
  <1>2. IsOpen(NoFile)
    BY DEF IsOpen, NoFile, Fields
  <1>3. QED
    BY <1>1, <1>2 DEF JobShape

(* The content is the one indexed: the stored row, with a new stamp.       *)
LEMMA SameHashKeepsIInv ==
  ASSUME IInv, NEW p \in Procs, ReadSameHash(p)
  PROVE  IInv'
  <1> DEFINE j == job[p]
             d == j.open.doc
             row == [rows[d] EXCEPT !.stamp = j.open.stamp]
             built == With(d, row, j.built)
             next == [j EXCEPT !.built = built, !.todo = j.todo \ {d}, !.open = NoFile]
  <1>1. /\ pc[p] = "opened" /\ UNCHANGED dbVars /\ d \in DOMAIN rows /\ ~j.full
        /\ d \in j.scan /\ j.todo \subseteq j.scan
    BY DEF ReadSameHash, IInv, JobSound, BuiltIsScanned, Building
  <1>2. pc' = [pc EXCEPT ![p] = "reading"] /\ job' = [job EXCEPT ![p] = next]
    BY DEF ReadSameHash, Goto, With
  <1>3. IsRow(row) /\ row.text = rows[d].text
    BY <1>1 DEF IInv, TablesHoldRecords, IsRow, Fields
  <1> HIDE DEF row, d, built
  <1>4. /\ IsJob(next) /\ next.open = NoFile /\ next.built = built
        /\ next.reparsed = j.reparsed /\ next.base = j.base /\ next.scan = j.scan
        /\ next.todo = j.todo \ {d} /\ next.full = j.full
    BY JobsHaveShape DEF IsJob, Fields
  <1> HIDE DEF next
  <1>5. Private(p, "reading", next)
    BY <1>1, <1>2, <1>3, <1>4, JobsHaveShape, BuiltShape DEF Private, built
  <1>6. QED
    BY <1>1, <1>3, <1>4, <1>5, BuiltStep DEF built

(* The content is new: the row and, at the commit, its edges are too.      *)
LEMMA RecordKeepsIInv ==
  ASSUME IInv, NEW p \in Procs, RecordDoc(p)
  PROVE  IInv'
  <1> DEFINE j == job[p]
             d == j.open.doc
             row == [text |-> j.open.text, stamp |-> files[d].stamp, domain |-> topo]
             built == With(d, row, j.built)
             next == [j EXCEPT !.built = built, !.reparsed = j.reparsed \union {d},
                               !.todo = j.todo \ {d}, !.open = NoFile]
  <1>1. /\ pc[p] = "parsed" /\ UNCHANGED dbVars
        /\ d \in j.scan /\ j.todo \subseteq j.scan
    BY DEF RecordDoc, IInv, JobSound, BuiltIsScanned, Building
  <1>2. CASE d \in DOMAIN files
    <2>1. pc' = [pc EXCEPT ![p] = "reading"] /\ job' = [job EXCEPT ![p] = next]
      BY <1>2 DEF RecordDoc, Goto, With
    <2>2. IsRow(row)
      BY DEF IsRow, Fields
    <2> HIDE DEF row, d, built
    <2>3. /\ IsJob(next) /\ next.open = NoFile /\ next.built = built
          /\ next.reparsed = j.reparsed \union {d} /\ next.base = j.base /\ next.scan = j.scan
          /\ next.todo = j.todo \ {d} /\ next.full = j.full
      BY JobsHaveShape DEF IsJob, Fields
    <2> HIDE DEF next
    <2>4. Private(p, "reading", next)
      BY <1>1, <2>1, <2>2, <2>3, JobsHaveShape, BuiltShape DEF Private, built
    <2>5. QED
      BY <1>1, <2>3, <2>4, BuiltStep DEF built
  <1>3. CASE d \notin DOMAIN files
    BY <1>1, <1>3, RaiseKeepsIInv DEF RecordDoc
  <1>4. QED
    BY <1>2, <1>3

----------------------------------------------------------------------------
(* Edges: those of a source are its links, unless it is a MOC.             *)
LinksOf(text) == IF text.moc THEN {} ELSE text.links

LEMMA EdgesOfFacts ==
  ASSUME NEW d, NEW text, NEW candidates
  PROVE  /\ \A e \in EdgesOf(d, text, candidates) :
              IsEdge(e) /\ e.src = d /\ e.dst \in LinksOf(text)
         /\ \A t \in LinksOf(text) :
              \E e \in EdgesOf(d, text, candidates) : e.src = d /\ e.dst = t
  <1> DEFINE edge(t) == [src |-> d, dst |-> t,
                         res |-> IF t = d THEN "self"
                                 ELSE IF t \in candidates THEN "resolved" ELSE "missing"]
  <1>1. EdgesOf(d, text, candidates) = {edge(t) : t \in LinksOf(text)}
    BY DEF EdgesOf, LinksOf
  <1>2. \A t : IsEdge(edge(t)) /\ edge(t).src = d /\ edge(t).dst = t
    BY DEF IsEdge, Fields
  <1> HIDE DEF edge
  <1>3. QED
    BY <1>1, <1>2

(* The edges of what has been reread.                                      *)
LEMMA NewEdgesFacts ==
  ASSUME NEW j, NEW e \in NewEdges(j)
  PROVE  IsEdge(e) /\ e.src \in j.reparsed /\ e.dst \in LinksOf(j.built[e.src].text)
  <1> DEFINE of(d) == EdgesOf(d, j.built[d].text, Queryable(Records(j)))
  <1>1. NewEdges(j) = UNION {of(d) : d \in j.reparsed}
    BY DEF NewEdges
  <1>2. \A d \in j.reparsed :
          \A x \in of(d) : IsEdge(x) /\ x.src = d /\ x.dst \in LinksOf(j.built[d].text)
    BY EdgesOfFacts
  <1> HIDE DEF of
  <1>3. QED
    BY <1>1, <1>2

LEMMA RereadHasEdges ==
  ASSUME NEW j, NEW d \in j.reparsed, NEW t \in LinksOf(j.built[d].text)
  PROVE  \E e \in NewEdges(j) : e.src = d /\ e.dst = t
  <1> DEFINE of(x) == EdgesOf(x, j.built[x].text, Queryable(Records(j)))
  <1>1. NewEdges(j) = UNION {of(x) : x \in j.reparsed}
    BY DEF NewEdges
  <1>2. \E e \in of(d) : e.src = d /\ e.dst = t
    BY EdgesOfFacts
  <1> HIDE DEF of
  <1>3. QED
    BY <1>1, <1>2

(* What a delta keeps has its source and target as before.                 *)
LEMMA KeptEdgesFacts ==
  ASSUME NEW j, \A e \in edges : IsEdge(e)
  PROVE  /\ \A e \in KeptEdges(j) :
              /\ IsEdge(e) /\ e.src \notin j.reparsed \union Deleted(j)
              /\ \E x \in edges : x.src = e.src /\ x.dst = e.dst
         /\ \A x \in edges : x.src \notin j.reparsed \union Deleted(j) =>
              \E e \in KeptEdges(j) : e.src = x.src /\ e.dst = x.dst
  <1> DEFINE affected == DOMAIN j.built \union Deleted(j)
             verdict(t) == IF t \in Queryable(Records(j)) THEN "resolved" ELSE "missing"
             kept(e) == IF e.dst \in affected /\ e.res # "self"
                          THEN [e EXCEPT !.res = verdict(e.dst)] ELSE e
             stay == {x \in edges : x.src \notin j.reparsed \union Deleted(j)}
  <1>1. KeptEdges(j) = {kept(e) : e \in stay}
    BY DEF KeptEdges
  <1>2. \A e \in stay : IsEdge(kept(e)) /\ kept(e).src = e.src /\ kept(e).dst = e.dst
    <2> HIDE DEF verdict, affected
    <2>1. QED
      BY DEF IsEdge, Fields
  <1> HIDE DEF kept
  <1>3. QED
    BY <1>1, <1>2

(* A commit made under the generation it was read under: the rows' texts   *)
(* and the edges after it belong together.                                 *)
LEMMA CommitMovesOn ==
  ASSUME IInv, NEW p \in Procs, Commit(p)
  PROVE  /\ job[p].base.gen = state.gen /\ state'.gen = state.gen + 1
         /\ pc' = [pc EXCEPT ![p] = "reconciled"] /\ job' = job
  <1>1. job[p].base.gen \in Nat \ {0}
    BY DEF Commit, IInv, JobSound, BaseIsPast, Loaded
  <1>2. QED
    BY <1>1 DEF Commit, MayCommit, NextGeneration, Goto

LEMMA CommittedRows ==
  ASSUME IInv, NEW p \in Procs, Commit(p)
  PROVE  /\ \A d \in DOMAIN rows' : IsRow(rows'[d])
         /\ \A d \in job[p].reparsed : d \in DOMAIN rows' /\ rows'[d] = job[p].built[d]
         /\ job[p].full => DOMAIN rows' = job[p].reparsed
         /\ ~job[p].full =>
              \A d : d \notin job[p].reparsed =>
                /\ d \in DOMAIN rows' <=> d \in DOMAIN rows \ Deleted(job[p])
                /\ d \in DOMAIN rows' => rows'[d].text = rows[d].text
         /\ job[p].reparsed \intersect Deleted(job[p]) = {}
  <1> DEFINE j == job[p]
  <1>1. /\ DOMAIN j.built \subseteq j.scan /\ j.reparsed \subseteq DOMAIN j.built
        /\ DOMAIN j.built \intersect Deleted(j) = {}
    BY DEF Commit, IInv, JobSound, BuiltIsScanned, Building, Deleted
  <1>2. /\ j.full => j.reparsed = DOMAIN j.built
        /\ ~j.full => \A d \in DOMAIN j.built \ j.reparsed :
                        d \in DOMAIN rows /\ j.built[d].text = rows[d].text
    BY CommitMovesOn DEF Commit, IInv, JobSound, TakenOverStands, Building
  <1>3. \A d \in DOMAIN j.built : IsRow(j.built[d])
    BY JobsHaveShape DEF JobShape
  <1>4. CASE j.full
    <2>1. rows' = j.built
      BY <1>4 DEF Commit
    <2>2. QED
      BY <1>1, <1>2, <1>3, <1>4, <2>1
  <1>5. CASE ~j.full
    <2>1. /\ DOMAIN rows' = DOMAIN j.built \union (DOMAIN rows \ Deleted(j))
          /\ \A d \in DOMAIN j.built : rows'[d] = j.built[d]
          /\ \A d \in (DOMAIN rows \ Deleted(j)) \ DOMAIN j.built : rows'[d] = rows[d]
      BY <1>5 DEF Commit, Overlay, Without
    <2>2. \A d \in DOMAIN rows : IsRow(rows[d])
      BY DEF IInv, TablesHoldRecords
    <2> HIDE DEF j
    <2>3. /\ \A d \in DOMAIN rows' : IsRow(rows'[d])
          /\ \A d \in j.reparsed : d \in DOMAIN rows' /\ rows'[d] = j.built[d]
          /\ j.reparsed \intersect Deleted(j) = {}
      BY <1>1, <1>3, <2>1, <2>2
    <2>4. \A d : d \notin j.reparsed =>
            /\ d \in DOMAIN rows' <=> d \in DOMAIN rows \ Deleted(j)
            /\ d \in DOMAIN rows' => rows'[d].text = rows[d].text
      BY <1>1, <1>2, <1>5, <2>1
    <2>5. QED
      BY <1>5, <2>3, <2>4 DEF j
  <1>6. QED
    BY <1>4, <1>5

(* ... and so do the edges.                                                *)
LEMMA CommittedEdges ==
  ASSUME IInv, NEW p \in Procs, Commit(p)
  PROVE  /\ \A e \in edges' :
              /\ IsEdge(e)
              /\ e.src \in DOMAIN rows' /\ e.dst \in LinksOf(rows'[e.src].text)
         /\ \A d \in DOMAIN rows' : \A t \in LinksOf(rows'[d].text) :
              \E e \in edges' : e.src = d /\ e.dst = t
  <1> DEFINE j == job[p]
  <1>1. /\ \A e \in edges : /\ IsEdge(e)
                            /\ e.src \in DOMAIN rows /\ e.dst \in LinksOf(rows[e.src].text)
        /\ \A d \in DOMAIN rows : \A t \in LinksOf(rows[d].text) :
             \E e \in edges : e.src = d /\ e.dst = t
    BY DEF IInv, TablesHoldRecords, EdgesHaveRows, RowsHaveEdges, Queryable, LinksOf
  <1>2. CASE j.full
    <2>1. edges' = NewEdges(j)
      BY <1>2 DEF Commit
    <2>2. /\ DOMAIN rows' = j.reparsed
          /\ \A d \in j.reparsed : rows'[d] = j.built[d]
      BY <1>2, CommittedRows
    <2>3. \A e \in NewEdges(j) :
            IsEdge(e) /\ e.src \in DOMAIN rows' /\ e.dst \in LinksOf(rows'[e.src].text)
      BY <2>2, NewEdgesFacts
    <2>4. ASSUME NEW d \in j.reparsed, NEW t \in LinksOf(j.built[d].text)
          PROVE  \E e \in NewEdges(j) : e.src = d /\ e.dst = t
      BY RereadHasEdges
    <2>5. QED
      BY <2>1, <2>2, <2>3, <2>4
  <1>3. CASE ~j.full
    <2>1. edges' = NewEdges(j) \union KeptEdges(j)
      BY <1>3 DEF Commit
    <2>2. \A e \in NewEdges(j) :
            IsEdge(e) /\ e.src \in DOMAIN rows' /\ e.dst \in LinksOf(rows'[e.src].text)
      BY NewEdgesFacts, CommittedRows
    <2>3. \A e \in KeptEdges(j) :
            IsEdge(e) /\ e.src \in DOMAIN rows' /\ e.dst \in LinksOf(rows'[e.src].text)
      BY <1>1, <1>3, KeptEdgesFacts, CommittedRows
    <2>4. ASSUME NEW d \in DOMAIN rows', NEW t \in LinksOf(rows'[d].text)
          PROVE  \E e \in edges' : e.src = d /\ e.dst = t
      <3>1. CASE d \in j.reparsed
        <4>1. rows'[d] = j.built[d]
          BY <3>1, CommittedRows
        <4>2. \E e \in NewEdges(j) : e.src = d /\ e.dst = t
          BY <3>1, <4>1, RereadHasEdges
        <4>3. QED
          BY <2>1, <4>2
      <3>2. CASE d \notin j.reparsed
        <4>1. d \in DOMAIN rows \ Deleted(j) /\ t \in LinksOf(rows[d].text)
          BY <1>3, <3>2, CommittedRows
        <4>2. PICK x \in edges : x.src = d /\ x.dst = t
          BY <1>1, <4>1
        <4>3. \E e \in KeptEdges(j) : e.src = x.src /\ e.dst = x.dst
          BY <1>1, <3>2, <4>1, <4>2, KeptEdgesFacts
        <4>4. QED
          BY <2>1, <4>2, <4>3
      <3>3. QED
        BY <3>1, <3>2
    <2>5. QED
      BY <2>1, <2>2, <2>3, <2>4
  <1>4. QED
    BY <1>2, <1>3

LEMMA CommitKeepsIInv ==
  ASSUME IInv, NEW p \in Procs, Commit(p)
  PROVE  IInv'
  <1>1. TablesHoldRecords'
    BY CommittedRows, CommittedEdges DEF TablesHoldRecords, IsEdge, IsRow, Fields
  <1>2. EdgesHaveRows' /\ RowsHaveEdges'
    BY CommittedEdges DEF EdgesHaveRows, RowsHaveEdges, Queryable, LinksOf
  <1>3. JobsAreRecords' /\ state'.gen \in Nat \ {0}
    BY CommitMovesOn DEF IInv, JobsAreRecords
  <1>4. pc'[p] = "reconciled" /\ \A q \in Procs \ {p} : pc'[q] = pc[q]
    BY CommitMovesOn DEF IInv, JobsAreRecords
  <1>5. ASSUME NEW q \in Procs PROVE JobSound(q)'
    BY <1>4, CommitMovesOn
    DEF IInv, JobSound, BuiltIsScanned, BaseIsPast, TakenOverStands, Loaded, Building
  <1>6. QED
    BY <1>1, <1>2, <1>3, <1>5 DEF IInv

----------------------------------------------------------------------------
LEMMA InitIInv == StartIndexed /\ Init => IInv
  <1> SUFFICES ASSUME StartIndexed, Init PROVE IInv
    OBVIOUS
  <1> DEFINE of(d) == EdgesOf(d, rows[d].text, Queryable(rows))
  <1>1. /\ rows = IndexedFiles /\ edges = UNION {of(d) : d \in DOMAIN rows}
        /\ state.gen \in Nat \ {0}
    BY DEF Init, AllEdges
  <1>2. \A d :
          /\ \A e \in of(d) : IsEdge(e) /\ e.src = d /\ e.dst \in LinksOf(rows[d].text)
          /\ \A t \in LinksOf(rows[d].text) : \E e \in of(d) : e.src = d /\ e.dst = t
    BY EdgesOfFacts
  <1> HIDE DEF of
  <1>3. EdgesHaveRows /\ RowsHaveEdges
    BY <1>1, <1>2 DEF EdgesHaveRows, RowsHaveEdges, Queryable, LinksOf
  <1>4. TablesHoldRecords
    <2>1. \A d \in DOMAIN rows : IsRow(rows[d])
      BY <1>1 DEF IndexedFiles, IsRow, Fields
    <2>2. \A e \in edges : IsEdge(e)
      BY <1>1, <1>2
    <2>3. QED
      BY <2>1, <2>2 DEF TablesHoldRecords
  <1>5. JobShape(NoJob) /\ NoJob.built = Nothing /\ NoJob.reparsed = {}
    BY NoJobFacts
  <1>6. JobsAreRecords
    BY <1>5 DEF Init, JobsAreRecords
  <1>7. ASSUME NEW p \in Procs PROVE JobSound(p)
    BY <1>5 DEF Init, JobSound, BuiltIsScanned, BaseIsPast, TakenOverStands, Loaded, Building,
                Nothing
  <1>8. QED
    BY <1>1, <1>3, <1>4, <1>6, <1>7 DEF IInv

(* The remaining steps: an exception, an answer, an edit.                  *)
LEMMA LastStepKeepsIInv ==
  ASSUME IInv, NEW p \in Procs,
         StatRaises(p) \/ ReadRaises(p) \/ CommitRefused(p) \/ Finish(p) \/ Query(p)
  PROVE  IInv'
  <1>1. CASE Query(p)
    BY <1>1, EndKeepsIInv DEF Query, Goto
  <1>2. CASE StatRaises(p) \/ ReadRaises(p) \/ CommitRefused(p) \/ Finish(p)
    BY <1>2, RaiseKeepsIInv DEF StatRaises, ReadRaises, CommitRefused, Finish
  <1>3. QED
    BY <1>1, <1>2

LEMMA StutterKeepsIInv ==
  ASSUME IInv, UNCHANGED <<dbVars, pc, job>>
  PROVE  IInv'
  <1>1. \A p \in Procs : JobSound(p)'
    BY DEF dbVars, IInv, JobSound, BuiltIsScanned, BaseIsPast, TakenOverStands
  <1>2. TablesHoldRecords' /\ EdgesHaveRows' /\ RowsHaveEdges' /\ JobsAreRecords'
    BY DEF dbVars, IInv, TablesHoldRecords, EdgesHaveRows, RowsHaveEdges, Queryable,
           JobsAreRecords, IsEdge, IsRow, Fields
  <1>3. QED
    BY <1>1, <1>2 DEF IInv, dbVars

LEMMA StepIInv == IInv /\ [Next]_vars => IInv'
  <1> SUFFICES ASSUME IInv, [Next]_vars PROVE IInv'
    OBVIOUS
  <1>1. ASSUME NEW p \in Procs, List(p) \/ Rebuild(p) PROVE IInv'
    BY <1>1, BeginKeepsIInv DEF List, Rebuild
  <1>2. ASSUME NEW p \in Procs, Step(p) PROVE IInv'
    BY <1>2, LoadKeepsIInv, DecideKeepsIInv, OpenKeepsIInv, ReadKeepsIInv, SameHashKeepsIInv,
       RecordKeepsIInv, CommitKeepsIInv, LastStepKeepsIInv
    DEF Step, ReconcileStep
  <1>3. ASSUME Edit PROVE IInv'
    BY <1>3, StutterKeepsIInv DEF Edit, Remove, Save, EditMarkers, Touch
  <1>4. CASE UNCHANGED vars
    BY <1>4, StutterKeepsIInv DEF vars
  <1>5. QED
    BY <1>1, <1>2, <1>3, <1>4 DEF Next

LEMMA InvariantIInv == StartIndexed => (Spec => []IInv)
  <1>1. StartIndexed /\ Init => IInv
    BY InitIInv
  <1>2. QED
    BY <1>1, StepIInv, PTL DEF Spec

----------------------------------------------------------------------------
(* Types.  An index that does not exist yet is allowed here.               *)
Stages == {"idle", "scan", "scanned", "fingerprints", "decide", "reading",
           "opened", "parsed", "reconciled", "answered"}
Early  == {"scan", "scanned", "fingerprints", "decide"}

JobFine(j, stage) ==
  /\ IsJob(j) /\ IsOpen(j.open)
  /\ j.scan \subseteq Docs /\ j.todo \subseteq j.scan
  /\ IsTable(j.existing) /\ IsTable(j.built)
  /\ j.base \in States /\ j.topo \in 0..clock
  /\ DOMAIN j.built \subseteq j.scan /\ j.reparsed \subseteq DOMAIN j.built
  /\ DOMAIN j.built \intersect j.todo = {}
  /\ stage \in {"opened", "parsed"} => j.open.doc \in j.todo /\ j.open.stamp \in 0..clock
  /\ stage = "parsed" => j.open.text \in Texts
  /\ stage \in Early => DOMAIN j.built = {} /\ j.todo = {}

VaultFine ==
  /\ DOMAIN files \subseteq Docs
  /\ \A d \in DOMAIN files : files[d] \in [text : Texts, stamp : 0..clock]
  /\ topo \in 0..clock /\ clock \in Nat
BaseFine ==
  /\ IsTable(rows) /\ state \in States
  /\ edges \subseteq [src : Docs, dst : Docs, res : {"self", "resolved", "missing"}]
Functions ==
  /\ pc \in [Procs -> Stages] /\ job = [p \in Procs |-> job[p]]
  /\ answer = [p \in Procs |-> answer[p]] /\ touched \in [Procs -> SUBSET Docs]
Typed ==
  /\ VaultFine /\ BaseFine /\ Functions
  /\ \A p \in Procs : JobFine(job[p], pc[p]) /\ IsTable(answer[p])

LEMMA TypedIsTypeOK == Typed => TypeOK
  BY DEF Typed, VaultFine, BaseFine, Functions, Stages, JobFine, TypeOK, JobOK

LEMMA NothingIsTable == IsTable(Nothing)
  BY DEF Nothing, IsTable

LEMMA OverlayIsTable ==
  ASSUME NEW f, NEW g, IsTable(f), IsTable(g)
  PROVE  IsTable(Overlay(f, g)) /\ DOMAIN Overlay(f, g) = DOMAIN f \union DOMAIN g
  BY DEF IsTable, Overlay

LEMMA WithoutIsTable ==
  ASSUME NEW f, NEW S, IsTable(f)
  PROVE  IsTable(Without(f, S))
  BY DEF IsTable, Without

LEMMA WithIsTable ==
  ASSUME NEW d \in Docs, NEW row \in RowSet, NEW f, IsTable(f)
  PROVE  IsTable(With(d, row, f)) /\ DOMAIN With(d, row, f) = DOMAIN f \union {d}
  <1>1. IsTable([x \in {d} |-> row])
    BY DEF IsTable
  <1>2. QED
    BY <1>1, OverlayIsTable DEF With

LEMMA ZeroIsPast == clock \in Nat => NoState \in States /\ 0 \in 0..clock
  <1>1. NoState \in States
    BY Zenon DEF States
  <1>2. QED
    BY <1>1

LEMMA BlankJobFine ==
  ASSUME clock \in Nat, NEW j, IsJob(j), j.open = NoFile, j.scan = {}, j.todo = {}, j.existing = Nothing,
         j.built = Nothing, j.base = NoState, j.topo = 0, j.reparsed = {},
         NEW stage, stage \notin {"opened", "parsed"}
  PROVE  JobFine(j, stage)
  <1>1. NoState \in States /\ 0 \in 0..clock
    BY ZeroIsPast
  <1>2. DOMAIN Nothing = {} /\ IsOpen(NoFile)
    BY DEF Nothing, NoFile, IsOpen, Fields
  <1>3. QED
    BY <1>1, <1>2, NothingIsTable DEF JobFine

LEMMA NoJobFine == clock \in Nat => JobFine(NoJob, "idle") /\ JobFine(NoJob, "answered")
  <1>1. /\ IsJob(NoJob) /\ NoJob.open = NoFile /\ NoJob.scan = {} /\ NoJob.todo = {} /\ NoJob.existing = Nothing
        /\ NoJob.built = Nothing /\ NoJob.base = NoState /\ NoJob.topo = 0 /\ NoJob.reparsed = {}
    BY DEF NoJob, IsJob, Fields
  <1>2. QED
    BY <1>1, BlankJobFine

LEMMA FreshJobFine ==
  ASSUME clock \in Nat, NEW op, NEW known
  PROVE  JobFine([NoJob EXCEPT !.op = op, !.known = known], "scan")
  <1> DEFINE j == [NoJob EXCEPT !.op = op, !.known = known]
  <1>1. /\ IsJob(j) /\ j.open = NoFile /\ j.scan = {} /\ j.todo = {} /\ j.existing = Nothing
        /\ j.built = Nothing /\ j.base = NoState /\ j.topo = 0 /\ j.reparsed = {}
    BY DEF NoJob, IsJob, Fields
  <1> HIDE DEF j
  <1>2. JobFine(j, "scan")
    BY <1>1, BlankJobFine
  <1>3. QED
    BY <1>2 DEF j

(* A step of one process that leaves everything else alone.                *)
LEMMA Keeping ==
  ASSUME Typed, NEW p \in Procs, NEW stage \in Stages, NEW next, JobFine(next, stage),
         pc' = [pc EXCEPT ![p] = stage], job' = [job EXCEPT ![p] = next],
         UNCHANGED <<vaultVars, dbVars, historyVars>>
  PROVE  Typed'
  <1>1. VaultFine' /\ BaseFine' /\ Functions'
    BY DEF Typed, VaultFine, BaseFine, Functions, vaultVars, dbVars, historyVars, IsTable, RowSet, States
  <1>2. ASSUME NEW q \in Procs PROVE JobFine(job[q], pc[q])' /\ IsTable(answer[q])'
    <2>1. clock' = clock /\ answer' = answer /\ JobFine(job[q], pc[q]) /\ IsTable(answer[q])
      BY DEF Typed, vaultVars, historyVars
    <2>2. \/ job'[q] = job[q] /\ pc'[q] = pc[q]
          \/ job'[q] = next /\ pc'[q] = stage
      BY DEF Typed, Functions
    <2>3. QED
      BY <2>1, <2>2 DEF JobFine, IsTable, RowSet, States
  <1>3. QED
    BY <1>1, <1>2 DEF Typed

LEMMA BeginTyped ==
  ASSUME Typed, NEW p \in Procs, NEW op, NEW known, Begin(p, op, known)
  PROVE  Typed'
  <1> DEFINE next == [NoJob EXCEPT !.op = op, !.known = known]
  <1>1. JobFine(next, "scan") /\ IsTable(Nothing)
    <2>1. clock \in Nat
      BY DEF Typed, VaultFine
    <2>2. QED
      BY <2>1, FreshJobFine, NothingIsTable
  <1>2. /\ pc' = [pc EXCEPT ![p] = "scan"] /\ job' = [job EXCEPT ![p] = next]
        /\ answer' = [answer EXCEPT ![p] = Nothing] /\ touched' = [touched EXCEPT ![p] = {}]
        /\ UNCHANGED <<vaultVars, dbVars>>
    BY DEF Begin, Goto
  <1> HIDE DEF next
  <1>3. VaultFine' /\ BaseFine' /\ Functions'
    BY <1>2 DEF Typed, VaultFine, BaseFine, Functions, Stages, vaultVars, dbVars, IsTable, RowSet, States
  <1>4. ASSUME NEW q \in Procs PROVE JobFine(job[q], pc[q])' /\ IsTable(answer[q])'
    <2>1. clock' = clock /\ JobFine(job[q], pc[q]) /\ IsTable(answer[q])
      BY <1>2 DEF Typed, vaultVars
    <2>2. \/ job'[q] = job[q] /\ pc'[q] = pc[q] /\ answer'[q] = answer[q]
          \/ job'[q] = next /\ pc'[q] = "scan" /\ answer'[q] = Nothing
      BY <1>2 DEF Typed, Functions
    <2>3. QED
      BY <1>1, <2>1, <2>2 DEF JobFine, IsTable, RowSet, States
  <1>5. QED
    BY <1>3, <1>4 DEF Typed

LEMMA RaiseTyped ==
  ASSUME Typed, NEW p \in Procs, Raise(p), UNCHANGED <<vaultVars, dbVars, historyVars>>
  PROVE  Typed'
  <1>1. clock \in Nat
    BY DEF Typed, VaultFine
  <1>2. JobFine(NoJob, "idle")
    BY <1>1, NoJobFine
  <1>3. QED
    BY <1>2, Keeping DEF Raise, Goto, Stages

LEMMA LoadTyped ==
  ASSUME Typed, NEW p \in Procs, Scan(p) \/ LoadFingerprints(p) \/ LoadState(p)
  PROVE  Typed'
  <1> DEFINE j == job[p]
  <1>1. JobFine(j, pc[p]) /\ IsJob(j) /\ VaultFine /\ BaseFine
    BY DEF Typed, JobFine
  <1>2. CASE Scan(p)
    <2> DEFINE next == [j EXCEPT !.scan = DOMAIN files]
    <2>1. /\ IsJob(next) /\ next.open = j.open /\ next.built = j.built /\ next.reparsed = j.reparsed
          /\ next.todo = j.todo /\ next.existing = j.existing /\ next.base = j.base /\ next.topo = j.topo
          /\ next.scan = DOMAIN files
      BY <1>1 DEF IsJob, Fields
    <2>2. pc[p] = "scan" /\ pc' = [pc EXCEPT ![p] = "scanned"] /\ job' = [job EXCEPT ![p] = next]
          /\ UNCHANGED <<vaultVars, dbVars, historyVars>>
      BY <1>2 DEF Scan, Goto
    <2> HIDE DEF next
    <2>3. JobFine(next, "scanned")
      BY <1>1, <2>1, <2>2 DEF JobFine, VaultFine, Early
    <2>4. QED
      BY <2>2, <2>3, Keeping DEF Stages
  <1>3. CASE LoadFingerprints(p)
    <2> DEFINE next == [j EXCEPT !.existing = rows]
    <2>1. /\ IsJob(next) /\ next.open = j.open /\ next.built = j.built /\ next.reparsed = j.reparsed
          /\ next.todo = j.todo /\ next.existing = rows /\ next.base = j.base /\ next.topo = j.topo
          /\ next.scan = j.scan
      BY <1>1 DEF IsJob, Fields
    <2>2. pc[p] = "scanned" /\ pc' = [pc EXCEPT ![p] = "fingerprints"] /\ job' = [job EXCEPT ![p] = next]
          /\ UNCHANGED <<vaultVars, dbVars, historyVars>>
      BY <1>3 DEF LoadFingerprints, Goto
    <2> HIDE DEF next
    <2>3. JobFine(next, "fingerprints")
      BY <1>1, <2>1, <2>2 DEF JobFine, BaseFine, Early
    <2>4. QED
      BY <2>2, <2>3, Keeping DEF Stages
  <1>4. CASE LoadState(p)
    <2> DEFINE next == [j EXCEPT !.base = state]
    <2>1. /\ IsJob(next) /\ next.open = j.open /\ next.built = j.built /\ next.reparsed = j.reparsed
          /\ next.todo = j.todo /\ next.existing = j.existing /\ next.base = state /\ next.topo = j.topo
          /\ next.scan = j.scan
      BY <1>1 DEF IsJob, Fields
    <2>2. pc[p] = "fingerprints" /\ pc' = [pc EXCEPT ![p] = "decide"] /\ job' = [job EXCEPT ![p] = next]
          /\ UNCHANGED <<vaultVars, dbVars, historyVars>>
      BY <1>4 DEF LoadState, Goto
    <2> HIDE DEF next
    <2>3. JobFine(next, "decide")
      BY <1>1, <2>1, <2>2 DEF JobFine, BaseFine, Early
    <2>4. QED
      BY <2>2, <2>3, Keeping DEF Stages
  <1>5. QED
    BY <1>2, <1>3, <1>4

LEMMA DecideTyped ==
  ASSUME Typed, NEW p \in Procs, Decide(p)
  PROVE  Typed'
  <1> DEFINE j == job[p]
             full == j.op = "rebuild" \/ ~IsCurrent(j.base, topo, j.op = "update")
             todo == IF full THEN j.scan
                     ELSE ChangedPaths(j.scan, j.existing) \union (j.known \intersect j.scan)
             next == [j EXCEPT !.topo = topo, !.full = full, !.todo = todo]
             stage == IF full \/ todo # {} \/ Deleted(j) # {} THEN "reading" ELSE "reconciled"
  <1>1. /\ pc[p] = "decide" /\ UNCHANGED <<vaultVars, dbVars, historyVars>>
        /\ pc' = [pc EXCEPT ![p] = stage] /\ job' = [job EXCEPT ![p] = next]
    BY DEF Decide, Goto
  <1>2. todo \subseteq j.scan /\ stage \in {"reading", "reconciled"}
    BY DEF ChangedPaths
  <1> HIDE DEF full, todo, stage
  <1>3. JobFine(j, pc[p]) /\ IsJob(j) /\ topo \in 0..clock
    BY DEF Typed, JobFine, VaultFine
  <1>4. /\ IsJob(next) /\ next.open = j.open /\ next.built = j.built /\ next.reparsed = j.reparsed
        /\ next.todo = todo /\ next.existing = j.existing /\ next.base = j.base /\ next.topo = topo
        /\ next.scan = j.scan
    BY <1>3 DEF IsJob, Fields
  <1> HIDE DEF next
  <1>5. JobFine(next, stage)
    BY <1>1, <1>2, <1>3, <1>4 DEF JobFine, Early
  <1>6. QED
    BY <1>1, <1>2, <1>5, Keeping DEF Stages

LEMMA OpenTyped ==
  ASSUME Typed, NEW p \in Procs, OpenDoc(p)
  PROVE  Typed'
  <1> DEFINE j == job[p]
             d == CHOOSE x \in job[p].todo : TRUE
             open == [doc |-> d, stamp |-> files[d].stamp, text |-> NoFile.text]
             next == [j EXCEPT !.open = open]
  <1>1. pc[p] = "reading" /\ UNCHANGED <<vaultVars, dbVars, historyVars>> /\ d \in j.todo
        /\ JobFine(j, pc[p]) /\ IsJob(j) /\ VaultFine
    BY DEF OpenDoc, Typed, JobFine
  <1>2. CASE d \in DOMAIN files
    <2>1. pc' = [pc EXCEPT ![p] = "opened"] /\ job' = [job EXCEPT ![p] = next]
      BY <1>2 DEF OpenDoc, Goto
    <2>2. IsOpen(open) /\ open.doc = d /\ open.stamp = files[d].stamp
      BY DEF IsOpen, Fields
    <2>3. files[d].stamp \in 0..clock
      BY <1>1, <1>2 DEF VaultFine
    <2> HIDE DEF d, open
    <2>4. /\ IsJob(next) /\ next.open = open /\ next.built = j.built /\ next.reparsed = j.reparsed
          /\ next.todo = j.todo /\ next.existing = j.existing /\ next.base = j.base /\ next.topo = j.topo
          /\ next.scan = j.scan
      BY <1>1 DEF IsJob, Fields
    <2> HIDE DEF next
    <2>5. JobFine(next, "opened")
      BY <1>1, <2>2, <2>3, <2>4 DEF JobFine, Early
    <2>6. QED
      BY <1>1, <2>1, <2>5, Keeping DEF Stages
  <1>3. CASE d \notin DOMAIN files
    BY <1>1, <1>3, RaiseTyped DEF OpenDoc
  <1>4. QED
    BY <1>2, <1>3

LEMMA ReadTyped ==
  ASSUME Typed, NEW p \in Procs, ReadDoc(p)
  PROVE  Typed'
  <1> DEFINE j == job[p]
             text == files[j.open.doc].text
             open == [j.open EXCEPT !.text = text]
             next == [j EXCEPT !.open = open]
  <1>1. pc[p] = "opened" /\ UNCHANGED <<vaultVars, dbVars, historyVars>> /\ j.open.doc \in DOMAIN files
        /\ JobFine(j, pc[p]) /\ IsJob(j) /\ IsOpen(j.open) /\ VaultFine
    BY DEF ReadDoc, Unmoved, Typed, JobFine
  <1>2. pc' = [pc EXCEPT ![p] = "parsed"] /\ job' = [job EXCEPT ![p] = next]
    BY DEF ReadDoc, Goto
  <1>3. text \in Texts
    BY <1>1 DEF VaultFine
  <1> HIDE DEF text
  <1>4. IsOpen(open) /\ open.doc = j.open.doc /\ open.stamp = j.open.stamp /\ open.text = text
    BY <1>1 DEF IsOpen, Fields
  <1> HIDE DEF open
  <1>5. /\ IsJob(next) /\ next.open = open /\ next.built = j.built /\ next.reparsed = j.reparsed
        /\ next.todo = j.todo /\ next.existing = j.existing /\ next.base = j.base /\ next.topo = j.topo
        /\ next.scan = j.scan
    BY <1>1 DEF IsJob, Fields
  <1> HIDE DEF next
  <1>6. JobFine(next, "parsed")
    BY <1>1, <1>3, <1>4, <1>5 DEF JobFine, Early
  <1>7. QED
    BY <1>1, <1>2, <1>6, Keeping DEF Stages

(* A row is built, and its document is off the list.                       *)
LEMMA BuiltTyped ==
  ASSUME Typed, NEW p \in Procs, NEW d, NEW row \in RowSet, NEW next, IsJob(next),
         pc[p] \in {"opened", "parsed"}, d = job[p].open.doc, next.open = NoFile,
         next.built = With(d, row, job[p].built), next.todo = job[p].todo \ {d},
         next.reparsed \subseteq job[p].reparsed \union {d},
         next.scan = job[p].scan, next.existing = job[p].existing,
         next.base = job[p].base, next.topo = job[p].topo,
         pc' = [pc EXCEPT ![p] = "reading"], job' = [job EXCEPT ![p] = next],
         UNCHANGED <<vaultVars, dbVars, historyVars>>
  PROVE  Typed'
  <1>1. JobFine(job[p], pc[p])
    BY DEF Typed
  <1>2. d \in job[p].todo /\ d \in job[p].scan /\ d \in Docs /\ IsTable(job[p].built)
    BY <1>1 DEF JobFine
  <1>3. IsTable(next.built) /\ DOMAIN next.built = DOMAIN job[p].built \union {d}
    <2>1. d \in Docs /\ row \in RowSet /\ IsTable(job[p].built)
      BY <1>2
    <2>2. QED
      BY ONLY <2>1, WithIsTable, next.built = With(d, row, job[p].built)
  <1>4. IsOpen(NoFile)
    BY DEF IsOpen, NoFile, Fields
  <1>5. JobFine(next, "reading")
    BY <1>1, <1>2, <1>3, <1>4 DEF JobFine, Early
  <1>6. QED
    BY <1>5, Keeping DEF Stages

LEMMA SameHashTyped ==
  ASSUME Typed, NEW p \in Procs, ReadSameHash(p)
  PROVE  Typed'
  <1> DEFINE j == job[p]
             d == j.open.doc
             row == [rows[d] EXCEPT !.stamp = j.open.stamp]
             built == With(d, row, j.built)
             next == [j EXCEPT !.built = built, !.todo = j.todo \ {d}, !.open = NoFile]
  <1>1. /\ pc[p] = "opened" /\ UNCHANGED <<vaultVars, dbVars, historyVars>> /\ d \in DOMAIN rows
        /\ JobFine(j, pc[p]) /\ IsJob(j) /\ IsTable(rows)
    BY DEF ReadSameHash, Typed, BaseFine, JobFine
  <1>2. pc' = [pc EXCEPT ![p] = "reading"] /\ job' = [job EXCEPT ![p] = next]
    BY DEF ReadSameHash, Goto, With
  <1>3. row \in RowSet
    BY <1>1 DEF IsTable, RowSet, JobFine
  <1> HIDE DEF row, d, built
  <1>4. /\ IsJob(next) /\ next.open = NoFile /\ next.built = built /\ next.reparsed = j.reparsed
        /\ next.todo = j.todo \ {d} /\ next.existing = j.existing /\ next.base = j.base /\ next.topo = j.topo
        /\ next.scan = j.scan
    BY <1>1 DEF IsJob, Fields
  <1> HIDE DEF next
  <1>5. QED
    BY <1>1, <1>2, <1>3, <1>4, BuiltTyped DEF built, d

LEMMA RecordTyped ==
  ASSUME Typed, NEW p \in Procs, RecordDoc(p)
  PROVE  Typed'
  <1> DEFINE j == job[p]
             d == j.open.doc
             row == [text |-> j.open.text, stamp |-> files[d].stamp, domain |-> topo]
             built == With(d, row, j.built)
             next == [j EXCEPT !.built = built, !.reparsed = j.reparsed \union {d},
                               !.todo = j.todo \ {d}, !.open = NoFile]
  <1>1. /\ pc[p] = "parsed" /\ UNCHANGED <<vaultVars, dbVars, historyVars>>
        /\ JobFine(j, pc[p]) /\ IsJob(j) /\ VaultFine
    BY DEF RecordDoc, Typed, JobFine
  <1>2. CASE d \in DOMAIN files
    <2>1. pc' = [pc EXCEPT ![p] = "reading"] /\ job' = [job EXCEPT ![p] = next]
      BY <1>2 DEF RecordDoc, Goto, With
    <2>2. row \in RowSet
      BY <1>1, <1>2 DEF RowSet, JobFine, VaultFine
    <2> HIDE DEF row, d, built
    <2>3. /\ IsJob(next) /\ next.open = NoFile /\ next.built = built /\ next.reparsed = j.reparsed \union {d}
          /\ next.todo = j.todo \ {d} /\ next.existing = j.existing /\ next.base = j.base /\ next.topo = j.topo
          /\ next.scan = j.scan
      BY <1>1 DEF IsJob, Fields
    <2> HIDE DEF next
    <2>4. QED
      BY <1>1, <2>1, <2>2, <2>3, BuiltTyped DEF built, d
  <1>3. CASE d \notin DOMAIN files
    BY <1>1, <1>3, RaiseTyped DEF RecordDoc
  <1>4. QED
    BY <1>2, <1>3

(* A commit writes typed rows, typed edges and a later generation.         *)
EdgeSet == [src : Docs, dst : Docs, res : {"self", "resolved", "missing"}]

LEMMA EdgesOfTyped ==
  ASSUME NEW d \in Docs, NEW text \in Texts, NEW candidates
  PROVE  EdgesOf(d, text, candidates) \subseteq EdgeSet
  <1>1. text.links \subseteq Docs
    BY TextsAssumption
  <1>2. QED
    BY <1>1 DEF EdgesOf, EdgeSet

LEMMA NewEdgesTyped ==
  ASSUME NEW j, IsTable(j.built), j.reparsed \subseteq DOMAIN j.built
  PROVE  NewEdges(j) \subseteq EdgeSet
  <1> DEFINE of(d) == EdgesOf(d, j.built[d].text, Queryable(Records(j)))
  <1>1. NewEdges(j) = UNION {of(d) : d \in j.reparsed}
    BY DEF NewEdges
  <1>2. ASSUME NEW d \in j.reparsed PROVE of(d) \subseteq EdgeSet
    <2>1. d \in Docs /\ j.built[d].text \in Texts
      BY DEF IsTable, RowSet
    <2>2. QED
      BY <2>1, EdgesOfTyped
  <1> HIDE DEF of
  <1>3. QED
    BY <1>1, <1>2

LEMMA KeptEdgesTyped ==
  ASSUME NEW j, edges \subseteq EdgeSet
  PROVE  KeptEdges(j) \subseteq EdgeSet
  <1> DEFINE affected == DOMAIN j.built \union Deleted(j)
             verdict(t) == IF t \in Queryable(Records(j)) THEN "resolved" ELSE "missing"
             kept(e) == IF e.dst \in affected /\ e.res # "self"
                          THEN [e EXCEPT !.res = verdict(e.dst)] ELSE e
             stay == {x \in edges : x.src \notin j.reparsed \union Deleted(j)}
  <1>1. KeptEdges(j) = {kept(e) : e \in stay}
    BY DEF KeptEdges
  <1>2. \A t : verdict(t) \in {"resolved", "missing"}
    OBVIOUS
  <1>3. \A e \in stay : kept(e) \in EdgeSet
    <2> HIDE DEF verdict, affected
    <2>1. QED
      BY <1>2 DEF EdgeSet
  <1> HIDE DEF kept
  <1>4. QED
    BY <1>1, <1>3

LEMMA CommitTyped ==
  ASSUME Typed, NEW p \in Procs, Commit(p)
  PROVE  Typed'
  <1> DEFINE j == job[p]
  <1>1. /\ JobFine(j, pc[p]) /\ pc[p] = "reading" /\ BaseFine /\ VaultFine /\ Functions
        /\ pc' = [pc EXCEPT ![p] = "reconciled"] /\ UNCHANGED <<vaultVars, job, historyVars>>
    BY DEF Commit, Goto, Typed
  <1>2. IsTable(rows')
    <2>1. IsTable(j.built) /\ IsTable(rows)
      BY <1>1 DEF JobFine, BaseFine
    <2>2. IsTable(Without(rows, Deleted(j)))
      BY <2>1, WithoutIsTable
    <2>3. IsTable(Overlay(j.built, Without(rows, Deleted(j))))
      BY <2>1, <2>2, OverlayIsTable
    <2>4. QED
      BY <2>1, <2>3 DEF Commit
  <1>3. edges' \subseteq EdgeSet
    <2>1. NewEdges(j) \subseteq EdgeSet
      BY <1>1, NewEdgesTyped DEF JobFine
    <2>2. KeptEdges(j) \subseteq EdgeSet
      BY <1>1, KeptEdgesTyped DEF BaseFine, EdgeSet
    <2>3. QED
      BY <2>1, <2>2 DEF Commit
  <1>4. state' \in States
    <2>1. j.base.gen \in Nat /\ j.topo \in 0..clock
      BY <1>1 DEF JobFine, States, NoState
    <2>2. state' = [gen |-> j.base.gen + 1, status |-> "ready", topo |-> j.topo]
      BY DEF Commit, NextGeneration
    <2>3. QED
      BY <2>1, <2>2 DEF States
  <1>5. clock' = clock /\ job' = job /\ answer' = answer
    BY <1>1 DEF vaultVars, historyVars
  <1>6. VaultFine' /\ BaseFine' /\ Functions'
    BY <1>1, <1>2, <1>3, <1>4, <1>5
    DEF VaultFine, BaseFine, Functions, Stages, EdgeSet, vaultVars, historyVars, IsTable, RowSet, States
  <1>7. ASSUME NEW q \in Procs PROVE JobFine(job[q], pc[q])' /\ IsTable(answer[q])'
    <2>1. JobFine(job[q], pc[q]) /\ IsTable(answer[q])
      BY DEF Typed
    <2>2. \/ pc'[q] = pc[q]
          \/ pc[q] = "reading" /\ pc'[q] = "reconciled"
      BY <1>1 DEF Functions
    <2>3. QED
      BY <1>5, <2>1, <2>2 DEF JobFine, Early, IsTable, RowSet, States
  <1>8. QED
    BY <1>6, <1>7 DEF Typed

LEMMA QueryTyped ==
  ASSUME Typed, NEW p \in Procs, Query(p)
  PROVE  Typed'
  <1> DEFINE found == [d \in Queryable(rows) |-> rows[d]]
  <1>1. /\ pc' = [pc EXCEPT ![p] = "answered"] /\ job' = [job EXCEPT ![p] = NoJob]
        /\ answer' = [answer EXCEPT ![p] = found] /\ touched' = touched
        /\ UNCHANGED <<vaultVars, dbVars>>
    BY DEF Query, Goto
  <1>2. IsTable(found)
    BY DEF Typed, BaseFine, Queryable, IsTable
  <1>3. JobFine(NoJob, "answered")
    BY NoJobFine DEF Typed, VaultFine
  <1> HIDE DEF found
  <1>4. VaultFine' /\ BaseFine' /\ Functions'
    BY <1>1 DEF Typed, VaultFine, BaseFine, Functions, Stages, vaultVars, dbVars, IsTable, RowSet, States
  <1>5. ASSUME NEW q \in Procs PROVE JobFine(job[q], pc[q])' /\ IsTable(answer[q])'
    <2>1. clock' = clock /\ JobFine(job[q], pc[q]) /\ IsTable(answer[q])
      BY <1>1 DEF Typed, vaultVars
    <2>2. \/ job'[q] = job[q] /\ pc'[q] = pc[q] /\ answer'[q] = answer[q]
          \/ job'[q] = NoJob /\ pc'[q] = "answered" /\ answer'[q] = found
      BY <1>1 DEF Typed, Functions
    <2>3. QED
      BY <1>2, <1>3, <2>1, <2>2 DEF JobFine, IsTable, RowSet, States
  <1>6. QED
    BY <1>4, <1>5 DEF Typed

LEMMA LastStepTyped ==
  ASSUME Typed, NEW p \in Procs, StatRaises(p) \/ ReadRaises(p) \/ CommitRefused(p) \/ Finish(p)
  PROVE  Typed'
  BY RaiseTyped DEF StatRaises, ReadRaises, CommitRefused, Finish

(* Time moves on: what was of the past stays so.                           *)
LEMMA PastGrows ==
  ASSUME clock \in Nat, clock' \in Nat, clock <= clock'
  PROVE  /\ 0..clock \subseteq 0..clock'
         /\ RowSet \subseteq RowSet' /\ States \subseteq States'
  <1>1. 0..clock \subseteq 0..clock'
    OBVIOUS
  <1>2. RowSet \subseteq RowSet'
    BY <1>1 DEF RowSet
  <1>3. States \subseteq States'
    BY <1>1 DEF States
  <1>4. QED
    BY <1>1, <1>2, <1>3

LEMMA QuietTyped ==
  ASSUME Typed, clock' \in Nat, clock <= clock', VaultFine', touched' \in [Procs -> SUBSET Docs],
         UNCHANGED <<dbVars, pc, job, answer>>
  PROVE  Typed'
  <1>1. /\ 0..clock \subseteq 0..clock' /\ RowSet \subseteq RowSet' /\ States \subseteq States'
    BY PastGrows DEF Typed, VaultFine
  <1>2. rows' = rows /\ edges' = edges /\ state' = state /\ pc' = pc /\ job' = job /\ answer' = answer
    BY DEF dbVars
  <1>3. BaseFine' /\ Functions'
    BY <1>1, <1>2 DEF Typed, BaseFine, Functions, IsTable
  <1>4. ASSUME NEW q \in Procs PROVE JobFine(job[q], pc[q])' /\ IsTable(answer[q])'
    <2>1. JobFine(job[q], pc[q]) /\ IsTable(answer[q])
      BY DEF Typed
    <2>2. IsTable(job[q].existing)' /\ IsTable(job[q].built)' /\ IsTable(answer[q])'
      BY <1>1, <1>2, <2>1 DEF JobFine, IsTable
    <2>3. QED
      BY <1>1, <1>2, <2>1, <2>2 DEF JobFine
  <1>5. QED
    BY <1>3, <1>4 DEF Typed

LEMMA EditTyped ==
  ASSUME Typed, Edit
  PROVE  Typed'
  <1>1. VaultFine /\ touched \in [Procs -> SUBSET Docs]
    BY DEF Typed, Functions
  <1>2. clock' = clock + 1 /\ UNCHANGED <<dbVars, pc, job, answer>>
    BY DEF Edit, Remove, Save, EditMarkers, Touch
  <1>3. touched' \in [Procs -> SUBSET Docs]
    <2>1. PICK S \in SUBSET Docs : touched' = [p \in Procs |-> touched[p] \union S]
      BY DEF Edit, Remove, Save, EditMarkers, Touch
    <2>2. QED
      BY <1>1, <2>1
  <1>4. VaultFine'
    <2>1. clock' \in Nat /\ 0..clock \subseteq 0..clock' /\ clock + 1 \in 0..clock'
      BY <1>1, <1>2 DEF VaultFine
    <2>2. ASSUME NEW d \in Docs, Remove(d) PROVE VaultFine'
      BY <1>1, <2>1, <2>2 DEF Remove, Without, VaultFine
    <2>3. ASSUME NEW d \in Docs, NEW text \in Texts, Save(d, text) PROVE VaultFine'
      BY <1>1, <2>1, <2>3 DEF Save, Overlay, VaultFine
    <2>4. CASE EditMarkers
      BY <1>1, <2>1, <2>4 DEF EditMarkers, VaultFine
    <2>5. QED
      BY <2>2, <2>3, <2>4 DEF Edit
  <1>5. QED
    BY <1>1, <1>2, <1>3, <1>4, QuietTyped DEF VaultFine

LEMMA InitTyped == Init => Typed
  <1> SUFFICES ASSUME Init PROVE Typed
    OBVIOUS
  <1>1. VaultFine
    BY FilesAssumption DEF Init, VaultFine
  <1>2. IsTable(rows)
    <2>1. IsTable(IndexedFiles)
      BY <1>1 DEF IndexedFiles, IsTable, RowSet, VaultFine
    <2>2. QED
      BY <2>1, NothingIsTable DEF Init
  <1>3. edges \subseteq EdgeSet
    <2> DEFINE of(d) == EdgesOf(d, rows[d].text, Queryable(rows))
    <2>1. edges = UNION {of(d) : d \in DOMAIN rows}
      BY DEF Init, AllEdges
    <2>2. ASSUME NEW d \in DOMAIN rows PROVE of(d) \subseteq EdgeSet
      <3>1. d \in Docs /\ rows[d].text \in Texts
        BY <1>2 DEF IsTable, RowSet
      <3>2. QED
        BY <3>1, EdgesOfTyped
    <2> HIDE DEF of
    <2>3. QED
      BY <2>1, <2>2
  <1>4. state \in States
    <2>1. NoState \in States /\ 0 \in 0..clock
      BY <1>1, ZeroIsPast DEF VaultFine
    <2>2. QED
      BY <2>1 DEF Init, States
  <1>5. Functions
    BY DEF Init, Functions, Stages
  <1>6. ASSUME NEW p \in Procs PROVE JobFine(job[p], pc[p]) /\ IsTable(answer[p])
    BY <1>1, NoJobFine, NothingIsTable DEF Init, VaultFine
  <1>7. QED
    BY <1>1, <1>2, <1>3, <1>4, <1>5, <1>6 DEF Typed, BaseFine, EdgeSet

LEMMA StepTyped == Typed /\ [Next]_vars => Typed'
  <1> SUFFICES ASSUME Typed, [Next]_vars PROVE Typed'
    OBVIOUS
  <1>1. ASSUME NEW p \in Procs, List(p) \/ Rebuild(p) PROVE Typed'
    BY <1>1, BeginTyped DEF List, Rebuild
  <1>2. ASSUME NEW p \in Procs, Step(p) PROVE Typed'
    BY <1>2, LoadTyped, DecideTyped, OpenTyped, ReadTyped, SameHashTyped, RecordTyped,
       CommitTyped, QueryTyped, LastStepTyped
    DEF Step, ReconcileStep
  <1>3. CASE Edit
    BY <1>3, EditTyped
  <1>4. CASE UNCHANGED vars
    <2>1. clock' = clock /\ touched' = touched /\ UNCHANGED <<dbVars, pc, job, answer, vaultVars>>
      BY <1>4 DEF vars, vaultVars, historyVars
    <2>2. VaultFine'
      BY <2>1 DEF Typed, VaultFine, vaultVars
    <2>3. QED
      BY <2>1, <2>2, QuietTyped DEF Typed, VaultFine, Functions
  <1>5. QED
    BY <1>1, <1>2, <1>3, <1>4 DEF Next

(* Types, whether or not the index exists yet: tables, references and the  *)
(* local variables of every _reconcile hold documents, texts and stamps of *)
(* the past; what has been read and what is still to read are disjoint     *)
(* parts of what the scan found, and never more than that.                 *)
THEOREM TypesHold == Spec => []TypeOK
  <1>1. Spec => []Typed
    BY InitTyped, StepTyped, PTL DEF Spec
  <1>2. QED
    BY <1>1, TypedIsTypeOK, PTL

(* A document's row and its outgoing references change together, whatever  *)
(* commits of full builds and deltas processes interleave on an index that *)
(* exists: apply_delta replaces exactly the edges of the sources whose     *)
(* rows it rereads or deletes.                                             *)
THEOREM SourcesStayMatched == StartIndexed => (Spec => []SourcesMatchRows)
  <1>1. ASSUME IInv PROVE SourcesMatchRows
    <2> DEFINE pairs == {<<e.src, e.dst>> : e \in edges}
               links(d) == {d} \X rows[d].text.links
    <2>1. ASSUME NEW x \in pairs PROVE x \in UNION {links(d) : d \in Queryable(rows)}
      <3>1. PICK e \in edges : x = <<e.src, e.dst>>
        BY <2>1
      <3>2. e.src \in Queryable(rows) /\ x \in links(e.src)
        BY <3>1, <1>1 DEF IInv, EdgesHaveRows
      <3>3. QED
        BY <3>2
    <2>2. ASSUME NEW x \in UNION {links(d) : d \in Queryable(rows)} PROVE x \in pairs
      <3>1. PICK d \in Queryable(rows) : x \in links(d)
        BY <2>2
      <3>2. PICK t \in rows[d].text.links : x = <<d, t>>
        BY <3>1
      <3>3. PICK e \in edges : e.src = d /\ e.dst = t
        BY <1>1 DEF IInv, RowsHaveEdges
      <3>4. QED
        BY <3>2, <3>3
    <2>3. pairs = UNION {links(d) : d \in Queryable(rows)}
      <3> HIDE DEF pairs, links
      <3>1. QED
        BY <2>1, <2>2
    <2>4. QED
      BY <2>3 DEF SourcesMatchRows
  <1>2. QED
    BY <1>1, InvariantIInv, PTL

(* On an index that exists the projection does not change without its      *)
(* generation moving on by exactly one: what prepare_write relies on when  *)
(* it compares generations.                                                *)
THEOREM ChangesAreCounted == StartIndexed => (Spec => GenerationCountsChanges)
  <1>1. ASSUME IInv, [Next]_vars, <<rows, edges>>' # <<rows, edges>>
        PROVE  state'.gen = state.gen + 1
    <2>1. PICK p \in Procs : Commit(p)
      BY <1>1 DEF Next, List, Rebuild, Begin, Step, ReconcileStep, Scan, LoadFingerprints,
                  LoadState, Decide, StatRaises, OpenDoc, ReadDoc, ReadSameHash, ReadRaises,
                  RecordDoc, CommitRefused, Query, Finish, Edit, Remove, Save, EditMarkers,
                  Touch, dbVars, vars
    <2>2. QED
      BY <1>1, <2>1, CommitMovesOn
  <1>2. IInv /\ [Next]_vars
          => [<<rows, edges>>' # <<rows, edges>> => state'.gen = state.gen + 1]_vars
    BY <1>1
  <1>3. QED
    BY <1>2, InvariantIInv, PTL DEF Spec, GenerationCountsChanges

----------------------------------------------------------------------------
(* One process that moves, applies and lists, and an editor who waits while *)
(* a document is being indexed.                                            *)
AnswerStands(p) ==
  pc[p] = "answered" =>
    \A d \in Docs \ touched[p] :
      LET listed == d \in DOMAIN answer[p]
      IN  /\ listed <=> d \in DOMAIN files /\ ~files[d].text.moc
          /\ listed => /\ answer[p][d].text = files[d].text
                       /\ answer[p][d].domain = topo

NoneLeft(p) ==
  pc[p] = "written" /\ plan[p].kind = "move" /\ plan[p].source \in Queryable(rows) =>
    \A d \in DOMAIN files \ touched[p] :
      ~files[d].text.moc => plan[p].source \notin files[d].text.links

StoreSound == StampsArePast /\ Vouches(rows) /\ DomainsStand /\ EdgesMatchRows

LEMMA MInvParts ==
  ASSUME MInv
  PROVE  /\ RecordsHold /\ StoreSound
         /\ \A p \in Procs : ReconcileSound(p) /\ MoveSound(p) /\ AnswerStands(p) /\ NoneLeft(p)
  BY DEF MInv, StoreSound, QueryFresh, NoReferenceLeftBehind, AnswerStands, NoneLeft

LEMMA MInvFromParts ==
  ASSUME OneProcess, NEW p \in Procs, RecordsHold', StoreSound', ReconcileSound(p)', MoveSound(p)',
         AnswerStands(p)', NoneLeft(p)'
  PROVE  MInv'
  <1>1. \A q \in Procs : q = p
    BY DEF OneProcess
  <1>2. \A q \in Procs : ReconcileSound(q)' /\ MoveSound(q)' /\ AnswerStands(q)' /\ NoneLeft(q)'
    BY <1>1
  <1>3. QueryFresh' /\ NoReferenceLeftBehind'
    BY <1>2 DEF QueryFresh, NoReferenceLeftBehind, AnswerStands, NoneLeft
  <1>4. QED
    BY <1>2, <1>3 DEF MInv, StoreSound

(* A step of a process: where it goes, and what it knows then.             *)
Own(p, stage, next) ==
  pc' = [pc EXCEPT ![p] = stage] /\ job' = [job EXCEPT ![p] = next]

LEMMA OwnStep ==
  ASSUME RecordsHold, NEW p \in Procs, NEW stage, NEW next, Own(p, stage, next)
  PROVE  /\ pc'[p] = stage /\ job'[p] = next
         /\ JobShape(next) => JobsAreRecords'
  BY DEF Own, RecordsHold, JobsAreRecords

LEMMA ShapeOfJob ==
  ASSUME RecordsHold, NEW p \in Procs
  PROVE  JobShape(job[p]) /\ IsJob(job[p]) /\ IsOpen(job[p].open)
  BY DEF RecordsHold, JobsAreRecords, JobShape

LEMMA SameStore ==
  ASSUME StoreSound, UNCHANGED <<vaultVars, dbVars>>
  PROVE  StoreSound'
  BY DEF StoreSound, vaultVars, dbVars, StampsArePast, Vouches, DomainsStand, EdgesMatchRows, AllEdges, Queryable, EdgesOf

LEMMA SameRecords ==
  ASSUME RecordsHold, JobsAreRecords', UNCHANGED <<files, rows, state, plan, answer, touched>>
  PROVE  RecordsHold'
  BY DEF RecordsHold, IsRow, IsPlan, IsState, Fields

MoverStages == Prepared \union {"referrers", "written"}
IndexStages == {"scan", "scanned", "fingerprints", "decide", "reading", "opened", "parsed", "reconciled"}

(* A mover is between reconciles, and a reconcile is between moves.        *)
LEMMA NotMoving ==
  ASSUME NEW p \in Procs, PlanSound(p)', pc'[p] \notin MoverStages
  PROVE  MoveSound(p)' /\ NoneLeft(p)'
  BY DEF MoveSound, ReferrersKnown, FoundStands, NoneLeft, MoverStages, Prepared

LEMMA NotReconciling ==
  ASSUME NEW p \in Procs, pc'[p] \notin IndexStages
  PROVE  ReconcileSound(p)'
  BY DEF ReconcileSound, BuiltIsScanned, TakenOverStands, ReadsStand, MarkersStand, BuiltStands,
         IndexStages, Building, Loaded

LEMMA SamePlanSound ==
  ASSUME NEW p \in Procs, PlanSound(p), UNCHANGED plan
  PROVE  PlanSound(p)'
  BY DEF PlanSound

(* A step of a reconcile that reads.                                       *)
LEMMA ReadingKeepsMInv ==
  ASSUME OneProcess, MInv, NEW p \in Procs, NEW stage \in IndexStages, NEW next, Own(p, stage, next),
         JobShape(next), UNCHANGED <<vaultVars, dbVars, historyVars, plan>>, ReconcileSound(p)'
  PROVE  MInv'
  <1>1. /\ RecordsHold /\ StoreSound /\ PlanSound(p)
    BY MInvParts DEF MoveSound
  <1>2. pc'[p] = stage /\ JobsAreRecords'
    BY <1>1, OwnStep
  <1>3. RecordsHold' /\ StoreSound'
    BY <1>1, <1>2, SameStore, SameRecords DEF vaultVars, dbVars, historyVars
  <1>4. MoveSound(p)' /\ NoneLeft(p)'
    <2>1. stage \notin MoverStages
      BY DEF IndexStages, MoverStages, Prepared
    <2>2. QED
      BY <1>1, <1>2, <2>1, SamePlanSound, NotMoving
  <1>5. AnswerStands(p)'
    BY <1>2 DEF AnswerStands, IndexStages
  <1>6. QED
    BY <1>3, <1>4, <1>5, MInvFromParts

(* An operation is over: by itself, by an exception or with a preview.     *)
LEMMA IdleKeepsMInv ==
  ASSUME OneProcess, MInv, NEW p \in Procs, Raise(p), UNCHANGED <<vaultVars, dbVars, historyVars>>,
         plan' \in {plan, [plan EXCEPT ![p] = NoPlan]}
  PROVE  MInv'
  <1>1. /\ RecordsHold /\ StoreSound /\ PlanSound(p)
    BY MInvParts DEF MoveSound
  <1>2. Own(p, "idle", NoJob) /\ JobShape(NoJob)
    BY NoJobFacts DEF Raise, Goto, Own
  <1>3. pc'[p] = "idle" /\ JobsAreRecords'
    BY <1>1, <1>2, OwnStep
  <1>4. IsPlan(NoPlan) /\ NoPlan.text \in Contents /\ DOMAIN NoPlan.found = {} /\ NoPlan.kind = "none"
    BY DEF IsPlan, Fields, NoPlan, Contents, NoFile, Nothing
  <1>5. plan'[p] \in {plan[p], NoPlan} /\ plan' = [q \in Procs |-> plan'[q]]
    BY <1>1 DEF RecordsHold
  <1>6. \A q \in Procs : q = p
    BY DEF OneProcess
  <1>7. IsPlan(plan'[p])
    BY <1>1, <1>4, <1>5 DEF RecordsHold
  <1>8. RecordsHold'
    BY <1>1, <1>3, <1>5, <1>6, <1>7 DEF RecordsHold, vaultVars, dbVars, historyVars, IsRow, IsState, Fields
  <1>9. PlanSound(p)'
    BY <1>1, <1>4, <1>5 DEF PlanSound
  <1>10. /\ MoveSound(p)' /\ NoneLeft(p)' /\ ReconcileSound(p)' /\ AnswerStands(p)'
    BY <1>3, <1>9, NotMoving, NotReconciling DEF MoverStages, Prepared, IndexStages, AnswerStands
  <1>11. QED
    BY <1>1, <1>8, <1>10, SameStore, MInvFromParts

----------------------------------------------------------------------------
LEMMA FreshJob ==
  ASSUME NEW op, NEW known
  PROVE  LET j == [NoJob EXCEPT !.op = op, !.known = known]
         IN  /\ JobShape(j) /\ DOMAIN j.built = {} /\ j.reparsed = {} /\ j.known = known /\ j.op = op
  <1> DEFINE j == [NoJob EXCEPT !.op = op, !.known = known]
  <1>1. JobShape(j) /\ j.built = Nothing /\ j.reparsed = {}
    BY FreshJobShape
  <1>2. DOMAIN Nothing = {} /\ j.known = known /\ j.op = op
    BY DEF Nothing, NoJob
  <1> HIDE DEF j
  <1>3. JobShape(j) /\ DOMAIN j.built = {} /\ j.reparsed = {} /\ j.known = known /\ j.op = op
    BY <1>1, <1>2
  <1>4. QED
    BY <1>3 DEF j

(* An operation begins: nothing is known yet.                              *)
LEMMA StartIsSound ==
  ASSUME RecordsHold, NEW p \in Procs, NEW op, NEW known,
         Own(p, "scan", [NoJob EXCEPT !.op = op, !.known = known])
  PROVE  ReconcileSound(p)' /\ JobsAreRecords' /\ pc'[p] = "scan"
  <1> DEFINE next == [NoJob EXCEPT !.op = op, !.known = known]
  <1>1. JobShape(next) /\ DOMAIN next.built = {} /\ next.reparsed = {}
    BY FreshJob
  <1> HIDE DEF next
  <1>2. pc'[p] = "scan" /\ job'[p] = next /\ JobsAreRecords'
    BY <1>1, OwnStep DEF next
  <1>3. ReconcileSound(p)'
    BY <1>1, <1>2 DEF ReconcileSound, BuiltIsScanned, TakenOverStands, ReadsStand, MarkersStand,
                      BuiltStands, Building, Loaded
  <1>4. QED
    BY <1>2, <1>3

LEMMA BeginKeepsMInv ==
  ASSUME OneProcess, MInv, NEW p \in Procs, NEW op, NEW known, Begin(p, op, known),
         PlanSound(p)', IsPlan(plan'[p]), plan' = [q \in Procs |-> plan'[q]]
  PROVE  MInv'
  <1>1. RecordsHold /\ StoreSound
    BY MInvParts
  <1>2. /\ Own(p, "scan", [NoJob EXCEPT !.op = op, !.known = known])
        /\ UNCHANGED <<vaultVars, dbVars>>
    BY DEF Begin, Goto, Own
  <1>3. ReconcileSound(p)' /\ JobsAreRecords' /\ pc'[p] = "scan"
    BY <1>1, <1>2, StartIsSound
  <1>4. answer' = [q \in Procs |-> answer'[q]] /\ touched' = [q \in Procs |-> touched'[q]]
    BY <1>1 DEF Begin, RecordsHold
  <1>5. RecordsHold'
    <2>1. \A q \in Procs : q = p
      BY DEF OneProcess
    <2>2. QED
      BY <1>1, <1>2, <1>3, <1>4, <2>1 DEF RecordsHold, vaultVars, dbVars, IsRow, IsState, Fields
  <1>6. MoveSound(p)' /\ NoneLeft(p)' /\ AnswerStands(p)'
    BY <1>3, NotMoving DEF MoverStages, Prepared, AnswerStands
  <1>7. QED
    BY <1>1, <1>2, <1>3, <1>5, <1>6, SameStore, MInvFromParts

LEMMA ListKeepsMInv ==
  ASSUME OneProcess, MInv, NEW p \in Procs, List(p), UNCHANGED plan
  PROVE  MInv'
  <1>1. RecordsHold /\ PlanSound(p)
    BY MInvParts DEF MoveSound
  <1>2. PlanSound(p)' /\ IsPlan(plan'[p]) /\ plan' = [q \in Procs |-> plan'[q]]
    BY <1>1, SamePlanSound DEF RecordsHold
  <1>3. QED
    BY <1>2, BeginKeepsMInv DEF List

(* The reads before anything is built                                      *)
LEMMA ScanKeepsMInv ==
  ASSUME OneProcess, MInv, NEW p \in Procs, Scan(p), UNCHANGED plan
  PROVE  MInv'
  <1> DEFINE j == job[p]
             next == [j EXCEPT !.scan = DOMAIN files]
  <1>1. RecordsHold /\ ReconcileSound(p) /\ JobShape(j) /\ IsJob(j)
    BY MInvParts, ShapeOfJob
  <1>2. /\ IsJob(next) /\ next.open = j.open /\ next.built = j.built /\ next.reparsed = j.reparsed
        /\ next.scan = DOMAIN files
    BY <1>1 DEF IsJob, Fields
  <1>3. Own(p, "scanned", next) /\ JobShape(next) /\ pc[p] = "scan"
    BY <1>1, <1>2 DEF Scan, Goto, Own, JobShape
  <1> HIDE DEF next
  <1>4. pc'[p] = "scanned" /\ job'[p] = next
    BY <1>1, <1>3, OwnStep
  <1>5. ReconcileSound(p)'
    BY <1>1, <1>2, <1>3, <1>4
    DEF Scan, vaultVars, ReconcileSound, BuiltIsScanned, TakenOverStands, ReadsStand, MarkersStand, BuiltStands,
        Building, Loaded
  <1>6. QED
    BY <1>3, <1>5, ReadingKeepsMInv DEF Scan, IndexStages

LEMMA LoadFingerprintsKeepsMInv ==
  ASSUME OneProcess, MInv, NEW p \in Procs, LoadFingerprints(p), UNCHANGED plan
  PROVE  MInv'
  <1> DEFINE j == job[p]
             next == [j EXCEPT !.existing = rows]
  <1>1. RecordsHold /\ ReconcileSound(p) /\ JobShape(j) /\ IsJob(j)
    BY MInvParts, ShapeOfJob
  <1>2. /\ IsJob(next) /\ next.open = j.open /\ next.built = j.built /\ next.reparsed = j.reparsed
        /\ next.scan = j.scan /\ next.existing = rows
    BY <1>1 DEF IsJob, Fields
  <1>3. Own(p, "fingerprints", next) /\ JobShape(next) /\ pc[p] = "scanned"
    BY <1>1, <1>2 DEF LoadFingerprints, Goto, Own, JobShape
  <1> HIDE DEF next
  <1>4. pc'[p] = "fingerprints" /\ job'[p] = next
    BY <1>1, <1>3, OwnStep
  <1>5. ReconcileSound(p)'
    BY <1>1, <1>2, <1>3, <1>4
    DEF LoadFingerprints, vaultVars, dbVars, historyVars, ReconcileSound, BuiltIsScanned, TakenOverStands, ReadsStand,
        MarkersStand, BuiltStands, Building, Loaded
  <1>6. QED
    BY <1>3, <1>5, ReadingKeepsMInv DEF LoadFingerprints, IndexStages

LEMMA LoadStateKeepsMInv ==
  ASSUME OneProcess, MInv, NEW p \in Procs, LoadState(p), UNCHANGED plan
  PROVE  MInv'
  <1> DEFINE j == job[p]
             next == [j EXCEPT !.base = state]
  <1>1. RecordsHold /\ ReconcileSound(p) /\ JobShape(j) /\ IsJob(j)
    BY MInvParts, ShapeOfJob
  <1>2. /\ IsJob(next) /\ next.open = j.open /\ next.built = j.built /\ next.reparsed = j.reparsed
        /\ next.scan = j.scan /\ next.existing = j.existing /\ next.base = state
    BY <1>1 DEF IsJob, Fields
  <1>3. Own(p, "decide", next) /\ JobShape(next) /\ pc[p] = "fingerprints"
    BY <1>1, <1>2 DEF LoadState, Goto, Own, JobShape
  <1> HIDE DEF next
  <1>4. pc'[p] = "decide" /\ job'[p] = next
    BY <1>1, <1>3, OwnStep
  <1>5. ReconcileSound(p)'
    BY <1>1, <1>2, <1>3, <1>4
    DEF LoadState, vaultVars, dbVars, historyVars, ReconcileSound, BuiltIsScanned, TakenOverStands, ReadsStand,
        MarkersStand, BuiltStands, Building, Loaded
  <1>6. QED
    BY <1>3, <1>5, ReadingKeepsMInv DEF LoadState, IndexStages

(* What is to be read is decided: nothing at all, when everything stored   *)
(* still has the stamp and the domains it was stored with.                 *)
LEMMA NothingToDoIsFresh ==
  ASSUME StoreSound, NEW p \in Procs, NEW j, j.existing = rows, j.base = state,
         \A d \in Docs \ touched[p] : d \in j.scan <=> d \in DOMAIN files,
         IsCurrent(j.base, topo, j.op = "update"), j.scan \subseteq DOMAIN files,
         ChangedPaths(j.scan, j.existing) = {}, Deleted(j) = {}
  PROVE  Fresh(p)
  <1>1. \A d \in DOMAIN rows : rows[d].domain = topo
    BY DEF StoreSound, DomainsStand, IsCurrent
  <1>2. \A d \in j.scan : d \in DOMAIN rows /\ rows[d].stamp = files[d].stamp
    BY DEF ChangedPaths
  <1>3. \A d \in j.scan : rows[d].text = files[d].text
    BY <1>2 DEF StoreSound, Vouches
  <1>4. DOMAIN rows \subseteq j.scan
    BY DEF Deleted
  <1>5. QED
    BY <1>1, <1>2, <1>3, <1>4 DEF Fresh

LEMMA DecideKeepsMInv ==
  ASSUME OneProcess, MInv, NEW p \in Procs, Decide(p), UNCHANGED plan
  PROVE  MInv'
  <1> DEFINE j == job[p]
             full == j.op = "rebuild" \/ ~IsCurrent(j.base, topo, j.op = "update")
             changed == ChangedPaths(j.scan, j.existing) \union (j.known \intersect j.scan)
             todo == IF full THEN j.scan ELSE changed
             next == [j EXCEPT !.topo = topo, !.full = full, !.todo = todo]
             stage == IF full \/ todo # {} \/ Deleted(j) # {} THEN "reading" ELSE "reconciled"
  <1>1. RecordsHold /\ StoreSound /\ ReconcileSound(p) /\ JobShape(j) /\ IsJob(j)
    BY MInvParts, ShapeOfJob
  <1>2. /\ pc[p] = "decide" /\ UNCHANGED <<vaultVars, dbVars, historyVars>>
        /\ full \/ j.scan \subseteq DOMAIN files
        /\ pc' = [pc EXCEPT ![p] = stage] /\ job' = [job EXCEPT ![p] = next]
    BY DEF Decide, Goto
  <1>3. full \in BOOLEAN
    OBVIOUS
  <1>4. /\ j.existing = rows /\ j.base = state /\ DOMAIN j.built = {} /\ j.reparsed = {}
        /\ \A d \in Docs \ touched[p] : d \in j.scan <=> d \in DOMAIN files
    BY <1>1, <1>2 DEF ReconcileSound, ReadsStand, BuiltIsScanned, Loaded
  <1>5. /\ todo \subseteq j.scan
        /\ \A d \in j.scan \ todo : ~full /\ d \in DOMAIN rows /\ rows[d].stamp = files[d].stamp
    BY <1>4 DEF ChangedPaths
  <1>6. ~full => IsCurrent(j.base, topo, j.op = "update") /\ state # NoState /\ state.topo = topo
    BY <1>4 DEF IsCurrent
  <1>7. stage = "reconciled" => Fresh(p)
    <2>1. SUFFICES ASSUME stage = "reconciled" PROVE Fresh(p)
      OBVIOUS
    <2>2. ~full /\ todo = {} /\ Deleted(j) = {}
      BY <2>1
    <2>3. ChangedPaths(j.scan, j.existing) = {}
      BY <2>2
    <2>4. QED
      BY <1>1, <1>2, <1>4, <1>6, <2>2, <2>3, NothingToDoIsFresh
  <1>8. \A d \in j.scan \ todo : d \in DOMAIN files => rows[d].text = files[d].text
    BY <1>1, <1>5 DEF StoreSound, Vouches
  <1>9. stage \in {"reading", "reconciled"}
    OBVIOUS
  <1> HIDE DEF full, todo, changed, stage
  <1>10. /\ IsJob(next) /\ next.open = j.open /\ next.built = j.built /\ next.reparsed = j.reparsed
         /\ next.scan = j.scan /\ next.existing = j.existing /\ next.base = j.base
         /\ next.topo = topo /\ next.full = full /\ next.todo = todo
    BY <1>1 DEF IsJob, Fields
  <1> HIDE DEF next
  <1>11. Own(p, stage, next) /\ JobShape(next)
    BY <1>1, <1>2, <1>10 DEF Own, JobShape
  <1>12. pc'[p] = stage /\ job'[p] = next
    BY <1>1, <1>11, OwnStep
  <1>13. UNCHANGED <<files, topo, clock, rows, state, touched>>
    BY <1>2 DEF vaultVars, dbVars, historyVars
  <1>14. BuiltIsScanned(p)' /\ TakenOverStands(p)' /\ ReadsStand(p)'
    <2>1. DOMAIN next.built = {} /\ next.reparsed = {} /\ next.todo \subseteq next.scan
      BY <1>4, <1>5, <1>10
    <2>2. BuiltIsScanned(p)'
      BY <1>9, <1>12, <2>1 DEF BuiltIsScanned, Building
    <2>3. TakenOverStands(p)'
      BY <1>12, <2>1 DEF TakenOverStands
    <2>4. ReadsStand(p)'
      BY <1>4, <1>9, <1>10, <1>12, <1>13 DEF ReadsStand
    <2>5. QED
      BY <2>2, <2>3, <2>4
  <1>15. MarkersStand(p)'
    BY <1>1, <1>6, <1>10, <1>12, <1>13 DEF MarkersStand, StoreSound, StampsArePast
  <1>16. BuiltStands(p)'
    BY <1>4, <1>5, <1>8, <1>10, <1>12, <1>13 DEF BuiltStands, Vouches
  <1>17. pc'[p] = "reconciled" => Fresh(p)'
    BY <1>7, <1>12, <1>13 DEF Fresh
  <1>18. ReconcileSound(p)'
    BY <1>14, <1>15, <1>16, <1>17 DEF ReconcileSound
  <1>19. stage \in IndexStages
    BY <1>9 DEF IndexStages
  <1>20. QED
    BY <1>2, <1>11, <1>18, <1>19, ReadingKeepsMInv

----------------------------------------------------------------------------
(* A document is opened and read: nothing else is known by it.             *)
LEMMA OpenIsSound ==
  ASSUME RecordsHold, NEW p \in Procs, ReconcileSound(p), pc[p] \in Building,
         NEW stage \in {"opened", "parsed"}, NEW next, Own(p, stage, next), JobShape(next),
         next.scan = job[p].scan, next.existing = job[p].existing, next.base = job[p].base,
         next.topo = job[p].topo, next.full = job[p].full, next.todo = job[p].todo,
         next.built = job[p].built, next.reparsed = job[p].reparsed,
         next.open.doc \in job[p].scan,
         stage = "parsed" => files[next.open.doc].text = next.open.text,
         UNCHANGED <<vaultVars, dbVars, historyVars>>
  PROVE  ReconcileSound(p)'
  <1>1. pc'[p] = stage /\ job'[p] = next
    BY OwnStep
  <1>2. UNCHANGED <<files, topo, clock, rows, state, touched>>
    BY DEF vaultVars, dbVars, historyVars
  <1>3. BuiltIsScanned(p)'
    BY <1>1 DEF ReconcileSound, BuiltIsScanned, Building
  <1>4. TakenOverStands(p)'
    BY <1>1, <1>2 DEF ReconcileSound, TakenOverStands, Building
  <1>5. ReadsStand(p)'
    BY <1>1, <1>2 DEF ReconcileSound, ReadsStand, Building, Loaded
  <1>6. MarkersStand(p)'
    BY <1>1, <1>2 DEF ReconcileSound, MarkersStand, Building
  <1>7. BuiltStands(p)'
    BY <1>1, <1>2 DEF ReconcileSound, BuiltStands, Building, Vouches
  <1>8. QED
    BY <1>1, <1>3, <1>4, <1>5, <1>6, <1>7 DEF ReconcileSound

LEMMA OpenKeepsMInv ==
  ASSUME OneProcess, MInv, NEW p \in Procs, OpenDoc(p), UNCHANGED plan
  PROVE  MInv'
  <1> DEFINE j == job[p]
             d == CHOOSE x \in job[p].todo : TRUE
             open == [doc |-> d, stamp |-> files[d].stamp, text |-> NoFile.text]
             next == [j EXCEPT !.open = open]
  <1>1. RecordsHold /\ ReconcileSound(p) /\ JobShape(j) /\ IsJob(j)
    BY MInvParts, ShapeOfJob
  <1>2. pc[p] = "reading" /\ UNCHANGED <<vaultVars, dbVars, historyVars>> /\ d \in j.todo
    BY DEF OpenDoc
  <1>3. d \in j.scan
    BY <1>1, <1>2 DEF ReconcileSound, BuiltIsScanned, Building
  <1>4. CASE d \in DOMAIN files
    <2>1. Own(p, "opened", next)
      BY <1>4 DEF OpenDoc, Goto, Own
    <2>2. IsOpen(open) /\ open.doc = d
      BY DEF IsOpen, Fields
    <2> HIDE DEF d, open
    <2>3. /\ IsJob(next) /\ next.open = open /\ next.built = j.built /\ next.reparsed = j.reparsed
          /\ next.scan = j.scan /\ next.existing = j.existing /\ next.base = j.base
          /\ next.topo = j.topo /\ next.full = j.full /\ next.todo = j.todo
      BY <1>1 DEF IsJob, Fields
    <2>4. JobShape(next)
      BY <1>1, <2>2, <2>3 DEF JobShape
    <2> HIDE DEF next
    <2>5. ReconcileSound(p)'
      BY <1>1, <1>2, <1>3, <2>1, <2>2, <2>3, <2>4, OpenIsSound DEF Building
    <2>6. QED
      BY <1>2, <2>1, <2>4, <2>5, ReadingKeepsMInv DEF IndexStages
  <1>5. CASE d \notin DOMAIN files
    BY <1>2, <1>5, IdleKeepsMInv DEF OpenDoc
  <1>6. QED
    BY <1>4, <1>5

LEMMA ReadKeepsMInv ==
  ASSUME OneProcess, MInv, NEW p \in Procs, ReadDoc(p), UNCHANGED plan
  PROVE  MInv'
  <1> DEFINE j == job[p]
             text == files[j.open.doc].text
             open == [j.open EXCEPT !.text = text]
             next == [j EXCEPT !.open = open]
  <1>1. RecordsHold /\ ReconcileSound(p) /\ JobShape(j) /\ IsJob(j) /\ IsOpen(j.open)
    BY MInvParts, ShapeOfJob
  <1>2. pc[p] = "opened" /\ UNCHANGED <<vaultVars, dbVars, historyVars>>
    BY DEF ReadDoc
  <1>3. j.open.doc \in j.scan
    BY <1>1, <1>2 DEF ReconcileSound, BuiltIsScanned
  <1>4. Own(p, "parsed", next)
    BY DEF ReadDoc, Goto, Own
  <1>5. text = files[j.open.doc].text
    OBVIOUS
  <1> HIDE DEF text
  <1>6. IsOpen(open) /\ open.doc = j.open.doc /\ open.text = text
    BY <1>1 DEF IsOpen, Fields
  <1> HIDE DEF open
  <1>7. /\ IsJob(next) /\ next.open = open /\ next.built = j.built /\ next.reparsed = j.reparsed
        /\ next.scan = j.scan /\ next.existing = j.existing /\ next.base = j.base
        /\ next.topo = j.topo /\ next.full = j.full /\ next.todo = j.todo
    BY <1>1 DEF IsJob, Fields
  <1>8. JobShape(next)
    BY <1>1, <1>6, <1>7 DEF JobShape
  <1> HIDE DEF next
  <1>9. ReconcileSound(p)'
    BY <1>1, <1>2, <1>3, <1>4, <1>5, <1>6, <1>7, <1>8, OpenIsSound DEF Building
  <1>10. QED
    BY <1>2, <1>4, <1>8, <1>9, ReadingKeepsMInv DEF IndexStages

(* A row is built for the document that was read: from the document, or,   *)
(* when its content is the one indexed, from the stored row.               *)
LEMMA BuiltIsSound ==
  ASSUME RecordsHold, StoreSound, NEW p \in Procs, ReconcileSound(p), pc[p] \in Building,
         NEW next, NEW d \in DOMAIN files, NEW row, Own(p, "reading", next), JobShape(next),
         d \in job[p].scan, next.scan = job[p].scan, next.existing = job[p].existing,
         next.base = job[p].base, next.topo = job[p].topo, next.full = job[p].full,
         next.todo = job[p].todo \ {d}, next.built = With(d, row, job[p].built),
         row.text = files[d].text, row.stamp = files[d].stamp, job[p].topo = topo => row.domain = topo,
         \/ next.reparsed = job[p].reparsed \union {d}
         \/ /\ next.reparsed = job[p].reparsed /\ ~job[p].full
            /\ d \in DOMAIN rows /\ row.text = rows[d].text,
         UNCHANGED <<vaultVars, dbVars, historyVars>>
  PROVE  ReconcileSound(p)'
  <1> DEFINE j == job[p]
  <1>1. pc'[p] = "reading" /\ job'[p] = next
    BY OwnStep
  <1>2. UNCHANGED <<files, topo, clock, rows, state, touched>>
    BY DEF vaultVars, dbVars, historyVars
  <1>3. /\ DOMAIN next.built = DOMAIN j.built \union {d}
        /\ next.built[d] = row
        /\ \A x \in DOMAIN j.built \ {d} : next.built[x] = j.built[x]
    BY DEF With, Overlay
  <1>4. BuiltIsScanned(p)'
    BY <1>1, <1>3 DEF ReconcileSound, BuiltIsScanned, Building
  <1>5. TakenOverStands(p)'
    <2>1. TakenOverStands(p)
      BY DEF ReconcileSound
    <2>2. CASE next.reparsed = job[p].reparsed \union {d}
      BY <1>1, <1>2, <1>3, <2>1, <2>2 DEF TakenOverStands, Building
    <2>3. CASE /\ next.reparsed = job[p].reparsed /\ ~job[p].full
               /\ d \in DOMAIN rows /\ row.text = rows[d].text
      BY <1>1, <1>2, <1>3, <2>1, <2>3 DEF TakenOverStands, Building
    <2>4. QED
      BY <2>2, <2>3
  <1>6. ReadsStand(p)'
    BY <1>1, <1>2 DEF ReconcileSound, ReadsStand, Building, Loaded
  <1>7. MarkersStand(p)'
    BY <1>1, <1>2 DEF ReconcileSound, MarkersStand, Building
  <1>8. BuiltStands(p)'
    <2>1. BuiltStands(p) /\ files[d].stamp \in 0..clock
      BY DEF ReconcileSound, StoreSound, StampsArePast
    <2>2. Vouches(next.built)
      BY <1>3, <2>1 DEF BuiltStands, Vouches
    <2>3. \A x \in DOMAIN next.built :
            /\ next.built[x].stamp \in 0..clock
            /\ j.topo = topo => next.built[x].domain = topo
            /\ x \in Docs \ touched[p] => next.built[x].text = files[x].text
      BY <1>3, <2>1 DEF BuiltStands
    <2>4. \A x \in (next.scan \ (next.todo \union DOMAIN next.built)) \ touched[p] :
             ~next.full /\ (x \in Docs => x \in DOMAIN rows /\ rows[x].text = files[x].text)
      BY <1>3, <2>1 DEF BuiltStands
    <2>5. QED
      BY <1>1, <1>2, <2>2, <2>3, <2>4 DEF BuiltStands, Vouches
  <1>9. QED
    BY <1>1, <1>4, <1>5, <1>6, <1>7, <1>8 DEF ReconcileSound

LEMMA SameHashKeepsMInv ==
  ASSUME OneProcess, MInv, NEW p \in Procs, ReadSameHash(p), UNCHANGED plan
  PROVE  MInv'
  <1> DEFINE j == job[p]
             d == j.open.doc
             row == [rows[d] EXCEPT !.stamp = j.open.stamp]
             built == With(d, row, j.built)
             next == [j EXCEPT !.built = built, !.todo = j.todo \ {d}, !.open = NoFile]
  <1>1. RecordsHold /\ StoreSound /\ ReconcileSound(p) /\ JobShape(j) /\ IsJob(j)
    BY MInvParts, ShapeOfJob
  <1>2. /\ pc[p] = "opened" /\ UNCHANGED <<vaultVars, dbVars, historyVars>> /\ ~j.full
        /\ d \in DOMAIN files /\ d \in DOMAIN rows /\ files[d].stamp = j.open.stamp
        /\ files[d].text = j.existing[d].text
    BY DEF ReadSameHash, Unmoved, Rehashed
  <1>3. d \in j.scan /\ j.existing = rows
    BY <1>1, <1>2 DEF ReconcileSound, BuiltIsScanned, ReadsStand, Loaded
  <1>4. Own(p, "reading", next)
    BY DEF ReadSameHash, Goto, Own, With
  <1>5. /\ IsRow(row) /\ row.text = rows[d].text /\ row.stamp = files[d].stamp
        /\ row.domain = rows[d].domain
    BY <1>1, <1>2 DEF RecordsHold, IsRow, Fields
  <1>6. j.topo = topo => row.domain = topo
    BY <1>1, <1>2, <1>5 DEF ReconcileSound, MarkersStand, Building, StoreSound, DomainsStand
  <1> HIDE DEF row, d, built
  <1>7. /\ IsJob(next) /\ next.open = NoFile /\ next.built = built /\ next.reparsed = j.reparsed
        /\ next.scan = j.scan /\ next.existing = j.existing /\ next.base = j.base
        /\ next.topo = j.topo /\ next.full = j.full /\ next.todo = j.todo \ {d}
    BY <1>1 DEF IsJob, Fields
  <1> HIDE DEF next
  <1>8. JobShape(next)
    BY <1>1, <1>5, <1>7, BuiltShape DEF built
  <1>9. row.text = files[d].text
    BY <1>2, <1>3, <1>5
  <1>10. ReconcileSound(p)'
    BY <1>1, <1>2, <1>3, <1>4, <1>5, <1>6, <1>7, <1>8, <1>9, BuiltIsSound DEF built, Building
  <1>11. QED
    BY <1>2, <1>4, <1>8, <1>10, ReadingKeepsMInv DEF IndexStages

LEMMA RecordKeepsMInv ==
  ASSUME OneProcess, MInv, NEW p \in Procs, RecordDoc(p), UNCHANGED plan
  PROVE  MInv'
  <1> DEFINE j == job[p]
             d == j.open.doc
             row == [text |-> j.open.text, stamp |-> files[d].stamp, domain |-> topo]
             built == With(d, row, j.built)
             next == [j EXCEPT !.built = built, !.reparsed = j.reparsed \union {d},
                               !.todo = j.todo \ {d}, !.open = NoFile]
  <1>1. RecordsHold /\ StoreSound /\ ReconcileSound(p) /\ JobShape(j) /\ IsJob(j)
    BY MInvParts, ShapeOfJob
  <1>2. pc[p] = "parsed" /\ UNCHANGED <<vaultVars, dbVars, historyVars>>
    BY DEF RecordDoc
  <1>3. d \in j.scan /\ (d \in DOMAIN files => files[d].text = j.open.text)
    BY <1>1, <1>2 DEF ReconcileSound, BuiltIsScanned, ReadsStand
  <1>4. CASE d \in DOMAIN files
    <2>1. Own(p, "reading", next)
      BY <1>4 DEF RecordDoc, Goto, Own, With
    <2>2. IsRow(row) /\ row.text = files[d].text /\ row.stamp = files[d].stamp /\ row.domain = topo
      BY <1>3, <1>4 DEF IsRow, Fields
    <2> HIDE DEF row, d, built
    <2>3. /\ IsJob(next) /\ next.open = NoFile /\ next.built = built
          /\ next.reparsed = j.reparsed \union {d}
          /\ next.scan = j.scan /\ next.existing = j.existing /\ next.base = j.base
          /\ next.topo = j.topo /\ next.full = j.full /\ next.todo = j.todo \ {d}
      BY <1>1 DEF IsJob, Fields
    <2> HIDE DEF next
    <2>4. JobShape(next)
      BY <1>1, <2>2, <2>3, BuiltShape DEF built
    <2>5. ReconcileSound(p)'
      BY <1>1, <1>2, <1>3, <1>4, <2>1, <2>2, <2>3, <2>4, BuiltIsSound DEF built, Building
    <2>6. QED
      BY <1>2, <2>1, <2>4, <2>5, ReadingKeepsMInv DEF IndexStages
  <1>5. CASE d \notin DOMAIN files
    BY <1>2, <1>5, IdleKeepsMInv DEF RecordDoc
  <1>6. QED
    BY <1>4, <1>5

LEMMA EndKeepsMInv ==
  ASSUME OneProcess, MInv, NEW p \in Procs,
         StatRaises(p) \/ ReadRaises(p) \/ CommitRefused(p) \/ Finish(p), UNCHANGED plan
  PROVE  MInv'
  BY IdleKeepsMInv DEF StatRaises, ReadRaises, CommitRefused, Finish

(* The answer is as fresh as the index it is made from.                    *)
LEMMA QueryKeepsMInv ==
  ASSUME OneProcess, MInv, NEW p \in Procs, Query(p), UNCHANGED plan
  PROVE  MInv'
  <1>1. RecordsHold /\ StoreSound /\ PlanSound(p) /\ ReconcileSound(p)
    BY MInvParts DEF MoveSound
  <1>2. /\ Own(p, "answered", NoJob) /\ JobShape(NoJob) /\ pc[p] = "reconciled"
        /\ UNCHANGED <<vaultVars, dbVars, touched>>
    BY NoJobFacts DEF Query, Goto, Own
  <1>3. pc'[p] = "answered" /\ JobsAreRecords'
    BY <1>1, <1>2, OwnStep
  <1>4. /\ answer'[p] = [d \in Queryable(rows) |-> rows[d]]
        /\ answer' = [q \in Procs |-> answer'[q]]
    BY <1>1 DEF Query, RecordsHold
  <1>5. RecordsHold'
    BY <1>1, <1>2, <1>3, <1>4 DEF RecordsHold, vaultVars, dbVars, IsRow, IsState, IsPlan, Fields
  <1>6. /\ DOMAIN answer'[p] = {d \in DOMAIN rows : ~rows[d].text.moc}
        /\ \A d \in DOMAIN answer'[p] : answer'[p][d] = rows[d]
    BY <1>4 DEF Queryable
  <1>7. Fresh(p) /\ UNCHANGED <<files, topo, touched>>
    BY <1>1, <1>2 DEF ReconcileSound, vaultVars
  <1>8. AnswerStands(p)'
    BY <1>6, <1>7 DEF Fresh, AnswerStands
  <1>9. PlanSound(p)'
    BY <1>1, SamePlanSound
  <1>10. MoveSound(p)' /\ NoneLeft(p)' /\ ReconcileSound(p)'
    BY <1>3, <1>9, NotMoving, NotReconciling DEF MoverStages, Prepared, IndexStages
  <1>11. QED
    BY <1>1, <1>2, <1>5, <1>8, <1>10, SameStore, MInvFromParts

----------------------------------------------------------------------------
(* A commit leaves the references that a full build from the same rows     *)
(* would have left.                                                        *)
Ref(s, t, candidates) ==
  [src |-> s, dst |-> t,
   res |-> IF t = s THEN "self" ELSE IF t \in candidates THEN "resolved" ELSE "missing"]

LEMMA EdgesOfAreRefs ==
  ASSUME NEW d, NEW text, NEW candidates
  PROVE  EdgesOf(d, text, candidates) = {Ref(d, t, candidates) : t \in LinksOf(text)}
  BY DEF EdgesOf, LinksOf, Ref

LEMMA AllEdgesAreRefs ==
  ASSUME NEW table, NEW S, NEW e
  PROVE  e \in AllEdges(table, S) <=>
           \E d \in S : \E t \in LinksOf(table[d].text) : e = Ref(d, t, Queryable(table))
  <1> DEFINE of(d) == EdgesOf(d, table[d].text, Queryable(table))
  <1>1. AllEdges(table, S) = UNION {of(d) : d \in S}
    BY DEF AllEdges
  <1>2. \A d : of(d) = {Ref(d, t, Queryable(table)) : t \in LinksOf(table[d].text)}
    BY EdgesOfAreRefs
  <1> HIDE DEF of
  <1>3. QED
    BY <1>1, <1>2

LEMMA NewEdgesAreRefs ==
  ASSUME NEW j, NEW e
  PROVE  e \in NewEdges(j) <=>
           \E d \in j.reparsed : \E t \in LinksOf(j.built[d].text) : e = Ref(d, t, Queryable(Records(j)))
  <1> DEFINE of(d) == EdgesOf(d, j.built[d].text, Queryable(Records(j)))
  <1>1. NewEdges(j) = UNION {of(d) : d \in j.reparsed}
    BY DEF NewEdges
  <1>2. \A d : of(d) = {Ref(d, t, Queryable(Records(j))) : t \in LinksOf(j.built[d].text)}
    BY EdgesOfAreRefs
  <1> HIDE DEF of
  <1>3. QED
    BY <1>1, <1>2

LEMMA RecordsOfDelta ==
  ASSUME NEW j, ~j.full, j.existing = rows
  PROVE  /\ DOMAIN Records(j) = DOMAIN j.built \union (DOMAIN rows \ Deleted(j))
         /\ \A d \in DOMAIN j.built : Records(j)[d] = j.built[d]
         /\ \A d \in (DOMAIN rows \ Deleted(j)) \ DOMAIN j.built : Records(j)[d] = rows[d]
  BY DEF Records, Overlay, Without

LEMMA KeptEdgesAreRefs ==
  ASSUME EdgesMatchRows, NEW j, ~j.full, j.existing = rows, NEW e
  PROVE  e \in KeptEdges(j) <=>
           \E d \in DOMAIN rows \ (j.reparsed \union Deleted(j)) :
             \E t \in LinksOf(rows[d].text) : e = Ref(d, t, Queryable(Records(j)))
  <1> DEFINE now == Queryable(Records(j))
             affected == DOMAIN j.built \union Deleted(j)
             verdict(t) == IF t \in now THEN "resolved" ELSE "missing"
             kept(x) == IF x.dst \in affected /\ x.res # "self" THEN [x EXCEPT !.res = verdict(x.dst)] ELSE x
             gone == j.reparsed \union Deleted(j)
  <1>1. KeptEdges(j) = {kept(x) : x \in {y \in edges : y.src \notin gone}}
    BY DEF KeptEdges
  <1>2. \A x : x \in edges <=>
          \E d \in DOMAIN rows : \E t \in LinksOf(rows[d].text) : x = Ref(d, t, Queryable(rows))
    BY AllEdgesAreRefs DEF EdgesMatchRows
  <1>3. \A d, t : Ref(d, t, Queryable(rows)).src = d
    BY DEF Ref
  <1>4. ASSUME NEW d, NEW t PROVE kept(Ref(d, t, Queryable(rows))) = Ref(d, t, now)
    <2>1. t \notin affected => (t \in Queryable(rows) <=> t \in now)
      BY RecordsOfDelta DEF Queryable
    <2> HIDE DEF affected, now
    <2>2. QED
      BY <2>1 DEF Ref
  <1> HIDE DEF kept, now, gone
  <1>5. e \in KeptEdges(j) <=>
          \E d \in DOMAIN rows \ gone : \E t \in LinksOf(rows[d].text) : e = kept(Ref(d, t, Queryable(rows)))
    BY <1>1, <1>2, <1>3
  <1>6. QED
    BY <1>4, <1>5 DEF now, gone

LEMMA CommittedRefs ==
  ASSUME EdgesMatchRows, NEW j, j.existing = rows,
         DOMAIN j.built \subseteq j.scan, j.reparsed \subseteq DOMAIN j.built,
         j.full => j.reparsed = DOMAIN j.built,
         ~j.full => \A d \in DOMAIN j.built \ j.reparsed : d \in DOMAIN rows /\ j.built[d].text = rows[d].text
  PROVE  NewEdges(j) \union (IF j.full THEN {} ELSE KeptEdges(j)) = AllEdges(Records(j), DOMAIN Records(j))
  <1> DEFINE now == Queryable(Records(j))
  <1>1. \A e : e \in AllEdges(Records(j), DOMAIN Records(j)) <=>
          \E d \in DOMAIN Records(j) : \E t \in LinksOf(Records(j)[d].text) : e = Ref(d, t, now)
    BY AllEdgesAreRefs
  <1>2. \A e : e \in NewEdges(j) <=>
          \E d \in j.reparsed : \E t \in LinksOf(j.built[d].text) : e = Ref(d, t, now)
    BY NewEdgesAreRefs
  <1>3. CASE j.full
    <2>1. Records(j) = j.built
      BY <1>3 DEF Records
    <2> HIDE DEF now
    <2>2. \A e : e \in NewEdges(j) <=> e \in AllEdges(Records(j), DOMAIN Records(j))
      BY <1>1, <1>2, <1>3, <2>1
    <2>3. NewEdges(j) = AllEdges(Records(j), DOMAIN Records(j))
      BY <2>2
    <2>4. QED
      BY <1>3, <2>3
  <1>4. CASE ~j.full
    <2>1. \A e : e \in KeptEdges(j) <=>
            \E d \in DOMAIN rows \ (j.reparsed \union Deleted(j)) :
              \E t \in LinksOf(rows[d].text) : e = Ref(d, t, now)
      BY <1>4, KeptEdgesAreRefs
    <2>2. /\ DOMAIN Records(j) = j.reparsed \union (DOMAIN rows \ (j.reparsed \union Deleted(j)))
          /\ \A d \in j.reparsed : Records(j)[d].text = j.built[d].text
          /\ \A d \in DOMAIN rows \ (j.reparsed \union Deleted(j)) : Records(j)[d].text = rows[d].text
      <3>1. DOMAIN j.built \intersect Deleted(j) = {}
        BY DEF Deleted
      <3>2. QED
        BY <1>4, <3>1, RecordsOfDelta
    <2> HIDE DEF now
    <2>3. ASSUME NEW e \in NewEdges(j) \union KeptEdges(j)
          PROVE  e \in AllEdges(Records(j), DOMAIN Records(j))
      <3>1. CASE e \in NewEdges(j)
        <4>1. PICK d \in j.reparsed : \E t \in LinksOf(j.built[d].text) : e = Ref(d, t, now)
          BY <1>2, <3>1
        <4>2. QED
          BY <1>1, <2>2, <4>1
      <3>2. CASE e \in KeptEdges(j)
        <4>1. PICK d \in DOMAIN rows \ (j.reparsed \union Deleted(j)) :
                \E t \in LinksOf(rows[d].text) : e = Ref(d, t, now)
          BY <2>1, <3>2
        <4>2. QED
          BY <1>1, <2>2, <4>1
      <3>3. QED
        BY <3>1, <3>2
    <2>4. ASSUME NEW e \in AllEdges(Records(j), DOMAIN Records(j))
          PROVE  e \in NewEdges(j) \union KeptEdges(j)
      <3>1. PICK d \in DOMAIN Records(j) : \E t \in LinksOf(Records(j)[d].text) : e = Ref(d, t, now)
        BY <1>1
      <3>2. CASE d \in j.reparsed
        BY <1>2, <2>2, <3>1, <3>2
      <3>3. CASE d \notin j.reparsed
        <4>1. d \in DOMAIN rows \ (j.reparsed \union Deleted(j)) /\ Records(j)[d].text = rows[d].text
          BY <2>2, <3>3
        <4>2. QED
          BY <2>1, <3>1, <4>1
      <3>4. QED
        BY <3>2, <3>3
    <2>5. QED
      BY <1>4, <2>3, <2>4
  <1>5. QED
    BY <1>3, <1>4

LEMMA CommitKeepsMInv ==
  ASSUME OneProcess, MInv, NEW p \in Procs, Commit(p), UNCHANGED plan
  PROVE  MInv'
  <1> DEFINE j == job[p]
  <1>1. RecordsHold /\ StoreSound /\ PlanSound(p) /\ ReconcileSound(p) /\ JobShape(j)
    BY MInvParts, ShapeOfJob DEF MoveSound
  <1>2. /\ pc[p] = "reading" /\ UNCHANGED <<vaultVars, job, historyVars>> /\ j.todo = {}
        /\ pc' = [pc EXCEPT ![p] = "reconciled"]
    BY DEF Commit, Goto
  <1>3. /\ j.existing = rows /\ DOMAIN j.built \subseteq j.scan /\ j.reparsed \subseteq DOMAIN j.built
        /\ j.full => j.reparsed = DOMAIN j.built
        /\ j.base = state
    BY <1>1, <1>2 DEF ReconcileSound, ReadsStand, BuiltIsScanned, TakenOverStands, Loaded, Building
  <1>4. ~j.full => \A d \in DOMAIN j.built \ j.reparsed : d \in DOMAIN rows /\ j.built[d].text = rows[d].text
    BY <1>1, <1>2, <1>3 DEF ReconcileSound, TakenOverStands, Building
  <1>5. /\ rows' = Records(j)
        /\ edges' = NewEdges(j) \union (IF j.full THEN {} ELSE KeptEdges(j))
    BY <1>3 DEF Commit, Records
  <1>6. EdgesMatchRows'
    BY <1>1, <1>3, <1>4, <1>5, CommittedRefs DEF EdgesMatchRows, StoreSound, AllEdges, Queryable, EdgesOf
  <1>7. /\ IsState(state') /\ state'.topo = j.topo /\ state' # NoState
    <2>1. state' = [gen |-> NextGeneration(j), status |-> "ready", topo |-> j.topo]
      BY DEF Commit
    <2>2. state'.status = "ready" /\ NoState.status = "none"
      BY <2>1 DEF NoState
    <2>3. QED
      BY <2>1, <2>2 DEF IsState, Fields
  <1>8. /\ j.full => DOMAIN rows' = DOMAIN j.built
        /\ ~j.full => DOMAIN rows' = DOMAIN j.built \union (DOMAIN rows \ Deleted(j))
        /\ \A d \in DOMAIN j.built : rows'[d] = j.built[d]
        /\ \A d \in DOMAIN rows' \ DOMAIN j.built : ~j.full /\ d \in DOMAIN rows \ Deleted(j) /\ rows'[d] = rows[d]
    <2>1. CASE j.full
      BY <1>5, <2>1 DEF Records
    <2>2. CASE ~j.full
      BY <1>3, <1>5, <2>2, RecordsOfDelta
    <2>3. QED
      BY <2>1, <2>2
  <1>9. UNCHANGED <<files, topo, clock, touched, answer>>
    BY <1>2 DEF vaultVars, historyVars
  <1>10. MarkersStand(p) /\ BuiltStands(p) /\ pc[p] \in Building
    BY <1>1, <1>2 DEF ReconcileSound, Building
  <1>11. StampsArePast'
    <2>1. \A d \in DOMAIN rows' : rows'[d].stamp \in 0..clock
      BY <1>1, <1>8, <1>10 DEF BuiltStands, StoreSound, StampsArePast
    <2>2. QED
      BY <1>1, <1>7, <1>9, <1>10, <2>1 DEF StoreSound, StampsArePast, MarkersStand
  <1>12. Vouches(rows)'
    BY <1>1, <1>8, <1>9, <1>10 DEF StoreSound, Vouches, BuiltStands
  <1>13. j.topo = topo => \A d \in DOMAIN rows' : rows'[d].domain = topo
    BY <1>1, <1>8, <1>10 DEF StoreSound, DomainsStand, BuiltStands, MarkersStand
  <1>14. DomainsStand'
    BY <1>7, <1>9, <1>13 DEF DomainsStand
  <1>15. Fresh(p)'
    <2>1. SUFFICES ASSUME NEW d \in Docs \ touched[p]
                   PROVE  /\ d \in DOMAIN rows' <=> d \in DOMAIN files
                          /\ d \in DOMAIN rows' => rows'[d].text = files[d].text /\ rows'[d].domain = topo
      BY <1>9 DEF Fresh
    <2>2. j.topo = topo
      BY <1>10 DEF MarkersStand
    <2>3. d \in j.scan <=> d \in DOMAIN files
      BY <1>1, <1>2 DEF ReconcileSound, ReadsStand, Loaded
    <2>4. d \in DOMAIN j.built => j.built[d].text = files[d].text
      BY <1>10 DEF BuiltStands
    <2>5. d \in j.scan \ DOMAIN j.built => ~j.full /\ d \in DOMAIN rows /\ rows[d].text = files[d].text
      BY <1>2, <1>10 DEF BuiltStands
    <2>6. d \in DOMAIN rows' <=> d \in j.scan
      BY <1>3, <1>8, <2>5 DEF Deleted
    <2>7. QED
      BY <1>8, <1>13, <2>2, <2>3, <2>4, <2>5, <2>6
  <1>16. pc'[p] = "reconciled" /\ \A q \in Procs : q = p
    BY <1>1, <1>2 DEF OneProcess, RecordsHold, JobsAreRecords
  <1>17. RecordsHold'
    <2>1. \A d \in DOMAIN rows' : IsRow(rows'[d])
      BY <1>1, <1>8 DEF JobShape, RecordsHold
    <2>2. JobsAreRecords'
      BY <1>1, <1>2 DEF RecordsHold, JobsAreRecords
    <2>3. QED
      BY <1>1, <1>7, <1>9, <2>1, <2>2 DEF RecordsHold, IsRow, IsState, IsPlan, Fields
  <1>18. ReconcileSound(p)'
    BY <1>15, <1>16 DEF ReconcileSound, BuiltIsScanned, TakenOverStands, ReadsStand, MarkersStand, BuiltStands,
                        Building, Loaded
  <1>19. MoveSound(p)' /\ NoneLeft(p)' /\ AnswerStands(p)'
    <2>1. PlanSound(p)'
      BY <1>1, SamePlanSound
    <2>2. QED
      BY <1>16, <2>1, NotMoving DEF MoverStages, Prepared, AnswerStands
  <1>20. QED
    BY <1>6, <1>11, <1>12, <1>14, <1>17, <1>18, <1>19, MInvFromParts DEF StoreSound

----------------------------------------------------------------------------
(* Someone else changes the document d, which nobody is just indexing.     *)
Changed(d) ==
  /\ \A x : x # d => /\ x \in DOMAIN files' <=> x \in DOMAIN files
                     /\ x \in DOMAIN files => files'[x] = files[x]
  /\ d \in DOMAIN files' => files'[d].stamp = clock + 1 /\ files'[d].text \in Contents
  /\ d \in DOMAIN files' => \A p \in Procs : ~(pc[p] = "parsed" /\ job[p].open.doc = d)
  /\ clock' = clock + 1
  /\ touched' = [p \in Procs |-> touched[p] \union {d}]
  /\ UNCHANGED <<topo, dbVars, pc, job, answer, plan>>

LEMMA ChangedStore ==
  ASSUME StoreSound, NEW d, Changed(d)
  PROVE  StoreSound'
  <1>1. clock \in Nat /\ clock' = clock + 1 /\ UNCHANGED <<topo, rows, edges, state>>
    BY DEF StoreSound, StampsArePast, Changed, dbVars
  <1>2. StampsArePast'
    <2>1. \A x \in DOMAIN files' : files'[x].stamp \in 0..clock'
      BY <1>1 DEF Changed, StoreSound, StampsArePast
    <2>2. QED
      BY <1>1, <2>1 DEF StoreSound, StampsArePast
  <1>3. Vouches(rows)'
    BY <1>1 DEF Changed, StoreSound, StampsArePast, Vouches
  <1>4. DomainsStand' /\ EdgesMatchRows'
    BY <1>1 DEF StoreSound, DomainsStand, EdgesMatchRows, AllEdges, Queryable, EdgesOf
  <1>5. QED
    BY <1>2, <1>3, <1>4 DEF StoreSound

LEMMA ChangedRecords ==
  ASSUME RecordsHold, NEW d, Changed(d)
  PROVE  RecordsHold'
  <1>1. UNCHANGED <<rows, state, pc, job, answer, plan>>
    BY DEF Changed, dbVars
  <1>2. \A x \in DOMAIN files' : files'[x].text \in Contents
    BY DEF Changed, RecordsHold
  <1>3. touched' = [p \in Procs |-> touched'[p]]
    BY DEF Changed
  <1>4. JobsAreRecords'
    BY <1>1 DEF RecordsHold, JobsAreRecords
  <1>5. QED
    BY <1>1, <1>2, <1>3, <1>4 DEF RecordsHold, IsRow, IsState, IsPlan, Fields

LEMMA ChangedReconcile ==
  ASSUME StoreSound, NEW p \in Procs, ReconcileSound(p), NEW d, Changed(d)
  PROVE  ReconcileSound(p)'
  <1> DEFINE j == job[p]
  <1>1. UNCHANGED <<topo, rows, state, pc, job>> /\ touched'[p] = touched[p] \union {d}
    BY DEF Changed, dbVars
  <1>2. clock \in Nat /\ clock' = clock + 1
    BY DEF Changed, StoreSound, StampsArePast
  <1>3. \A x \in Docs \ touched'[p] :
          /\ x \in Docs \ touched[p] /\ (x \in DOMAIN files' <=> x \in DOMAIN files)
          /\ x \in DOMAIN files => files'[x] = files[x]
    BY <1>1 DEF Changed
  <1>4. BuiltIsScanned(p)' /\ TakenOverStands(p)'
    BY <1>1 DEF ReconcileSound, BuiltIsScanned, TakenOverStands
  <1>5. ReadsStand(p)'
    <2>1. pc[p] = "parsed" /\ j.open.doc \in DOMAIN files' => files'[j.open.doc].text = j.open.text
      BY DEF Changed, ReconcileSound, ReadsStand
    <2>2. QED
      BY <1>1, <1>3, <2>1 DEF ReconcileSound, ReadsStand
  <1>6. MarkersStand(p)'
    BY <1>1, <1>2, <1>3 DEF ReconcileSound, MarkersStand
  <1>7. BuiltStands(p)'
    <2>1. SUFFICES ASSUME pc[p] \in Building PROVE BuiltStands(p)'
      BY <1>1 DEF BuiltStands
    <2>2. BuiltStands(p) /\ DOMAIN j.built \subseteq j.scan
      BY <2>1 DEF ReconcileSound, BuiltIsScanned
    <2>3. \A x \in Docs \ touched[p] : x \in j.scan => x \in DOMAIN files
      BY <2>1 DEF ReconcileSound, ReadsStand, Building, Loaded
    <2>4. \A x \in DOMAIN j.built \intersect DOMAIN files' :
            j.built[x].stamp = files'[x].stamp => j.built[x].text = files'[x].text
      <3>1. SUFFICES ASSUME NEW x \in DOMAIN j.built \intersect DOMAIN files',
                            j.built[x].stamp = files'[x].stamp
                     PROVE  j.built[x].text = files'[x].text
        OBVIOUS
      <3>2. j.built[x].stamp \in 0..clock
        BY <2>1, <2>2 DEF BuiltStands
      <3>3. x # d
        BY <1>2, <3>1, <3>2 DEF Changed
      <3>4. QED
        BY <2>1, <2>2, <3>1, <3>3 DEF Changed, BuiltStands, Vouches
    <2>5. \A x \in DOMAIN j.built :
            /\ j.built[x].stamp \in 0..clock'
            /\ j.topo = topo => j.built[x].domain = topo
            /\ x \in Docs \ touched'[p] => j.built[x].text = files'[x].text
      BY <1>2, <1>3, <2>1, <2>2, <2>3 DEF BuiltStands
    <2>6. \A x \in (j.scan \ (j.todo \union DOMAIN j.built)) \ touched'[p] :
             ~j.full /\ (x \in Docs => x \in DOMAIN rows /\ rows[x].text = files'[x].text)
      BY <1>1, <1>3, <2>1, <2>2, <2>3 DEF BuiltStands
    <2>7. QED
      BY <1>1, <2>4, <2>5, <2>6 DEF BuiltStands, Vouches
  <1>8. pc'[p] = "reconciled" => Fresh(p)'
    BY <1>1, <1>3 DEF ReconcileSound, Fresh
  <1>9. QED
    BY <1>4, <1>5, <1>6, <1>7, <1>8 DEF ReconcileSound

LEMMA ChangedMove ==
  ASSUME StoreSound, NEW p \in Procs, MoveSound(p), AnswerStands(p), NoneLeft(p), NEW d, Changed(d)
  PROVE  MoveSound(p)' /\ AnswerStands(p)' /\ NoneLeft(p)'
  <1>1. /\ UNCHANGED <<topo, rows, edges, state, pc, job, answer, plan>>
        /\ touched'[p] = touched[p] \union {d}
    BY DEF Changed, dbVars
  <1>2. clock \in Nat /\ \A x \in DOMAIN rows : rows[x].stamp \in 0..clock
    BY DEF StoreSound, StampsArePast
  <1>3. \A x : x \notin touched'[p] =>
          /\ x \notin touched[p] /\ (x \in DOMAIN files' <=> x \in DOMAIN files)
          /\ x \in DOMAIN files => files'[x] = files[x]
    BY <1>1 DEF Changed
  <1>4. PlanSound(p)' /\ ReferrersKnown(p)'
    BY <1>1 DEF MoveSound, PlanSound, ReferrersKnown, ReferringTo
  <1>5. FoundStands(p)'
    <2>1. pc[p] = "compared" =>
             \A x \in DOMAIN plan[p].found \intersect DOMAIN files' \intersect DOMAIN rows :
               rows[x].stamp = files'[x].stamp => files'[x].text = plan[p].found[x]
      <3>1. SUFFICES ASSUME pc[p] = "compared",
                            NEW x \in DOMAIN plan[p].found \intersect DOMAIN files' \intersect DOMAIN rows,
                            rows[x].stamp = files'[x].stamp
                     PROVE  files'[x].text = plan[p].found[x]
        OBVIOUS
      <3>2. x # d
        BY <1>2, <3>1 DEF Changed
      <3>3. QED
        BY <3>1, <3>2 DEF Changed, MoveSound, FoundStands
    <2>2. QED
      BY <1>1, <1>3, <2>1 DEF MoveSound, FoundStands
  <1>6. AnswerStands(p)'
    BY <1>1, <1>3 DEF AnswerStands
  <1>7. NoneLeft(p)'
    BY <1>1, <1>3 DEF NoneLeft, Queryable
  <1>8. QED
    BY <1>4, <1>5, <1>6, <1>7 DEF MoveSound

LEMMA ChangedKeepsMInv ==
  ASSUME MInv, NEW d, Changed(d)
  PROVE  MInv'
  <1>1. RecordsHold' /\ StoreSound'
    BY MInvParts, ChangedRecords, ChangedStore
  <1>2. ASSUME NEW p \in Procs
        PROVE  ReconcileSound(p)' /\ MoveSound(p)' /\ AnswerStands(p)' /\ NoneLeft(p)'
    BY MInvParts, ChangedReconcile, ChangedMove
  <1>3. QueryFresh' /\ NoReferenceLeftBehind'
    BY <1>2 DEF QueryFresh, NoReferenceLeftBehind, AnswerStands, NoneLeft
  <1>4. QED
    BY <1>1, <1>2, <1>3 DEF MInv, StoreSound

LEMMA MarkersKeepMInv ==
  ASSUME MInv, EditMarkers, UNCHANGED plan
  PROVE  MInv'
  <1>1. /\ RecordsHold /\ StoreSound
        /\ UNCHANGED <<files, rows, edges, state, pc, job, answer, plan>>
        /\ clock \in Nat /\ clock' = clock + 1 /\ topo' = clock + 1
        /\ touched' = [p \in Procs |-> touched[p] \union Docs]
    BY MInvParts DEF EditMarkers, Touch, dbVars, StoreSound, StampsArePast
  <1>2. RecordsHold'
    <2>1. touched' = [p \in Procs |-> touched'[p]] /\ JobsAreRecords'
      BY <1>1 DEF RecordsHold, JobsAreRecords
    <2>2. QED
      BY <1>1, <2>1 DEF RecordsHold, IsRow, IsState, IsPlan, Fields
  <1>3. StoreSound'
    BY <1>1 DEF StoreSound, StampsArePast, Vouches, DomainsStand, EdgesMatchRows, AllEdges, Queryable, EdgesOf
  <1>4. ASSUME NEW p \in Procs
        PROVE  ReconcileSound(p)' /\ MoveSound(p)' /\ AnswerStands(p)' /\ NoneLeft(p)'
    <2>1. touched'[p] = touched[p] \union Docs
      BY <1>1
    <2>2. ReconcileSound(p) /\ MoveSound(p) /\ AnswerStands(p) /\ NoneLeft(p)
      BY MInvParts
    <2>3. BuiltIsScanned(p)' /\ TakenOverStands(p)' /\ ReadsStand(p)' /\ MarkersStand(p)'
      BY <1>1, <2>1, <2>2 DEF ReconcileSound, BuiltIsScanned, TakenOverStands, ReadsStand, MarkersStand
    <2>4. BuiltStands(p)'
      <3>1. SUFFICES ASSUME pc[p] \in Building PROVE BuiltStands(p)'
        BY <1>1 DEF BuiltStands
      <3>2. job[p].topo # topo' /\ BuiltStands(p)
        BY <1>1, <2>2, <3>1 DEF ReconcileSound, MarkersStand
      <3>3. \A x \in DOMAIN job[p].built : job[p].built[x].stamp \in 0..clock'
        BY <1>1, <3>1, <3>2 DEF BuiltStands
      <3>4. QED
        BY <1>1, <2>1, <3>1, <3>2, <3>3 DEF BuiltStands, Vouches
    <2>5. ReconcileSound(p)'
      BY <1>1, <2>1, <2>3, <2>4 DEF ReconcileSound, Fresh
    <2>6. MoveSound(p)' /\ AnswerStands(p)' /\ NoneLeft(p)'
      BY <1>1, <2>1, <2>2
      DEF MoveSound, PlanSound, ReferrersKnown, ReferringTo, FoundStands, AnswerStands, NoneLeft, Queryable
    <2>7. QED
      BY <2>5, <2>6
  <1>5. QueryFresh' /\ NoReferenceLeftBehind'
    BY <1>4 DEF QueryFresh, NoReferenceLeftBehind, AnswerStands, NoneLeft
  <1>6. QED
    BY <1>2, <1>3, <1>4, <1>5 DEF MInv, StoreSound

LEMMA EditKeepsMInv ==
  ASSUME EditorWaits, MInv, MEdit
  PROVE  MInv'
  <1>1. ASSUME NEW s \in Saves, Save(s.doc, s.text), UNCHANGED plan
        PROVE  MInv'
    <2> DEFINE new == [text |-> s.text, stamp |-> clock + 1]
    <2>1. s.text \in Contents
      BY InputsAssumption
    <2>2. files' = Overlay([x \in {s.doc} |-> new], files)
      BY <1>1 DEF Save
    <2>3. new.stamp = clock + 1 /\ new.text = s.text
      OBVIOUS
    <2> HIDE DEF new
    <2>4. /\ DOMAIN files' = DOMAIN files \union {s.doc}
          /\ files'[s.doc] = new /\ \A x \in DOMAIN files \ {s.doc} : files'[x] = files[x]
      BY <2>2 DEF Overlay
    <2>5. Changed(s.doc)
      BY <1>1, <2>1, <2>3, <2>4 DEF Changed, Save, Touch, Undisturbed
    <2>6. QED
      BY <2>5, ChangedKeepsMInv
  <1>2. ASSUME NEW d \in Removals, Remove(d), UNCHANGED plan
        PROVE  MInv'
    <2>1. /\ DOMAIN files' = DOMAIN files \ {d}
          /\ \A x \in DOMAIN files \ {d} : files'[x] = files[x]
      BY <1>2 DEF Remove, Without
    <2>2. Changed(d)
      BY <1>2, <2>1 DEF Changed, Remove, Touch
    <2>3. QED
      BY <2>2, ChangedKeepsMInv
  <1>3. QED
    BY <1>1, <1>2, MarkersKeepMInv DEF MEdit

----------------------------------------------------------------------------
(* The steps of a relocation before its files are written                  *)
PlanSoundNow(pl) ==
  /\ pl.text \in Contents /\ \A d \in DOMAIN pl.found : pl.found[d] \in Contents
  /\ pl.kind = "move" => /\ pl.source # pl.target /\ pl.target \in Docs
                         /\ pl.source \in DOMAIN pl.found

LEMMA PlannedKeepsMInv ==
  ASSUME OneProcess, MInv, NEW p \in Procs, Begin(p, "plan", {}), NEW pl, IsPlan(pl), PlanSoundNow(pl),
         plan' = [plan EXCEPT ![p] = pl]
  PROVE  MInv'
  <1>1. plan'[p] = pl /\ plan' = [q \in Procs |-> plan'[q]]
    BY MInvParts DEF RecordsHold
  <1>2. PlanSound(p)'
    BY <1>1 DEF PlanSound, PlanSoundNow
  <1>3. QED
    BY <1>1, <1>2, BeginKeepsMInv

LEMMA PlanKeepsMInv ==
  ASSUME OneProcess, MInv, NEW p \in Procs, Plan(p)
  PROVE  MInv'
  <1>1. RecordsHold
    BY MInvParts
  <1>2. ASSUME NEW m \in Moves, PlanMove(p, m) PROVE MInv'
    <2> DEFINE found == [d \in {m.source} |-> files[m.source].text]
               text == files[m.source].text
               pl == [NoPlan EXCEPT !.kind = "move", !.source = m.source, !.target = m.target,
                        !.text = text, !.absent = {m.target}, !.found = found]
    <2>1. /\ m.target \in Docs /\ m.source # m.target /\ text \in Contents
      BY <1>1, <1>2, InputsAssumption DEF PlanMove, RecordsHold
    <2>2. DOMAIN found = {m.source} /\ \A d \in DOMAIN found : found[d] = text
      OBVIOUS
    <2>3. Begin(p, "plan", {}) /\ plan' = [plan EXCEPT ![p] = pl]
      BY <1>2 DEF PlanMove
    <2> HIDE DEF found, text
    <2>4. /\ IsPlan(pl) /\ pl.kind = "move" /\ pl.source = m.source /\ pl.target = m.target
          /\ pl.text = text /\ pl.found = found
      BY DEF NoPlan, IsPlan, Fields
    <2> HIDE DEF pl
    <2>5. PlanSoundNow(pl)
      BY <2>1, <2>2, <2>4 DEF PlanSoundNow
    <2>6. QED
      BY <2>3, <2>4, <2>5, PlannedKeepsMInv
  <1>3. ASSUME NEW r \in Retypes, PlanRetype(p, r) PROVE MInv'
    <2> DEFINE found == [d \in {r.source} |-> files[r.source].text]
               text == files[r.source].text
               pl == [NoPlan EXCEPT !.kind = "move", !.source = r.source, !.target = r.target,
                        !.text = r.text, !.absent = {r.target}, !.found = found]
    <2>1. r.target \in Docs /\ r.source # r.target /\ text \in Contents /\ r.text \in Contents
      BY <1>1, <1>3, InputsAssumption DEF PlanRetype, RecordsHold
    <2>2. DOMAIN found = {r.source} /\ \A d \in DOMAIN found : found[d] = text
      OBVIOUS
    <2>3. Begin(p, "plan", {}) /\ plan' = [plan EXCEPT ![p] = pl]
      BY <1>3 DEF PlanRetype
    <2> HIDE DEF found, text
    <2>4. /\ IsPlan(pl) /\ pl.kind = "move" /\ pl.source = r.source /\ pl.target = r.target
          /\ pl.text = r.text /\ pl.found = found
      BY DEF NoPlan, IsPlan, Fields
    <2> HIDE DEF pl
    <2>5. PlanSoundNow(pl)
      BY <2>1, <2>2, <2>4 DEF PlanSoundNow
    <2>6. QED
      BY <2>3, <2>4, <2>5, PlannedKeepsMInv
  <1>4. ASSUME NEW w \in Applies, PlanApply(p, w) PROVE MInv'
    <2> DEFINE found == [d \in {w.doc} \intersect DOMAIN files |-> files[d].text]
               absent == {w.doc} \ DOMAIN files
               pl == [NoPlan EXCEPT !.kind = "apply", !.source = w.doc, !.target = w.doc, !.text = w.text,
                        !.absent = absent, !.found = found]
    <2>1. w.text \in Contents
      BY InputsAssumption
    <2>2. \A d \in DOMAIN found : found[d] \in Contents
      BY <1>1 DEF RecordsHold
    <2>3. Begin(p, "plan", {}) /\ plan' = [plan EXCEPT ![p] = pl]
      BY <1>4 DEF PlanApply
    <2> HIDE DEF found, absent
    <2>4. /\ IsPlan(pl) /\ pl.kind = "apply" /\ pl.text = w.text /\ pl.found = found
      BY DEF NoPlan, IsPlan, Fields
    <2> HIDE DEF pl
    <2>5. PlanSoundNow(pl)
      BY <2>1, <2>2, <2>4 DEF PlanSoundNow
    <2>6. QED
      BY <2>3, <2>4, <2>5, PlannedKeepsMInv
  <1>5. QED
    BY <1>2, <1>3, <1>4 DEF Plan

LEMMA MovingKeepsMInv ==
  ASSUME OneProcess, MInv, NEW p \in Procs,
         NEW stage \in (Prepared \union {"referrers"}), NEW next, Own(p, stage, next), JobShape(next),
         UNCHANGED <<vaultVars, rows, answer>>, StoreSound', IsState(state'),
         touched' = [q \in Procs |-> touched'[q]],
         plan' = [q \in Procs |-> plan'[q]], IsPlan(plan'[p]), MoveSound(p)'
  PROVE  MInv'
  <1>1. RecordsHold
    BY MInvParts
  <1>2. pc'[p] = stage /\ JobsAreRecords' /\ \A q \in Procs : q = p
    BY <1>1, OwnStep DEF OneProcess
  <1>3. RecordsHold'
    BY <1>1, <1>2 DEF RecordsHold, vaultVars, IsRow, IsState, Fields
  <1>4. ReconcileSound(p)' /\ AnswerStands(p)' /\ NoneLeft(p)'
    BY <1>2, NotReconciling DEF Prepared, IndexStages, AnswerStands, NoneLeft
  <1>5. QED
    BY <1>3, <1>4, MInvFromParts

(* ... of which most go on with the job and the plan as they are.          *)
LEMMA GoingOn ==
  ASSUME RecordsHold, NEW p \in Procs, NEW stage, Goto(p, stage), UNCHANGED job
  PROVE  Own(p, stage, job[p]) /\ JobShape(job[p])
  BY ShapeOfJob DEF Goto, Own, RecordsHold, JobsAreRecords

LEMMA LoadReferrersKeepsMInv ==
  ASSUME OneProcess, MInv, NEW p \in Procs, LoadReferrers(p)
  PROVE  MInv'
  <1> DEFINE refs == ReferringTo(plan[p].source) \ {plan[p].source}
             next == [NoJob EXCEPT !.op = "plan", !.known = refs]
  <1>1. RecordsHold /\ StoreSound /\ MoveSound(p)
    BY MInvParts
  <1>2. /\ Own(p, "referrers", next) /\ UNCHANGED <<vaultVars, dbVars, historyVars, plan>>
    BY DEF LoadReferrers, Goto, Own, ReferringTo
  <1> HIDE DEF refs
  <1>3. JobShape(next) /\ next.known = refs
    <2>1. JobShape(next)
      BY FreshJob
    <2>2. next.known = refs
      BY DEF NoJob
    <2>3. QED
      BY <2>1, <2>2
  <1> HIDE DEF next
  <1>4. pc'[p] = "referrers" /\ job'[p] = next
    BY <1>1, <1>2, <1>3, OwnStep
  <1>5. MoveSound(p)'
    <2>1. PlanSound(p)' /\ plan[p].kind = "move"
      BY <1>1, <1>2 DEF LoadReferrers, MoveSound, PlanSound
    <2>2. refs = ReferringTo(plan[p].source)' \ {plan[p].source}
      BY <1>2 DEF ReferringTo, dbVars, refs
    <2>3. ReferrersKnown(p)'
      BY <1>2, <1>3, <1>4, <2>1, <2>2 DEF ReferrersKnown, Prepared
    <2>4. QED
      BY <1>4, <2>1, <2>3 DEF MoveSound, FoundStands
  <1>6. QED
    BY <1>1, <1>2, <1>3, <1>5, SameStore, MovingKeepsMInv DEF RecordsHold, dbVars, historyVars, IsState, IsPlan, Fields

LEMMA ReadReferrersKeepsMInv ==
  ASSUME OneProcess, MInv, NEW p \in Procs, ReadReferrers(p)
  PROVE  MInv'
  <1> DEFINE refs == job[p].known
  <1>1. RecordsHold /\ StoreSound /\ MoveSound(p)
    BY MInvParts
  <1>2. pc[p] = "referrers" /\ UNCHANGED <<vaultVars, dbVars, historyVars>>
    BY DEF ReadReferrers
  <1>3. CASE refs \subseteq DOMAIN files
    <2> DEFINE texts == [d \in refs |-> files[d].text]
               found == Overlay(plan[p].found, texts)
    <2>1. Own(p, "planned", job[p]) /\ JobShape(job[p])
      BY <1>1, <1>3, GoingOn DEF ReadReferrers
    <2>2. plan' = [plan EXCEPT ![p].found = found]
      BY <1>3 DEF ReadReferrers
    <2>3. /\ DOMAIN found = DOMAIN plan[p].found \union refs
          /\ \A d \in DOMAIN found : found[d] \in Contents
      <3>1. DOMAIN texts = refs /\ \A d \in refs : texts[d] \in Contents
        BY <1>1, <1>3 DEF RecordsHold
      <3> HIDE DEF texts
      <3>2. QED
        BY <1>1, <3>1 DEF Overlay, MoveSound, PlanSound
    <2> HIDE DEF found
    <2>4. /\ plan' = [q \in Procs |-> plan'[q]] /\ IsPlan(plan'[p])
          /\ plan'[p].found = found /\ plan'[p].text = plan[p].text /\ plan'[p].kind = plan[p].kind
          /\ plan'[p].source = plan[p].source /\ plan'[p].target = plan[p].target
      BY <1>1, <2>2 DEF RecordsHold, IsPlan, Fields
    <2>5. pc'[p] = "planned"
      BY <1>1, <2>1, OwnStep
    <2>6. refs = ReferringTo(plan[p].source) \ {plan[p].source}
      BY <1>1, <1>2 DEF MoveSound, ReferrersKnown
    <2>7. PlanSound(p)'
      BY <1>1, <2>3, <2>4 DEF MoveSound, PlanSound
    <2>8. ReferrersKnown(p)'
      BY <1>1, <1>2, <2>3, <2>4, <2>5, <2>6 DEF MoveSound, PlanSound, ReferrersKnown, ReferringTo, dbVars
    <2>9. MoveSound(p)'
      BY <2>5, <2>7, <2>8 DEF MoveSound, FoundStands
    <2>10. "planned" \in Prepared
      BY DEF Prepared
    <2>11. QED
      BY <1>1, <1>2, <2>1, <2>4, <2>9, <2>10, SameStore, MovingKeepsMInv
      DEF RecordsHold, dbVars, historyVars, IsState, Fields
  <1>4. CASE ~(refs \subseteq DOMAIN files)
    BY <1>2, <1>4, IdleKeepsMInv DEF ReadReferrers, GiveUp
  <1>5. QED
    BY <1>3, <1>4

LEMMA TakeGenerationKeepsMInv ==
  ASSUME OneProcess, MInv, NEW p \in Procs, TakeGeneration(p)
  PROVE  MInv'
  <1>1. RecordsHold /\ StoreSound /\ MoveSound(p)
    BY MInvParts
  <1>2. /\ Own(p, "ready", NoJob) /\ JobShape(NoJob) /\ UNCHANGED <<vaultVars, dbVars, historyVars>>
        /\ plan' = [plan EXCEPT ![p].token = state.gen]
    BY NoJobFacts DEF TakeGeneration, Goto, Own
  <1>3. /\ plan' = [q \in Procs |-> plan'[q]] /\ IsPlan(plan'[p])
        /\ plan'[p].found = plan[p].found /\ plan'[p].text = plan[p].text /\ plan'[p].kind = plan[p].kind
        /\ plan'[p].source = plan[p].source /\ plan'[p].target = plan[p].target
    BY <1>1, <1>2 DEF RecordsHold, IsPlan, Fields
  <1>4. pc'[p] = "ready"
    BY <1>1, <1>2, OwnStep
  <1>5. PlanSound(p)'
    BY <1>1, <1>3 DEF MoveSound, PlanSound
  <1>6. ReferrersKnown(p)'
    BY <1>1, <1>2, <1>3, <1>4 DEF TakeGeneration, MoveSound, ReferrersKnown, ReferringTo, dbVars, Prepared
  <1>7. MoveSound(p)'
    BY <1>4, <1>5, <1>6 DEF MoveSound, FoundStands
  <1>8. "ready" \in Prepared
    BY DEF Prepared
  <1>9. QED
    BY <1>1, <1>2, <1>3, <1>7, <1>8, SameStore, MovingKeepsMInv
    DEF RecordsHold, dbVars, historyVars, IsState, Fields

LEMMA GoesOnAsPlanned ==
  ASSUME OneProcess, MInv, NEW p \in Procs, NEW stage \in Prepared, Goto(p, stage), UNCHANGED <<job, plan>>,
         UNCHANGED <<vaultVars, dbVars, historyVars>>, MoveSound(p)'
  PROVE  MInv'
  <1>1. RecordsHold /\ StoreSound
    BY MInvParts
  <1>2. Own(p, stage, job[p]) /\ JobShape(job[p])
    BY <1>1, GoingOn
  <1>3. StoreSound'
    BY <1>1, SameStore
  <1>4. /\ UNCHANGED <<vaultVars, rows, answer>> /\ IsState(state')
        /\ touched' = [q \in Procs |-> touched'[q]]
        /\ plan' = [q \in Procs |-> plan'[q]] /\ IsPlan(plan'[p])
    BY <1>1 DEF RecordsHold, dbVars, historyVars, IsState, IsPlan, Fields
  <1>5. QED
    BY <1>2, <1>3, <1>4, MovingKeepsMInv

LEMMA LockKeepsMInv ==
  ASSUME OneProcess, MInv, NEW p \in Procs, Lock(p)
  PROVE  MInv'
  <1>1. RecordsHold /\ MoveSound(p) /\ pc[p] = "ready" /\ UNCHANGED <<vaultVars, dbVars, historyVars>>
    BY MInvParts DEF Lock
  <1>2. CASE GiveUp(p)
    BY <1>1, <1>2, IdleKeepsMInv DEF GiveUp
  <1>3. CASE Goto(p, "locked") /\ UNCHANGED <<job, plan>>
    <2>1. pc'[p] = "locked"
      BY <1>1, <1>3, GoingOn, OwnStep
    <2>2. MoveSound(p)'
      BY <1>1, <1>3, <2>1 DEF MoveSound, PlanSound, ReferrersKnown, FoundStands, Prepared, ReferringTo, dbVars
    <2>3. "locked" \in Prepared
      BY DEF Prepared
    <2>4. QED
      BY <1>1, <1>3, <2>2, <2>3, GoesOnAsPlanned
  <1>4. QED
    BY <1>2, <1>3 DEF Lock

LEMMA CompareKeepsMInv ==
  ASSUME OneProcess, MInv, NEW p \in Procs, Compare(p)
  PROVE  MInv'
  <1>1. RecordsHold /\ MoveSound(p) /\ pc[p] = "locked" /\ UNCHANGED <<vaultVars, dbVars, historyVars>>
    BY MInvParts DEF Compare
  <1>2. CASE ~AsPlanned(plan[p])
    BY <1>1, <1>2, IdleKeepsMInv DEF Compare, GiveUp
  <1>3. CASE AsPlanned(plan[p])
    <2>1. Goto(p, "compared") /\ UNCHANGED <<job, plan>>
      BY <1>3 DEF Compare
    <2>2. pc'[p] = "compared"
      BY <1>1, <2>1, GoingOn, OwnStep
    <2>3. PlanSound(p)' /\ ReferrersKnown(p)'
      BY <1>1, <2>1, <2>2 DEF MoveSound, PlanSound, ReferrersKnown, Prepared, ReferringTo, dbVars
    <2>4. \A d \in DOMAIN plan[p].found : files[d].text = plan[p].found[d]
      BY <1>3 DEF AsPlanned
    <2>5. FoundStands(p)'
      BY <1>1, <2>1, <2>2, <2>4 DEF FoundStands, vaultVars
    <2>6. "compared" \in Prepared
      BY DEF Prepared
    <2>7. QED
      BY <1>1, <2>1, <2>3, <2>5, <2>6, GoesOnAsPlanned DEF MoveSound
  <1>4. QED
    BY <1>2, <1>3

(* prepare_write: what the index says is what the files say, and what was  *)
(* read of the referrers is what the files say, too.                       *)
LEMMA CheckIndexKeepsMInv ==
  ASSUME OneProcess, MInv, NEW p \in Procs, CheckIndex(p)
  PROVE  MInv'
  <1>1. /\ RecordsHold /\ StoreSound /\ MoveSound(p) /\ pc[p] = "compared"
        /\ UNCHANGED <<vaultVars, dbVars, answer>>
    BY MInvParts DEF CheckIndex
  <1>2. CASE ~IndexStands(plan[p])
    BY <1>1, <1>2, IdleKeepsMInv DEF CheckIndex, GiveUp, historyVars
  <1>3. CASE IndexStands(plan[p])
    <2>1. Goto(p, "checked") /\ UNCHANGED <<job, plan>> /\ touched' = [touched EXCEPT ![p] = {}]
      BY <1>3 DEF CheckIndex
    <2>2. Own(p, "checked", job[p]) /\ JobShape(job[p])
      BY <1>1, <2>1, GoingOn
    <2>3. pc'[p] = "checked"
      BY <1>1, <2>2, OwnStep
    <2>4. PlanSound(p)' /\ ReferrersKnown(p)'
      BY <1>1, <2>1, <2>3 DEF MoveSound, PlanSound, ReferrersKnown, Prepared, ReferringTo, dbVars
    <2>5. state # NoState /\ \A d \in DOMAIN files : d \in DOMAIN rows /\ rows[d].stamp = files[d].stamp
      BY <1>3 DEF IndexStands, ChangedPaths
    <2>6. \A d \in DOMAIN files : /\ rows[d].text = files[d].text
                                  /\ d \in DOMAIN plan[p].found => files[d].text = plan[p].found[d]
      BY <1>1, <2>5 DEF StoreSound, Vouches, MoveSound, FoundStands
    <2>7. FoundStands(p)'
      BY <1>1, <2>1, <2>3, <2>5, <2>6 DEF FoundStands, vaultVars, dbVars
    <2>8. "checked" \in Prepared
      BY DEF Prepared
    <2>9. /\ IsState(state') /\ touched' = [q \in Procs |-> touched'[q]]
          /\ plan' = [q \in Procs |-> plan'[q]] /\ IsPlan(plan'[p])
      BY <1>1, <2>1 DEF RecordsHold, dbVars, IsState, IsPlan, Fields
    <2>10. StoreSound' /\ UNCHANGED <<vaultVars, rows, answer>>
      BY <1>1, SameStore DEF dbVars
    <2>11. QED
      BY <2>2, <2>4, <2>7, <2>8, <2>9, <2>10, MovingKeepsMInv DEF MoveSound
  <1>4. QED
    BY <1>2, <1>3

LEMMA MarkDirtyKeepsMInv ==
  ASSUME OneProcess, MInv, NEW p \in Procs, MarkDirty(p)
  PROVE  MInv'
  <1>1. /\ RecordsHold /\ StoreSound /\ MoveSound(p) /\ pc[p] = "checked"
        /\ UNCHANGED <<vaultVars, rows, edges, job, historyVars, plan>> /\ Goto(p, "dirty")
    BY MInvParts DEF MarkDirty
  <1>2. Own(p, "dirty", job[p]) /\ JobShape(job[p])
    BY <1>1, GoingOn
  <1>3. pc'[p] = "dirty"
    BY <1>1, <1>2, OwnStep
  <1>4. IsState(state') /\ state'.topo = state.topo
    BY <1>1 DEF MarkDirty, RecordsHold, IsState, Fields
  <1>5. state # NoState
    BY <1>1 DEF MoveSound, FoundStands
  <1>6. StoreSound'
    BY <1>1, <1>4, <1>5
    DEF StoreSound, vaultVars, StampsArePast, Vouches, DomainsStand, EdgesMatchRows, AllEdges, Queryable, EdgesOf
  <1>7. MoveSound(p)'
    BY <1>1, <1>3
    DEF MoveSound, PlanSound, ReferrersKnown, FoundStands, Prepared, ReferringTo, vaultVars, historyVars
  <1>8. /\ touched' = [q \in Procs |-> touched'[q]]
        /\ plan' = [q \in Procs |-> plan'[q]] /\ IsPlan(plan'[p]) /\ answer' = answer /\ "dirty" \in Prepared
    BY <1>1 DEF RecordsHold, historyVars, IsPlan, Fields, Prepared
  <1>9. QED
    BY <1>1, <1>2, <1>4, <1>6, <1>7, <1>8, MovingKeepsMInv

----------------------------------------------------------------------------
(* The files are written.                                                  *)
LEMMA RewrittenFacts ==
  ASSUME NEW text \in Contents, NEW s, NEW t \in Docs, s # t
  PROVE  Rewritten(text, s, t) \in Contents /\ s \notin Rewritten(text, s, t).links
  <1> DEFINE links == {IF x = s THEN t ELSE x : x \in text.links}
  <1>1. links \in SUBSET Docs /\ s \notin links
    BY DEF Contents
  <1>2. Rewritten(text, s, t) = [text EXCEPT !.links = links]
    BY DEF Rewritten
  <1> HIDE DEF links
  <1>3. QED
    BY <1>1, <1>2 DEF Contents

(* What an edge says of its source's row                                   *)
LEMMA LinkedRefers ==
  ASSUME EdgesMatchRows, NEW d \in DOMAIN rows, NEW t \in LinksOf(rows[d].text), t # d, t \in Queryable(rows)
  PROVE  d \in ReferringTo(t)
  <1> DEFINE e == Ref(d, t, Queryable(rows))
  <1>1. e \in edges
    BY AllEdgesAreRefs DEF EdgesMatchRows
  <1>2. e.src = d /\ e.dst = t /\ e.res = "resolved"
    BY DEF Ref
  <1> HIDE DEF e
  <1>3. QED
    BY <1>1, <1>2 DEF ReferringTo

LEMMA WritesFacts ==
  ASSUME RecordsHold, NEW p \in Procs, MoveSound(p), pc[p] = "dirty"
  PROVE  LET pl == plan[p]
             new == Writes(pl)
         IN  /\ \A d \in DOMAIN new : new[d] \in Contents
             /\ pl.kind = "move" =>
                  /\ \A d \in DOMAIN new : pl.source \notin new[d].links
                  /\ \A d \in DOMAIN pl.found : d # pl.source /\ pl.source \in pl.found[d].links => d \in DOMAIN new
  <1> DEFINE pl == plan[p]
             new == Writes(pl)
  <1>1. PlanSound(p) /\ pl.kind \in {"move", "apply"}
    BY DEF MoveSound, ReferrersKnown, Prepared
  <1>2. CASE pl.kind = "apply"
    <2>1. new = [d \in {pl.target} |-> pl.text]
      BY <1>2 DEF Writes
    <2> HIDE DEF new
    <2>2. \A d \in DOMAIN new : new[d] \in Contents
      BY <1>1, <2>1 DEF PlanSound
    <2>3. QED
      BY <1>2, <2>2 DEF new
  <1>3. CASE pl.kind = "move"
    <2> DEFINE text(d) == IF d = pl.target THEN pl.text ELSE pl.found[d]
               refs == {r \in Referrers(pl) : pl.source \in pl.found[r].links}
    <2>1. new = [d \in {pl.target} \union refs |-> Rewritten(text(d), pl.source, pl.target)]
      BY <1>3 DEF Writes
    <2>2. \A d \in {pl.target} \union refs : text(d) \in Contents
      BY <1>1 DEF PlanSound, Referrers
    <2>3. pl.source # pl.target /\ pl.target \in Docs
      BY <1>1, <1>3 DEF PlanSound
    <2>4. \A d \in DOMAIN pl.found : d # pl.source /\ pl.source \in pl.found[d].links => d \in refs
      BY DEF Referrers
    <2> HIDE DEF text, refs
    <2>5. ASSUME NEW d \in {pl.target} \union refs
          PROVE  /\ Rewritten(text(d), pl.source, pl.target) \in Contents
                 /\ pl.source \notin Rewritten(text(d), pl.source, pl.target).links
      BY <2>2, <2>3, RewrittenFacts
    <2> HIDE DEF new
    <2>6. /\ \A d \in DOMAIN new : new[d] \in Contents /\ pl.source \notin new[d].links
          /\ \A d \in DOMAIN pl.found : d # pl.source /\ pl.source \in pl.found[d].links => d \in DOMAIN new
      BY <2>1, <2>4, <2>5
    <2>7. QED
      BY <2>6 DEF new
  <1>4. QED
    BY <1>1, <1>2, <1>3

LEMMA WriteFilesKeepsMInv ==
  ASSUME OneProcess, MInv, NEW p \in Procs, WriteFiles(p)
  PROVE  MInv'
  <1> DEFINE pl == plan[p]
             new == Writes(pl)
             out == [d \in DOMAIN new |-> [text |-> new[d], stamp |-> clock + 1]]
  <1>1. /\ RecordsHold /\ StoreSound /\ MoveSound(p) /\ pc[p] = "dirty"
        /\ UNCHANGED <<topo, dbVars, job, answer, plan>> /\ Goto(p, "written")
    BY MInvParts DEF WriteFiles
  <1>2. files' = Overlay(out, Without(files, Deletes(pl)))
    BY DEF WriteFiles
  <1>3. /\ clock \in Nat /\ clock' = clock + 1
        /\ touched' = [q \in Procs |-> touched'[q]] /\ touched'[p] = touched[p]
    BY <1>1 DEF WriteFiles, StoreSound, StampsArePast
  <1>4. /\ \A d \in DOMAIN new : new[d] \in Contents
        /\ pl.kind = "move" =>
             /\ \A d \in DOMAIN new : pl.source \notin new[d].links
             /\ \A d \in DOMAIN pl.found : d # pl.source /\ pl.source \in pl.found[d].links => d \in DOMAIN new
    BY <1>1, WritesFacts
  <1> HIDE DEF new
  <1>5. /\ DOMAIN out = DOMAIN new
        /\ \A d \in DOMAIN new : out[d].text = new[d] /\ out[d].stamp = clock + 1
    OBVIOUS
  <1> HIDE DEF out
  <1>6. /\ DOMAIN files' = DOMAIN new \union (DOMAIN files \ Deletes(pl))
        /\ \A d \in DOMAIN new : files'[d].text = new[d] /\ files'[d].stamp = clock + 1
        /\ \A d \in DOMAIN files' \ DOMAIN new : files'[d] = files[d]
    BY <1>2, <1>5 DEF Overlay, Without
  <1>7. Own(p, "written", job[p]) /\ JobShape(job[p]) /\ pc'[p] = "written" /\ JobsAreRecords'
    BY <1>1, GoingOn, OwnStep
  <1>8. RecordsHold'
    <2>1. \A d \in DOMAIN files' : files'[d].text \in Contents
      BY <1>1, <1>4, <1>6 DEF RecordsHold
    <2>2. QED
      BY <1>1, <1>3, <1>7, <2>1 DEF RecordsHold, dbVars, IsRow, IsState, IsPlan, Fields
  <1>9. StoreSound'
    <2>1. UNCHANGED <<topo, rows, edges, state>>
      BY <1>1 DEF dbVars
    <2>2. \A d \in DOMAIN files' : files'[d].stamp \in 0..clock'
      BY <1>1, <1>3, <1>6 DEF StoreSound, StampsArePast
    <2>3. StampsArePast'
      BY <1>1, <1>3, <2>1, <2>2 DEF StoreSound, StampsArePast
    <2>4. Vouches(rows)'
      <3>1. SUFFICES ASSUME NEW d \in DOMAIN rows \intersect DOMAIN files', rows[d].stamp = files'[d].stamp
                     PROVE  rows[d].text = files'[d].text
        BY <2>1 DEF Vouches
      <3>2. rows[d].stamp # clock + 1
        BY <1>1, <1>3 DEF StoreSound, StampsArePast
      <3>3. d \in DOMAIN files /\ files'[d] = files[d]
        BY <1>6, <3>1, <3>2
      <3>4. QED
        BY <1>1, <3>1, <3>3 DEF StoreSound, Vouches
    <2>5. DomainsStand' /\ EdgesMatchRows'
      BY <1>1, <2>1 DEF StoreSound, DomainsStand, EdgesMatchRows, AllEdges, Queryable, EdgesOf
    <2>6. QED
      BY <2>3, <2>4, <2>5 DEF StoreSound
  <1>10. NoneLeft(p)'
    <2>1. SUFFICES ASSUME pl.kind = "move", pl.source \in Queryable(rows),
                          NEW d \in DOMAIN files' \ touched[p], ~files'[d].text.moc
                   PROVE  pl.source \notin files'[d].text.links
      BY <1>1, <1>3 DEF NoneLeft, dbVars, Queryable
    <2>2. CASE d \in DOMAIN new
      BY <1>4, <1>6, <2>1, <2>2
    <2>3. CASE d \notin DOMAIN new
      <3>1. d \in DOMAIN files /\ d # pl.source /\ files'[d] = files[d]
        BY <1>6, <2>1, <2>3 DEF Deletes
      <3>2. d \in DOMAIN rows /\ rows[d].text = files[d].text /\ (d \in DOMAIN pl.found => files[d].text = pl.found[d])
        BY <1>1, <2>1, <3>1 DEF MoveSound, FoundStands
      <3>3. SUFFICES ASSUME pl.source \in files[d].text.links PROVE FALSE
        BY <3>1
      <3>4. pl.source \in LinksOf(rows[d].text)
        BY <2>1, <3>1, <3>2, <3>3 DEF LinksOf
      <3>5. d \in ReferringTo(pl.source)
        BY <1>1, <2>1, <3>1, <3>2, <3>4, LinkedRefers DEF StoreSound
      <3>6. d \in DOMAIN pl.found
        BY <1>1, <2>1, <3>5 DEF MoveSound, ReferrersKnown, Prepared
      <3>7. QED
        BY <1>4, <2>1, <2>3, <3>1, <3>2, <3>3, <3>6
    <2>4. QED
      BY <2>2, <2>3
  <1>11. ReconcileSound(p)' /\ AnswerStands(p)'
    BY <1>7, NotReconciling DEF IndexStages, AnswerStands
  <1>12. MoveSound(p)'
    BY <1>1, <1>7 DEF MoveSound, PlanSound, ReferrersKnown, FoundStands, Prepared
  <1>13. QED
    BY <1>8, <1>9, <1>10, <1>11, <1>12, MInvFromParts

(* refresh_after_write begins.                                             *)
LEMMA RefreshKeepsMInv ==
  ASSUME OneProcess, MInv, NEW p \in Procs, Refresh(p)
  PROVE  MInv'
  <1>1. RecordsHold /\ StoreSound
    BY MInvParts
  <1>2. /\ Own(p, "scan", [NoJob EXCEPT !.op = "update", !.known = KnownPaths(plan[p])])
        /\ UNCHANGED <<vaultVars, dbVars, historyVars>> /\ plan' = [plan EXCEPT ![p] = NoPlan]
    BY DEF Refresh, Goto, Own
  <1>3. ReconcileSound(p)' /\ JobsAreRecords' /\ pc'[p] = "scan"
    BY <1>1, <1>2, StartIsSound
  <1>4. IsPlan(NoPlan) /\ NoPlan.text \in Contents /\ DOMAIN NoPlan.found = {} /\ NoPlan.kind = "none"
    BY DEF IsPlan, Fields, NoPlan, Contents, NoFile, Nothing
  <1>5. plan'[p] = NoPlan /\ plan' = [q \in Procs |-> plan'[q]] /\ \A q \in Procs : q = p
    BY <1>1, <1>2 DEF RecordsHold, OneProcess
  <1>6. IsPlan(plan'[p])
    BY <1>4, <1>5
  <1>7. RecordsHold'
    BY <1>1, <1>2, <1>3, <1>5, <1>6 DEF RecordsHold, vaultVars, dbVars, historyVars, IsRow, IsState, Fields
  <1>8. PlanSound(p)'
    BY <1>4, <1>5 DEF PlanSound
  <1>9. MoveSound(p)' /\ NoneLeft(p)' /\ AnswerStands(p)'
    BY <1>3, <1>8, NotMoving DEF MoverStages, Prepared, AnswerStands
  <1>10. QED
    BY <1>1, <1>2, <1>3, <1>7, <1>9, SameStore, MInvFromParts

LEMMA MoveStepKeepsMInv ==
  ASSUME OneProcess, MInv, NEW p \in Procs, MoveStep(p)
  PROVE  MInv'
  <1>1. CASE Preview(p) \/ WriteFails(p)
    BY <1>1, IdleKeepsMInv DEF Preview, WriteFails, GiveUp
  <1>2. QED
    BY <1>1, LoadReferrersKeepsMInv, ReadReferrersKeepsMInv, TakeGenerationKeepsMInv, LockKeepsMInv,
       CompareKeepsMInv, CheckIndexKeepsMInv, MarkDirtyKeepsMInv, WriteFilesKeepsMInv, RefreshKeepsMInv
    DEF MoveStep

LEMMA IndexStepKeepsMInv ==
  ASSUME OneProcess, MInv, NEW p \in Procs, Step(p), UNCHANGED plan
  PROVE  MInv'
  BY ScanKeepsMInv, LoadFingerprintsKeepsMInv, LoadStateKeepsMInv, DecideKeepsMInv, OpenKeepsMInv,
     ReadKeepsMInv, SameHashKeepsMInv, RecordKeepsMInv, CommitKeepsMInv, EndKeepsMInv, QueryKeepsMInv
  DEF Step, ReconcileStep

LEMMA StutterKeepsMInv ==
  ASSUME MInv, UNCHANGED mvars
  PROVE  MInv'
  <1>1. UNCHANGED <<files, topo, clock, rows, edges, state, pc, job, answer, touched, plan>>
    BY DEF mvars, vars, vaultVars, dbVars, historyVars
  <1>2. RecordsHold' /\ StoreSound'
    <2>1. JobsAreRecords'
      BY <1>1, MInvParts DEF RecordsHold, JobsAreRecords
    <2>2. QED
      BY <1>1, <2>1, MInvParts, SameRecords, SameStore DEF vaultVars, dbVars
  <1>3. ASSUME NEW p \in Procs
        PROVE  ReconcileSound(p)' /\ MoveSound(p)' /\ AnswerStands(p)' /\ NoneLeft(p)'
    <2>1. ReconcileSound(p) /\ MoveSound(p) /\ AnswerStands(p) /\ NoneLeft(p)
      BY MInvParts
    <2>2. ReconcileSound(p)'
      BY <1>1, <2>1 DEF ReconcileSound, BuiltIsScanned, TakenOverStands, ReadsStand, MarkersStand, BuiltStands,
                        Fresh, Vouches
    <2>3. MoveSound(p)' /\ AnswerStands(p)' /\ NoneLeft(p)'
      BY <1>1, <2>1
      DEF MoveSound, PlanSound, ReferrersKnown, ReferringTo, FoundStands, AnswerStands, NoneLeft, Queryable
    <2>4. QED
      BY <2>2, <2>3
  <1>4. QueryFresh' /\ NoReferenceLeftBehind'
    BY <1>3 DEF QueryFresh, NoReferenceLeftBehind, AnswerStands, NoneLeft
  <1>5. QED
    BY <1>2, <1>3, <1>4 DEF MInv, StoreSound

LEMMA StepMInv == OneProcess /\ EditorWaits /\ MInv /\ [MNext]_mvars => MInv'
  <1> SUFFICES ASSUME OneProcess, EditorWaits, MInv, [MNext]_mvars PROVE MInv'
    OBVIOUS
  <1>1. ASSUME NEW p \in Procs, (List(p) /\ UNCHANGED <<lock, plan>>) \/ IndexStep(p) \/ MoveStep(p)
        PROVE  MInv'
    BY <1>1, ListKeepsMInv, IndexStepKeepsMInv, MoveStepKeepsMInv DEF IndexStep
  <1>2. ASSUME NEW p \in Movers, Plan(p) PROVE MInv'
    BY <1>2, PlanKeepsMInv, InputsAssumption
  <1>3. CASE UNCHANGED mvars
    BY <1>3, StutterKeepsMInv
  <1>4. QED
    BY <1>1, <1>2, <1>3, EditKeepsMInv DEF MNext

LEMMA InitMInv == MInit => MInv
  <1> SUFFICES ASSUME MInit PROVE MInv
    OBVIOUS
  <1>1. /\ files = InitialFiles /\ topo = 0 /\ clock = 0 /\ pc = [p \in Procs |-> "idle"]
        /\ rows = (IF StartIndexed THEN IndexedFiles ELSE Nothing)
        /\ edges = AllEdges(rows, DOMAIN rows)
        /\ state = (IF StartIndexed THEN [gen |-> 1, status |-> "ready", topo |-> 0] ELSE NoState)
        /\ job = [p \in Procs |-> NoJob] /\ plan = [p \in Procs |-> NoPlan]
        /\ answer = [p \in Procs |-> Nothing] /\ touched = [p \in Procs |-> {}]
    BY DEF MInit, Init
  <1>2. \A d \in DOMAIN files : files[d].text \in Contents /\ files[d].stamp = 0
    BY <1>1, FilesAssumption, TextsAssumption DEF Contents
  <1>3. \A d \in DOMAIN rows : /\ IsRow(rows[d]) /\ d \in DOMAIN files
                               /\ rows[d].text = files[d].text /\ rows[d].stamp = 0 /\ rows[d].domain = topo
    <2>1. CASE StartIndexed
      BY <1>1, <1>2, <2>1 DEF IndexedFiles, IsRow, Fields
    <2>2. CASE ~StartIndexed
      BY <1>1, <2>2 DEF Nothing
    <2>3. QED
      BY <2>1, <2>2
  <1>4. IsState(state) /\ state.topo = 0
    BY <1>1 DEF IsState, Fields, NoState
  <1>5. IsPlan(NoPlan) /\ NoPlan.text \in Contents /\ DOMAIN NoPlan.found = {} /\ NoPlan.kind = "none"
    BY DEF IsPlan, Fields, NoPlan, Contents, NoFile, Nothing
  <1>6. RecordsHold
    <2>1. JobsAreRecords
      BY <1>1, NoJobFacts DEF JobsAreRecords
    <2>2. QED
      BY <1>1, <1>2, <1>3, <1>4, <1>5, <2>1 DEF RecordsHold
  <1>7. StampsArePast /\ Vouches(rows) /\ DomainsStand /\ EdgesMatchRows
    BY <1>1, <1>2, <1>3, <1>4 DEF StampsArePast, Vouches, DomainsStand, EdgesMatchRows
  <1>8. ASSUME NEW p \in Procs PROVE ReconcileSound(p) /\ MoveSound(p)
    <2>1. pc[p] = "idle" /\ plan[p] = NoPlan
      BY <1>1
    <2>2. ReconcileSound(p)
      BY <2>1 DEF ReconcileSound, BuiltIsScanned, TakenOverStands, ReadsStand, MarkersStand, BuiltStands,
                  Building, Loaded
    <2>3. MoveSound(p)
      BY <1>5, <2>1 DEF MoveSound, PlanSound, ReferrersKnown, FoundStands, Prepared
    <2>4. QED
      BY <2>2, <2>3
  <1>9. QueryFresh /\ NoReferenceLeftBehind
    BY <1>1 DEF QueryFresh, NoReferenceLeftBehind
  <1>10. QED
    BY <1>6, <1>7, <1>8, <1>9 DEF MInv

LEMMA InvariantMInv == OneProcess /\ EditorWaits => (MSpec => []MInv)
  <1> SUFFICES ASSUME OneProcess, EditorWaits PROVE MSpec => []MInv
    OBVIOUS
  <1>1. MInit => MInv
    BY InitMInv
  <1>2. MInv /\ [MNext]_mvars => MInv'
    BY StepMInv
  <1>3. QED
    BY <1>1, <1>2, PTL DEF MSpec

(* One process, and an editor who waits: an answer agrees with every       *)
(* document that has not changed since it was asked for.                   *)
THEOREM AnswersAreFresh == OneProcess /\ EditorWaits => (MSpec => []QueryFresh)
  <1> SUFFICES ASSUME OneProcess, EditorWaits PROVE MSpec => []QueryFresh
    OBVIOUS
  <1>1. MSpec => []MInv
    BY InvariantMInv
  <1>2. MInv => QueryFresh
    BY DEF MInv
  <1>3. QED
    BY <1>1, <1>2, PTL

(* One process, and an editor who waits: a relocation takes along every    *)
(* reference to what it moves.                                             *)
THEOREM ReferencesComeAlong == OneProcess /\ EditorWaits => (MSpec => []NoReferenceLeftBehind)
  <1> SUFFICES ASSUME OneProcess, EditorWaits PROVE MSpec => []NoReferenceLeftBehind
    OBVIOUS
  <1>1. MSpec => []MInv
    BY InvariantMInv
  <1>2. MInv => NoReferenceLeftBehind
    BY DEF MInv
  <1>3. QED
    BY <1>1, <1>2, PTL

(* One process, and an editor who waits: whatever the increments, the      *)
(* stored references are those a full build from the stored rows leaves.   *)
THEOREM IncrementsEqualRebuild == OneProcess /\ EditorWaits => (MSpec => []EdgesMatchRows)
  <1> SUFFICES ASSUME OneProcess, EditorWaits PROVE MSpec => []EdgesMatchRows
    OBVIOUS
  <1>1. MSpec => []MInv
    BY InvariantMInv
  <1>2. MInv => EdgesMatchRows
    BY DEF MInv
  <1>3. QED
    BY <1>1, <1>2, PTL
=============================================================================
