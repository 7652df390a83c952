----------------------------- MODULE Maintenance -----------------------------
(***************************************************************************)
(* What keeps a Workspace in order: maintenance check and sync             *)
(* (MaintenanceService) and the Bases (BaseService).                       *)
(*                                                                         *)
(* check reads the declarations and every document, and stores issues and  *)
(* topology for them; sync writes the generated region of the MOC and the  *)
(* topology in one change set; Bases are replaced by the package's.  All   *)
(* plan without the lock and compare hashes under it (optimistic_write_    *)
(* lock).  One Domain with its marker and MOC stands for all; what is      *)
(* found in a document is a function of its text, so issues are modelled   *)
(* as the texts they were found in, topology as the text of the marker.    *)
(***************************************************************************)
EXTENDS Desk

CONSTANTS Markers, Moc, Base, Notes   \* the paths of the Vault

VARIABLE db   \* [issues, topology, indexed, report]

Documents == Notes \union {Moc} \union Markers
MaintenanceInit == db = [issues |-> <<>>, topology |-> <<>>, indexed |-> <<>>, report |-> <<>>]

Text(f)         == vault[f].text
Texts(S)        == [f \in Present(S) |-> Text(f)]
MarkersAsHashed(p) == \A f \in DOMAIN job[p].hashed \intersect Markers : vault[f] = job[p].hashed[f]
SameAsHashed(p) == \A f \in DOMAIN job[p].hashed : vault[f] = job[p].hashed[f]
Unlock(p)       == Finish(p) /\ lock' = None
Keep            == UNCHANGED <<vault, db>>
Read(p, there, field, value) ==
  job' = [job EXCEPT ![p] = [[@ EXCEPT ![field] = value] EXCEPT !.at = there]]
ReadText(p, there, value) ==
  job' = [job EXCEPT ![p] = [@ EXCEPT !.at = there, !.read = value, !.beside = lock]]
(* discover, then the hashes of the markers it found.                      *)
Discover(p, there) == Read(p, there, "topology", Texts(Markers)) /\ Keep /\ UNCHANGED lock
HashMarkers(p, there) ==
  Read(p, there, "hashed", Look(DOMAIN job[p].topology)) /\ Keep /\ UNCHANGED <<lock, count>>
HashDocuments(p, there) ==
  Read(p, there, "hashed", Also(job[p].hashed, Present(Documents))) /\ Keep /\ UNCHANGED <<lock, count>>
EnterAnyway(p, may, there) ==
  /\ IF may THEN lock' = p /\ Goto(p, there) ELSE Finish(p) /\ UNCHANGED lock
  /\ Keep /\ UNCHANGED count
Enter(p, may, there) ==
  /\ IF lock = None /\ may THEN lock' = p /\ Goto(p, there) ELSE Finish(p) /\ UNCHANGED lock
  /\ Keep /\ UNCHANGED count

----------------------------------------------------------------------------
(* check: the topology, then every document, hashed and read by the rules. *)
CheckDiscover(p) == MayRun(p, "check") /\ Discover(p, "check: topology")
CheckTopology(p) == At(p, "check: topology") /\ HashMarkers(p, "check: hash")
CheckHash(p)     == At(p, "check: hash") /\ HashDocuments(p, "check: rules")
CheckRules(p) ==
  /\ At(p, "check: rules")
  /\ IF \E f \in DOMAIN job[p].hashed : vault[f] = None THEN Finish(p)
     ELSE ReadText(p, "check: lock", Texts(DOMAIN job[p].hashed))
  /\ Keep /\ UNCHANGED <<lock, count>>

(* Under the lock: the rows, the index, the run and the two reports.       *)
CheckLock(p) == At(p, "check: lock") /\ Enter(p, SameAsHashed(p), "check: rows")
CheckRows(p) ==
  /\ At(p, "check: rows") /\ Goto(p, "check: index")
  /\ db' = [db EXCEPT !.issues = job[p].read, !.topology = job[p].topology]
  /\ UNCHANGED <<vault, lock, count>>
CheckIndex(p) ==
  /\ At(p, "check: index") /\ Goto(p, "check: report")
  /\ db' = [db EXCEPT !.indexed = Texts(Documents)]
  /\ UNCHANGED <<vault, lock, count>>
CheckReport(p) ==
  /\ At(p, "check: report") /\ Unlock(p)
  /\ db' = [db EXCEPT !.report = job[p].read]
  /\ UNCHANGED <<vault, count>>

----------------------------------------------------------------------------
(* sync: the topology, the hashes of all documents (the MOC is one), the   *)
(* direct notes and the index, and then the MOC itself.                    *)
Generated(notes, topology) == [notes |-> notes, topology |-> topology]
SyncDiscover(p) == MayRun(p, "sync") /\ Discover(p, "sync: topology")
SyncTopology(p) == At(p, "sync: topology") /\ HashMarkers(p, "sync: hash")
(* A scope that is missing or unmanaged, or a topology with issues.        *)
SyncBlocked(p) ==
  /\ At(p, "sync: topology") /\ Finish(p)
  /\ Keep /\ UNCHANGED <<lock, count>>
SyncHash(p) == At(p, "sync: hash") /\ HashDocuments(p, "sync: notes")
SyncNotes(p) ==
  /\ At(p, "sync: notes")
  /\ Read(p, "sync: moc", "notes", Present(Notes))
  /\ db' = [db EXCEPT !.indexed = Texts(Documents)]
  /\ UNCHANGED <<vault, lock, count>>
SyncMoc(p) ==
  /\ At(p, "sync: moc")
  /\ IF vault[Moc] = None \/ vault[Moc].region = None THEN Finish(p)
     ELSE ReadText(p, "sync: lock", [vault[Moc] EXCEPT !.region = Generated(job[p].notes, job[p].topology)])
  /\ Keep /\ UNCHANGED <<lock, count>>

(* The change set: what was hashed is compared, verify_topology looks for  *)
(* markers that were added, the MOC is written, and put back if the rows   *)
(* cannot be committed.                                                    *)
SameTopology(p) == Present(Markers) = DOMAIN job[p].topology
SyncLockThenHash(p) ==
  /\ At(p, "sync: lock")
  /\ IF lock = None /\ SameTopology(p)
     THEN lock' = p /\ Read(p, "sync: write", "hashed", Look(DOMAIN job[p].hashed))
     ELSE Finish(p) /\ UNCHANGED lock
  /\ Keep /\ UNCHANGED count
SyncLock(p) == At(p, "sync: lock") /\ Enter(p, SameAsHashed(p) /\ SameTopology(p), "sync: write")
SyncWrite(p) ==
  /\ At(p, "sync: write")
  /\ Read(p, "sync: rows", "expected", vault[Moc])
  /\ vault' = [vault EXCEPT ![Moc] = job[p].read]
  /\ UNCHANGED <<lock, db, count>>
SyncRows(p) ==
  /\ At(p, "sync: rows") /\ Unlock(p)
  /\ \/ /\ db' = [db EXCEPT !.topology = job[p].topology]
        /\ UNCHANGED <<vault, count>>
     \/ /\ Tally("failures", MaxFailures)
        /\ vault' = [vault EXCEPT ![Moc] = job[p].expected] /\ UNCHANGED db

----------------------------------------------------------------------------
(* Bases: compared with the package's, hashed, compared again, written.    *)
BaseRead(p) ==
  /\ vault[Base] # None => Text(Base) # 0
  /\ MayRun(p, "bases") /\ Goto(p, "bases: hash")
  /\ Keep /\ UNCHANGED lock
BaseHash(p) ==
  /\ At(p, "bases: hash")
  /\ Read(p, "bases: lock", "hashed", Look({Base}))
  /\ Keep /\ UNCHANGED <<lock, count>>
BaseLock(p) == At(p, "bases: lock") /\ Enter(p, SameAsHashed(p), "bases: write")
BaseWrite(p) ==
  /\ At(p, "bases: write") /\ Unlock(p)
  /\ vault' = [vault EXCEPT ![Base] = [text |-> 0, region |-> None]]
  /\ UNCHANGED <<db, count>>

MaintenanceStep(p) ==
  \/ CheckDiscover(p) \/ CheckTopology(p) \/ CheckHash(p) \/ CheckRules(p)
  \/ CheckLock(p) \/ CheckRows(p) \/ CheckIndex(p) \/ CheckReport(p)
  \/ SyncDiscover(p) \/ SyncTopology(p) \/ SyncBlocked(p) \/ SyncHash(p) \/ SyncNotes(p) \/ SyncMoc(p)
  \/ SyncLock(p) \/ SyncWrite(p) \/ SyncRows(p)
  \/ BaseRead(p) \/ BaseHash(p) \/ BaseLock(p) \/ BaseWrite(p)
=============================================================================
