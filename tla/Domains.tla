------------------------------ MODULE Domains ------------------------------
(***************************************************************************)
(* The Spaces and Domains of one Vault and the commands that change them:  *)
(* space create, adopt and format, domain create and format (SpaceService, *)
(* DomainService), domain rename, move, rekey, merge and delete            *)
(* (DomainRestructureService) and domain adopt (AdoptionService).          *)
(*                                                                         *)
(* All but create and format apply a change set under the lock of the      *)
(* Workspace; create and format write under the lock of CAMPFIRE_HOME.     *)
(* What a command writes it has planned before its lock, and each compares *)
(* something else of its plan there.  An editor saves at any time.         *)
(*                                                                         *)
(* The inside of a change set is ChangeSet, the Manifest as a file is      *)
(* Registry; here `roots' is its only content, and a change set is one     *)
(* step.  A Domain's declaration is its marker file; its text is plain as  *)
(* long as nobody has written in it.  The MOC beside it, which commands    *)
(* treat as they do the marker or leave alone, is left out.  Documents     *)
(* keep their identity: `of' and the version `rev' stand for the body.  A  *)
(* path is a sequence of names.  Hidden and reserved names, symbolic links *)
(* and types, names of Projects and Spaces are left out.                   *)
(***************************************************************************)
EXTENDS Naturals, Sequences, FiniteSets, SequencesExt

CONSTANTS
  Procs,       \* the processes that run commands
  Requests,    \* the commands they may run
  Starts,      \* the Vaults to start from
  Drafts,      \* documents that an editor may add: path -> document
  Bindings,    \* what project commands may bind: <<project, domain id>>
  None,
  MaxCommands, MaxEdits   \* bounds

VARIABLES
  vault,   \* [space, dirs, marker, doc, roots, outside]
  job,     \* where each process is, and its local variables
  ran,     \* number of commands planned
  edits    \* number of steps of others

vars == <<vault, job, ran, edits>>

----------------------------------------------------------------------------
(* Paths, and functions over paths.                                        *)
Under(p, d) == IsPrefix(d, p)
Inside(p, d) == p # d /\ Under(p, d)
Parents(p) == {SubSeq(p, 1, n) : n \in 1 .. Len(p) - 1}
Moved(p, from, to) == IF Under(p, from) THEN to \o SubSeq(p, Len(from) + 1, Len(p)) ELSE p
Shift(f, from, to) ==
  [x \in {Moved(p, from, to) : p \in DOMAIN f} |->
     f[CHOOSE p \in DOMAIN f : Moved(p, from, to) = x]]
Drop(f, S) == [x \in DOMAIN f \ S |-> f[x]]
With(f, x, y) == [z \in DOMAIN f \union {x} |-> IF z = x THEN y ELSE f[z]]
Values(f) == {f[x] : x \in DOMAIN f}

(* A Vault: Spaces at its root, Domains and documents below; what lies     *)
(* there lies in directories, and nothing is a directory and a document.   *)
IsPath(p)   == p \in Seq(STRING) /\ p # << >>
IsMap(f)    == f = [x \in DOMAIN f |-> f[x]] /\ IsFiniteSet(DOMAIN f)
IsDoc(d)    == d = [of |-> d.of, rev |-> d.rev, ref |-> d.ref, dom |-> d.dom]
IsSpace(s)  == s = [id |-> s.id, loose |-> s.loose]
IsMarker(m) == m = [id |-> m.id, parent |-> m.parent, name |-> m.name, text |-> m.text, loose |-> m.loose]
AreSpaces(f)  == IsMap(f) /\ \A s \in DOMAIN f : IsPath(s) /\ Len(s) = 1 /\ IsSpace(f[s])
AreMarkers(f) == IsMap(f) /\ \A d \in DOMAIN f : IsPath(d) /\ Len(d) > 1 /\ IsMarker(f[d])
AreDocs(f)    == IsMap(f) /\ \A p \in DOMAIN f : IsPath(p) /\ Len(p) > 1 /\ IsDoc(f[p])
AreOutside(f) == IsMap(f) /\ \A n \in DOMAIN f : n \in STRING /\ IsDoc(f[n])
HasTypes(V) ==
  /\ V = [space |-> V.space, dirs |-> V.dirs, marker |-> V.marker, doc |-> V.doc,
          roots |-> V.roots, outside |-> V.outside]
  /\ AreSpaces(V.space) /\ AreMarkers(V.marker) /\ AreDocs(V.doc) /\ AreOutside(V.outside)
  /\ IsMap(V.roots) /\ \A d \in V.dirs : IsPath(d)
IsTree(V) ==
  /\ DOMAIN V.space \subseteq V.dirs /\ DOMAIN V.marker \subseteq V.dirs
  /\ \A p \in V.dirs \union DOMAIN V.doc : Parents(p) \subseteq V.dirs
  /\ \A p \in DOMAIN V.doc : p \notin V.dirs
IsVault(V) == HasTypes(V) /\ IsTree(V)

IsRequest(q) ==
  /\ q.op \in {"space-create", "space-adopt", "space-format", "create", "format", "rename", "move",
               "rekey", "merge", "delete", "adopt"}
  /\ q.op \in {"space-create", "space-adopt"} => IsPath(q.path) /\ Len(q.path) = 1
  /\ q.op \in {"create", "adopt"} => IsPath(q.path) /\ q.path # None
  /\ q.op = "adopt" /\ q.from # None => IsPath(q.from)
  /\ q.op = "rename" /\ q.folder # None => q.folder \in STRING

ASSUME StartsAssumption   == \A V \in Starts : IsVault(V)
ASSUME RequestsAssumption == \A q \in Requests : IsRequest(q)
ASSUME DraftsAssumption   == \A p \in DOMAIN Drafts : IsPath(p) /\ IsDoc(Drafts[p])

(* What is on disk at p.                                                   *)
Exists(V, p)   == p \in V.dirs \union DOMAIN V.doc
Files(V, d)    == {p \in DOMAIN V.doc : Under(p, d)} \union {p \in DOMAIN V.marker : Under(p, d)}

(* discover: the Domains, by their markers.                                *)
Ids(V)         == {V.marker[d].id : d \in DOMAIN V.marker}
DirsOf(V, id)  == {d \in DOMAIN V.marker : V.marker[d].id = id}
Known(V, id)   == Cardinality(DirsOf(V, id)) = 1
DirOf(V, id)   == CHOOSE d \in DirsOf(V, id) : TRUE
Above(V, p)    == {d \in DOMAIN V.marker : Inside(p, d)}
Below(V, d)    == {e \in DOMAIN V.marker : Inside(e, d)}
Nearest(V, p)  == IF Above(V, p) = {} THEN None
                  ELSE V.marker[CHOOSE d \in Above(V, p) : \A e \in Above(V, p) : Under(d, e)].id
SpacesOf(V, id) == {s \in DOMAIN V.space : V.space[s].id = id}
InSpace(V, p)  == Len(p) > 1 /\ <<p[1]>> \in DOMAIN V.space

(* resolve_domain_context: the parents that a marker names lie above it,   *)
(* and at most one project is rooted at or above it.                       *)
Linked(V) ==
  LET linked[d \in DOMAIN V.marker] ==
        V.marker[d].parent = None
        \/ \E e \in Above(V, d) : V.marker[e].id = V.marker[d].parent /\ linked[e]
  IN linked
RootsAt(V, S)  == {p \in DOMAIN V.roots : \E d \in S : V.marker[d].id = V.roots[p]}
Claims(V, d)   == RootsAt(V, Above(V, d) \union {d})
ProjectOf(V, d) ==
  IF Linked(V)[d] /\ Cardinality(Claims(V, d)) = 1 THEN CHOOSE p \in Claims(V, d) : TRUE ELSE None
IsRoot(V, id)  == id \in Values(V.roots)

(* project_roots raises when two projects have the same root.              *)
Readable(V) == \A p, o \in DOMAIN V.roots : p # o => V.roots[p] # V.roots[o]

(* What discover reports.                                                  *)
Issues(V) ==
  {<<"duplicate-domain-id", id>> : id \in {i \in Ids(V) : ~Known(V, i)}}
  \union {<<"domain-parent", d>> : d \in {e \in DOMAIN V.marker : ~Linked(V)[e]}}
  \union {<<"domain-project-conflict", d>> : d \in {e \in DOMAIN V.marker : Cardinality(Claims(V, e)) > 1}}
  \union {<<"undeclared-domain-directory", d>> : d \in
            {e \in V.dirs \ DOMAIN V.marker : /\ InSpace(V, e)
                                              /\ \E p \in DOMAIN V.doc \union DOMAIN V.marker : Front(p) = e}}

----------------------------------------------------------------------------
(* What each command asks of the Vault it plans on.                        *)
Fits(V, p) == InSpace(V, p) /\ ~Exists(V, p)
ParentAgrees(V, q) ==
  LET d == Nearest(V, q.path)
  IN  q.project # None /\ d # None => ProjectOf(V, DirOf(V, d)) \in {None, q.project}

MayDefineSpace(q, V) ==
  /\ SpacesOf(V, q.id) = {} /\ q.path \notin DOMAIN V.space
  /\ (q.path \in V.dirs) = (q.op = "space-adopt")
MayDefine(q, V) == Fits(V, q.path) /\ q.id \notin Ids(V) /\ ParentAgrees(V, q)
MayFormat(q, V) == IF q.op = "format" THEN Known(V, q.id) ELSE SpacesOf(V, q.id) # {}

(* rename --folder-name; move to a Space or below a Domain.                *)
Folder(q, V)   == Front(DirOf(V, q.id)) \o <<q.folder>>
MayRename(q, V) ==
  /\ Known(V, q.id)
  /\ q.folder # None /\ Folder(q, V) # DirOf(V, q.id) => Fits(V, Folder(q, V))
NewParent(q, V) == IF SpacesOf(V, q.to) = {} THEN DirOf(V, q.to)
                   ELSE CHOOSE s \in SpacesOf(V, q.to) : TRUE
NewPlace(q, V)  == NewParent(q, V) \o <<Last(DirOf(V, q.id))>>
MayMove(q, V) ==
  /\ Known(V, q.id)
  /\ Cardinality(DirsOf(V, q.to)) + Cardinality(SpacesOf(V, q.to)) = 1
  /\ SpacesOf(V, q.to) = {} =>
       LET d == DirOf(V, q.id)
           e == DirOf(V, q.to)
       IN  /\ ~Under(e, d)
           /\ ProjectOf(V, e) # ProjectOf(V, d) => IsRoot(V, q.id) /\ ProjectOf(V, e) = None
  /\ NewPlace(q, V) = DirOf(V, q.id) \/ Fits(V, NewPlace(q, V))

MayRekey(q, V) == Known(V, q.id) /\ q.to \notin Ids(V)

Retained(V, d) == Files(V, d) \ {d}
(* Of what S retains, a document finds something at its target in V, or a  *)
(* marker another one.                                                     *)
TargetExists(S, V, s, t) == \E p \in Retained(S, s) :
  IF p \in DOMAIN S.doc THEN Exists(V, Moved(p, s, t)) ELSE Moved(p, s, t) \in DOMAIN V.marker
MayMerge(q, V) == Known(V, q.id) /\ Known(V, q.to) /\
  LET s == DirOf(V, q.id)
      t == DirOf(V, q.to)
  IN /\ ~Under(t, s)
     /\ ProjectOf(V, s) # ProjectOf(V, t) => IsRoot(V, q.id) /\ ProjectOf(V, t) = None
     /\ V.marker[s].text = "plain"
     /\ ~TargetExists(V, V, s, t)
MayDelete(q, V) == Known(V, q.id) /\
  LET d == DirOf(V, q.id)
  IN  Files(V, d) = {d} /\ ~IsRoot(V, q.id) /\ V.marker[d].text = "plain"

(* adopt: a folder of the Vault, where it is or elsewhere, or one outside. *)
MayAdopt(q, V) ==
  /\ q.id \notin Ids(V) /\ InSpace(V, q.path) /\ ParentAgrees(V, q)
  /\ q.project \in DOMAIN V.roots \union {None}
  /\ q.from # None => q.from \in V.dirs \ DOMAIN V.marker
  /\ q.from # q.path => ~Exists(V, q.path)

Allowed(q, V) ==
  /\ q.op \notin {"space-create", "space-adopt", "space-format"} => Readable(V)
  /\ CASE q.op \in {"space-create", "space-adopt"} -> MayDefineSpace(q, V)
       [] q.op = "create" -> MayDefine(q, V)
       [] q.op \in {"format", "space-format"} -> MayFormat(q, V)
       [] q.op = "rename" -> MayRename(q, V)
       [] q.op = "move"   -> MayMove(q, V)
       [] q.op = "rekey"  -> MayRekey(q, V)
       [] q.op = "merge"  -> MayMerge(q, V)
       [] q.op = "delete" -> MayDelete(q, V)
       [] OTHER           -> MayAdopt(q, V)

----------------------------------------------------------------------------
(* What each makes of a Vault when nobody interferes.                      *)
NewMarker(id, parent) ==
  [id |-> id, parent |-> parent, name |-> id, text |-> "plain", loose |-> FALSE]
Make(V, p)   == [V EXCEPT !.dirs = @ \union {p} \union Parents(p)]
Declare(V, q) == [Make(V, q.path) EXCEPT !.marker = With(@, q.path, NewMarker(q.id, Nearest(V, q.path)))]

DefineSpace(q, V) ==
  [Make(V, q.path) EXCEPT !.space = With(@, q.path, [id |-> q.id, loose |-> FALSE])]
Format(q, V) ==
  IF q.op = "format" THEN [V EXCEPT !.marker[DirOf(V, q.id)].loose = FALSE]
  ELSE [V EXCEPT !.space[CHOOSE s \in SpacesOf(V, q.id) : TRUE].loose = FALSE]

(* rewrite_related_docs: references to documents that move follow them.    *)
FollowInside(V, from, to) ==
  [p \in DOMAIN V.doc |->
     [V.doc[p] EXCEPT !.ref = IF @ \in DOMAIN V.doc /\ Under(p, from) THEN Moved(@, from, to) ELSE @]]
Follow(V, from, to) ==
  [p \in DOMAIN V.doc |->
     [V.doc[p] EXCEPT !.ref = IF @ \in DOMAIN V.doc THEN Moved(@, from, to) ELSE @]]
(* A Space lies at the root of the Vault or is none any more.              *)
ShiftAll(V, from, to) ==
  [V EXCEPT !.space = Drop(@, {s \in DOMAIN @ : Under(s, from)}),
            !.dirs = {Moved(d, from, to) : d \in @},
            !.marker = Shift(@, from, to), !.doc = Shift(@, from, to)]
Relocate(V, from, to) == ShiftAll([V EXCEPT !.doc = Follow(V, from, to)], from, to)

Rename(q, V) ==
  LET d == DirOf(V, q.id)
      named == IF q.name = None THEN V ELSE [V EXCEPT !.marker[d].name = q.name]
  IN  IF q.folder = None THEN named ELSE Relocate(named, d, Folder(q, V))
Move(q, V) ==
  LET parent == IF SpacesOf(V, q.to) = {} THEN q.to ELSE None
  IN  Relocate([V EXCEPT !.marker[DirOf(V, q.id)].parent = parent], DirOf(V, q.id), NewPlace(q, V))

(* _rewrite_domain_id in every marker and document, and _manifest_update.  *)
Instead(x, old, new) == IF x = old THEN new ELSE x
LeftBelow(V, old, new) == V.marker
Reparented(V, old, new) == [d \in DOMAIN V.marker |-> [V.marker[d] EXCEPT !.parent = Instead(@, old, new)]]
Reassigned(V, old, new) == [p \in DOMAIN V.doc |-> [V.doc[p] EXCEPT !.dom = Instead(@, old, new)]]
Rewritten(V, old, new) ==
  [V EXCEPT !.marker = Reparented(V, old, new), !.doc = Reassigned(V, old, new),
            !.roots = [p \in DOMAIN @ |-> Instead(@[p], old, new)]]
Rekey(q, V) ==
  LET W == Rewritten(V, q.id, q.to) IN [W EXCEPT !.marker[DirOf(V, q.id)].id = q.to]

(* merge: the files move one by one, and the directories they leave go.    *)
Taken(V, s) == [p \in DOMAIN V.doc |->
  IF Under(p, s) /\ Nearest(V, p) = V.marker[s].id /\ V.doc[p].dom # None
  THEN [V.doc[p] EXCEPT !.dom = V.marker[s].id] ELSE V.doc[p]]
Merge(q, V) ==
  LET s == DirOf(V, q.id)
      t == DirOf(V, q.to)
      W == Rewritten([V EXCEPT !.doc = Taken(V, s)], q.id, q.to)
      followed == [W EXCEPT !.doc = Follow(W, s, t)]
      files == Retained(V, s)
      made == {Moved(d, s, t) : d \in files \intersect DOMAIN V.marker}
                \union UNION {Parents(Moved(p, s, t)) : p \in files}
  IN [followed EXCEPT !.marker = Shift(Drop(@, {s}), s, t), !.doc = Shift(@, s, t),
                      !.dirs = {d \in @ : ~Under(d, s)} \union made]
Delete(q, V) ==
  LET d == DirOf(V, q.id) IN [V EXCEPT !.marker = Drop(@, {d}), !.dirs = {e \in @ : ~Under(e, d)}]

Bring(q, V) ==
  [V EXCEPT !.doc = [p \in DOMAIN @ \union {q.path \o <<n>> : n \in DOMAIN V.outside} |->
                       IF p \in DOMAIN @ THEN @[p] ELSE V.outside[Last(p)]]]
Place(q, V) == CASE q.from = None   -> V
                 [] q.from = q.path -> V
                 [] OTHER           -> ShiftAll(V, q.from, q.path)
Adopt(q, V) ==
  LET W == IF q.from = None THEN Bring(q, V) ELSE Place(q, V)
      declared == [Make(W, q.path) EXCEPT !.marker = With(@, q.path, NewMarker(q.id, Nearest(V, q.path)))]
  IN IF q.project = None THEN declared ELSE [declared EXCEPT !.roots[q.project] = q.id]

Effect(q, V) ==
  CASE q.op \in {"space-create", "space-adopt"} -> DefineSpace(q, V)
    [] q.op = "create" -> Declare(V, q)
    [] q.op \in {"format", "space-format"} -> Format(q, V)
    [] q.op = "rename" -> Rename(q, V)
    [] q.op = "move"   -> Move(q, V)
    [] q.op = "rekey"  -> Rekey(q, V)
    [] q.op = "merge"  -> Merge(q, V)
    [] q.op = "delete" -> Delete(q, V)
    [] OTHER           -> Adopt(q, V)

----------------------------------------------------------------------------
(* The plan applied to the Vault as it is by then: directories move with   *)
(* what is in them, what the plan writes or deletes is written or deleted, *)
(* everything else stays.                                                  *)
Carried(q, V, from, to) == IF from = to THEN V ELSE ShiftAll(V, from, to)
Base(q, S, V) ==
  CASE q.op = "rename" /\ q.folder # None -> Carried(q, V, DirOf(S, q.id), Folder(q, S))
    [] q.op = "move"  -> Carried(q, V, DirOf(S, q.id), NewPlace(q, S))
    [] q.op = "adopt" -> Place(q, V)
    [] OTHER          -> V
Patched(old, new, now) ==
  LET written == {x \in DOMAIN new : x \in DOMAIN old => new[x] # old[x]}
      gone == DOMAIN old \ DOMAIN new
  IN [x \in (DOMAIN now \ gone) \union written |-> IF x \in written THEN new[x] ELSE now[x]]
(* Whatever is made or written, the directories above it are made.         *)
Closed(dirs, files) == dirs \union UNION {Parents(p) : p \in dirs \union files}
Applied(q, S, V) ==
  LET old == Base(q, S, S)
      new == Effect(q, S)
      now == Base(q, S, V)
      space == Patched(old.space, new.space, now.space)
      marker == Patched(old.marker, new.marker, now.marker)
      doc == Patched(old.doc, new.doc, now.doc)
  IN [now EXCEPT !.space = space, !.marker = marker, !.doc = doc,
                 !.roots = Patched(old.roots, new.roots, @),
                 !.dirs = Closed((@ \ (old.dirs \ new.dirs)) \union (new.dirs \ old.dirs)
                                   \union DOMAIN space \union DOMAIN marker, DOMAIN doc)]

(* What undoes a change set, or ends a command before it writes: a target  *)
(* that exists or lies below its source, a directory that is not empty,    *)
(* a directory where a file is.                                            *)
Target(q, S) == CASE q.op = "rename" -> Folder(q, S)
                  [] q.op = "move"   -> NewPlace(q, S)
                  [] OTHER           -> q.path
Source(q, S) == IF q.op = "adopt" THEN q.from ELSE DirOf(S, q.id)
CannotMove(q, S, V) ==
  \/ /\ q.op \in {"move", "adopt"} \/ (q.op = "rename" /\ q.folder # None)
     /\ Source(q, S) # Target(q, S)
     /\ Exists(V, Target(q, S)) \/ (Source(q, S) # None /\ Under(Target(q, S), Source(q, S)))
  \/ q.op = "merge" /\ TargetExists(S, V, DirOf(S, q.id), DirOf(S, q.to))
CannotEmpty(q, S, V) == q.op \in {"merge", "delete"} /\
  LET s == DirOf(S, q.id)
  IN  \/ Files(V, s) \ Files(S, s) # {}
      \/ {d \in V.dirs \ S.dirs : Under(d, s)} # {}
      \/ q.op = "merge" /\ \E p \in Retained(S, s) : Under(Moved(p, s, DirOf(S, q.to)), s)
CannotMake(q, V) ==
  \/ q.op = "space-create" /\ Exists(V, q.path)
  \/ q.op = "create" /\ q.path \in DOMAIN V.marker
Possible(V) == \A p \in DOMAIN V.doc : p \notin V.dirs
CannotApply(q, S, V) ==
  \/ CannotMove(q, S, V) \/ CannotEmpty(q, S, V) \/ CannotMake(q, V)
  \/ ~Possible(Applied(q, S, V))

----------------------------------------------------------------------------
NoJob == [at |-> "idle", req |-> None, seen |-> None, hashed |-> None, entered |-> None]
Init == /\ vault \in Starts
        /\ job = [c \in Procs |-> NoJob]
        /\ ran = 0 /\ edits = 0

At(c, place) == job[c].at = place
Home == {"space-create", "space-adopt", "space-format", "create", "format"}
SameLock(q, r) == (q.op \in Home) = (r.op \in Home)
FreeOfNobody(c) == TRUE
Free(c) == \A b \in Procs \ {c} : At(b, "write") => ~SameLock(job[b].req, job[c].req)

(* A command reads the Vault and plans.  rename --folder-name wants the    *)
(* digest of a preview, merge and delete hash what they have read, adopt   *)
(* stages what comes from outside.                                         *)
FirstPlace(q) ==
  CASE q.op = "rename" /\ q.folder # None -> "preview"
    [] q.op \in {"merge", "delete"}       -> "hash"
    [] q.op = "adopt" /\ q.from = None    -> "stage"
    [] OTHER                              -> "enter"
Plan(c, q) ==
  /\ At(c, "idle") /\ ran < MaxCommands
  /\ Allowed(q, vault)
  /\ job' = [job EXCEPT ![c] = [NoJob EXCEPT !.at = FirstPlace(q), !.req = q, !.seen = vault]]
  /\ ran' = ran + 1
  /\ UNCHANGED <<vault, edits>>

(* plan_digest of _plan_changes: every document and marker, the Manifest,  *)
(* and the directories that move.                                          *)
SameRoots(q, V, W) == V.roots = W.roots
SamePlan(q, V, W) ==
  /\ V.doc = W.doc /\ V.marker = W.marker /\ V.roots = W.roots
  /\ Base(q, V, V) # V => \A d \in V.dirs \union W.dirs :
                            Under(d, DirOf(V, q.id)) => d \in V.dirs \intersect W.dirs

Stay == UNCHANGED <<vault, ran, edits>>
Go(c, with) == job' = [job EXCEPT ![c] = with]
Done(c)     == job' = [job EXCEPT ![c] = NoJob]

(* The confirmed call plans again, and its digest is the expected one.     *)
Confirm(c) ==
  LET j == job[c] IN
  /\ At(c, "preview") /\ Allowed(j.req, vault) /\ SamePlan(j.req, j.seen, vault)
  /\ Go(c, [j EXCEPT !.at = "enter", !.seen = vault])
  /\ Stay
(* merge hashes every file that it has read, delete the declaration; what  *)
(* has gone meanwhile cannot be hashed.                                    *)
HashedDocs(q, S)    == IF q.op = "delete" THEN {} ELSE DOMAIN S.doc
HashedMarkers(q, S) == IF q.op = "delete" THEN {DirOf(S, q.id)} ELSE DOMAIN S.marker
CanHash(q, S, V)    == HashedDocs(q, S) \subseteq DOMAIN V.doc /\ HashedMarkers(q, S) \subseteq DOMAIN V.marker
Hash(c) ==
  /\ At(c, "hash")
  /\ IF CanHash(job[c].req, job[c].seen, vault)
     THEN Go(c, [job[c] EXCEPT !.at = "enter", !.hashed = vault]) ELSE Done(c)
  /\ Stay
Stage(c) ==
  /\ At(c, "stage")
  /\ IF vault.outside = job[c].seen.outside THEN Go(c, [job[c] EXCEPT !.at = "enter"]) ELSE Done(c)
  /\ Stay

(* What is compared under the lock.                                        *)
SameFiles(q, S, H, V) ==
  /\ \A p \in HashedDocs(q, S) : p \in DOMAIN V.doc /\ V.doc[p] = H.doc[p]
  /\ \A d \in HashedMarkers(q, S) : d \in DOMAIN V.marker /\ V.marker[d] = H.marker[d]
MergeFits(q, S, H, V) == ~TargetExists(S, V, DirOf(S, q.id), DirOf(S, q.to))
MergeStands(q, S, H, V) ==
  /\ SameFiles(q, S, H, V)
  /\ IsRoot(S, q.id) => V.roots = H.roots
  /\ ~TargetExists(S, V, DirOf(S, q.id), DirOf(S, q.to))
DefineStands(q, V) ==
  IF q.op = "space-adopt" THEN q.path \in V.dirs \ DOMAIN V.space ELSE ~Exists(V, q.path)
FormatStands(q, S, V) ==
  IF q.op = "format" THEN LET d == DirOf(S, q.id) IN d \in DOMAIN V.marker /\ V.marker[d] = S.marker[d]
  ELSE \A s \in SpacesOf(S, q.id) : s \in DOMAIN V.space /\ V.space[s] = S.space[s]
AdoptStands(q, S, V) ==
  /\ q.path \notin DOMAIN V.marker
  /\ q.from # None => /\ q.from \in V.dirs
                      /\ \A p \in DOMAIN S.doc : Under(p, q.from) => p \in DOMAIN V.doc /\ V.doc[p] = S.doc[p]
                      /\ \A d \in DOMAIN S.marker : Under(d, q.from) => d \in DOMAIN V.marker /\ V.marker[d] = S.marker[d]
  /\ q.project # None => V.roots = S.roots
Stands(q, S, H, V) ==
  CASE q.op \in {"space-create", "space-adopt", "create"} -> DefineStands(q, V)
    [] q.op \in {"format", "space-format"} -> FormatStands(q, S, V)
    [] q.op = "merge"  -> MergeStands(q, S, H, V)
    [] q.op = "delete" -> SameFiles(q, S, H, V)
    [] q.op = "adopt"  -> AdoptStands(q, S, V)
    [] OTHER           -> SamePlan(q, S, V)
Enter(c) ==
  LET j == job[c] IN
  /\ At(c, "enter") /\ Free(c)
  /\ Stands(j.req, j.seen, j.hashed, vault)
  /\ Go(c, [j EXCEPT !.at = "write", !.entered = vault])
  /\ Stay
Refuse(c) ==
  LET j == job[c] IN
  /\ \/ At(c, "preview") /\ ~(Allowed(j.req, vault) /\ SamePlan(j.req, j.seen, vault))
     \/ At(c, "enter") /\ Free(c) /\ ~Stands(j.req, j.seen, j.hashed, vault)
  /\ Done(c)
  /\ Stay

Write(c) ==
  LET j == job[c] IN
  /\ At(c, "write")
  /\ vault' = IF CannotApply(j.req, j.seen, vault) THEN vault ELSE Applied(j.req, j.seen, vault)
  /\ Done(c)
  /\ UNCHANGED <<ran, edits>>

----------------------------------------------------------------------------
(* Others: an editor on the Vault and on the folder outside, and project   *)
(* commands, which bind a declared Domain that no project has.             *)
Edit(change) ==
  /\ edits < MaxEdits /\ edits' = edits + 1
  /\ vault' = change
  /\ UNCHANGED <<job, ran>>
Save == \E p \in DOMAIN vault.doc : Edit([vault EXCEPT !.doc[p].rev = edits + 1])
Author == \E d \in DOMAIN vault.marker : Edit([vault EXCEPT !.marker[d].text = "authored"])
Draft == \E p \in DOMAIN Drafts :
  /\ Front(p) \in vault.dirs /\ ~Exists(vault, p)
  /\ Edit([vault EXCEPT !.doc = With(@, p, Drafts[p])])
SaveOutside == \E n \in DOMAIN vault.outside : Edit([vault EXCEPT !.outside[n].rev = edits + 1])
Bind == \E b \in Bindings :
  /\ b[2] \in Ids(vault) \ Values(vault.roots)
  /\ Edit([vault EXCEPT !.roots = With(@, b[1], b[2])])
Others == Save \/ Author \/ Draft \/ SaveOutside \/ Bind

Next ==
  \/ \E c \in Procs :
       \/ \E q \in Requests : Plan(c, q)
       \/ Confirm(c) \/ Hash(c) \/ Stage(c) \/ Enter(c) \/ Refuse(c) \/ Write(c)
  \/ Others

Spec == Init /\ [][Next]_vars

----------------------------------------------------------------------------
(* The Vault is a tree of directories with its declarations and documents; *)
(* a process that is not idle has a request and has read a Vault; those    *)
(* that write under the same lock exclude each other.                      *)
IsJob(j) ==
  /\ j = [at |-> j.at, req |-> j.req, seen |-> j.seen, hashed |-> j.hashed, entered |-> j.entered]
  /\ j.at \in {"idle", "preview", "hash", "stage", "enter", "write"}
  /\ j.at # "idle" => j.req \in Requests /\ IsVault(j.seen)
  /\ j.at \in {"enter", "write"} /\ j.req.op \in {"merge", "delete"} => IsVault(j.hashed)
  /\ j.at = "write" => IsVault(j.entered)
TypeOK ==
  /\ IsVault(vault)
  /\ job = [c \in Procs |-> job[c]] /\ \A c \in Procs : IsJob(job[c])
  /\ ran \in Nat /\ edits \in Nat
  /\ \A b, c \in Procs : At(b, "write") /\ At(c, "write") /\ b # c => ~SameLock(job[b].req, job[c].req)

Writes(c) == At(c, "write") /\ job'[c].at = "idle" /\ vault' # vault

(* The windows that no comparison covers: between the comparison and the   *)
(* write; for merge and delete, between the text that is read and the hash *)
(* that is compared; and what a command has read and does not compare at   *)
(* all: the Domains around a new one, a project's root that goes or is     *)
(* merged, documents that are new since merge has planned, a second Domain *)
(* or Space of the same id, the Space that a Domain moves into.            *)
Late(c)    == job[c].entered # vault
Stirred(c) ==
  LET j == job[c]
  IN  /\ j.req.op \in {"merge", "delete"}
      /\ \/ \E p \in HashedDocs(j.req, j.seen) : j.hashed.doc[p] # j.seen.doc[p]
         \/ \E d \in HashedMarkers(j.req, j.seen) : j.hashed.marker[d] # j.seen.marker[d]
Unseen(c) ==
  LET j == job[c]
      S == j.seen
  IN CASE j.req.op \in {"create", "adopt", "space-create", "space-adopt"} ->
            S.marker # vault.marker \/ S.space # vault.space \/ S.roots # vault.roots
            \/ S.outside # vault.outside
       [] j.req.op = "merge" ->
            \/ S.roots # vault.roots \/ DOMAIN S.doc # DOMAIN vault.doc
            \/ DOMAIN S.marker # DOMAIN vault.marker
       [] j.req.op = "delete" -> S.roots # vault.roots \/ DirsOf(S, j.req.id) # DirsOf(vault, j.req.id)
       [] j.req.op = "format" -> ~Readable(vault) \/ DirsOf(S, j.req.id) # DirsOf(vault, j.req.id)
       [] j.req.op = "space-format" -> SpacesOf(S, j.req.id) # SpacesOf(vault, j.req.id)
       [] j.req.op \in {"rename", "move"} ->
            \/ ~(DOMAIN S.space \subseteq DOMAIN vault.space)
            \/ j.req.op = "move" /\ SpacesOf(S, j.req.to) # SpacesOf(vault, j.req.to)
       [] OTHER -> FALSE

(* Plan, preview and compare amount to a command that runs alone: what is  *)
(* written is what the command would do to the Vault of that moment, and   *)
(* the Vault of that moment allows it, whatever other commands and editors *)
(* have done since it was planned; unless in one of those windows.         *)
AsIfAlone == [][\A c \in Procs : Writes(c) /\ ~Late(c) /\ ~Stirred(c) /\ ~Unseen(c) =>
  Allowed(job[c].req, vault) /\ vault' = Effect(job[c].req, vault)]_vars

(* SPEC.md, Domain restructures: no command loses a saved body or text     *)
(* that somebody has written in a declaration; except that adopt does not  *)
(* see that the folder it moves has been declared since it was planned.    *)
Bodies(V)   == {<<d.of, d.rev>> : d \in Values(V.doc)}
Authored(V) == Cardinality({d \in DOMAIN V.marker : V.marker[d].text = "authored"})
DeclaredSince(c) == job[c].req.op = "adopt" /\ job[c].req.from \in DOMAIN vault.marker
ContentKept == [][\A c \in Procs : Writes(c) /\ ~Late(c) /\ ~Stirred(c) /\ ~DeclaredSince(c) =>
  Bodies(vault) \subseteq Bodies(vault') /\ Authored(vault) <= Authored(vault')]_vars

(* SPEC.md: references, the Domain that a document names and the root of a *)
(* project follow every rename, move, rekey and merge.                     *)
Resolves(V, p) == V.doc[p].ref \in DOMAIN V.doc
Follows(V, W, p) == \E o \in DOMAIN W.doc :
  /\ W.doc[o].of = V.doc[p].of
  /\ Resolves(V, p) => Resolves(W, o) /\ W.doc[W.doc[o].ref].of = V.doc[V.doc[p].ref].of
  /\ V.doc[p].dom \in Ids(V) => W.doc[o].dom \in Ids(W)
ReferencesFollow == [][\A c \in Procs :
  Writes(c) /\ ~Late(c) /\ ~Stirred(c) /\ ~Unseen(c) /\ job[c].req.op \in {"rename", "move", "rekey", "merge"} =>
    /\ \A p \in DOMAIN vault.doc : Follows(vault, vault', p)
    /\ \A p \in DOMAIN vault.roots : vault.roots[p] \in Ids(vault) => vault'.roots[p] \in Ids(vault')]_vars

(* SPEC.md: sub-Domains are resolved again in the same transaction.  No    *)
(* command makes discover report more than before; except that a project   *)
(* may come to be rooted above another one's root, by merge and by adopt,  *)
(* that adopt moves declared Domains away from their parents, and that a   *)
(* new Domain may get directories above it that nobody declares.           *)
Count(V, code) == Cardinality({i \in Issues(V) : i[1] = code})
Codes == {"duplicate-domain-id", "domain-parent", "domain-project-conflict", "undeclared-domain-directory"}
Tolerated(q, V, code) ==
  \/ q.op \in {"merge", "adopt"} /\ code = "domain-project-conflict"
  \/ q.op = "adopt" /\ code = "domain-parent"
  \/ q.op \in {"create", "adopt"} /\ Front(q.path) \notin V.dirs /\ code = "undeclared-domain-directory"
TopologySound == [][\A c \in Procs : Writes(c) /\ ~Late(c) /\ ~Stirred(c) /\ ~Unseen(c) =>
  \A code \in Codes : ~Tolerated(job[c].req, vault, code) => Count(vault', code) <= Count(vault, code)]_vars
=============================================================================
